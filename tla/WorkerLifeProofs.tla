--------------------------- MODULE WorkerLifeProofs ---------------------------
(* For every finite set of workers: the data that all share and the        *)
(* engines are there before, and until after, their users are, and what is *)
(* allocated is freed once.  For every geometry and every sequence of hits *)
(* a detector is shown the volumes of the step.                            *)
EXTENDS ScoringObjects, Counting, SequenceTheorems

-----------------------------------------------------------------------------
(* Where a worker is before its engine works, and while it frees.          *)
Idle == {"start", "InitializeAdePT", "common", "wait", "engine"}
Freeing == {"FreeGPU", "FreeG4HepEm", "FreeBField", "reset", "FreeVolAuxArray", "FreeScoring"}

(* The variables have their types; a worker that takes no part is where it *)
(* started.                                                                *)
Types ==
  /\ TypeOK
  /\ workers # {} /\ \A w \in Workers \ workers : wpc[w] = "start" /\ engine[w] = "none"

(* Whether what all share must be there still.                             *)
InUse == IF ASYNC_MODE THEN exitpc \in {"none", "join"} ELSE ~RunIsOver

(* How far the common initialisation is tells what is on the device.       *)
Initialized ==
  /\ initStep = 0 => data["geometry"] = "none"
  /\ initStep >= 1 => data["geometry"] = "live" \/ (ADEPT_USE_SURF /\ data["geometry"] = "none")
  /\ initStep >= 2 => data["hepem"] = "live"
  /\ initStep >= 3 => data["field"] = "live" \/ ~magneticField
  /\ initStep >= 4 => data["volAux"] = "live"
  /\ initStep >= 6 => engine["shared"] = "live"

(* Nobody gets past the once flag before the initialisation is complete.   *)
Started ==
  /\ initStep <= AllSteps
  /\ onceFlag = "done" => initStep = AllSteps
  /\ \A w \in workers :
       wpc[w] \notin {"start", "InitializeAdePT", "common"} => initStep = AllSteps

(* The worker's own engine, in the synchronous build.                      *)
OwnEngine ==
  /\ \A w \in workers : wpc[w] = "running" => ASYNC_MODE \/ engine[w] = "live"
  /\ \A w \in workers : wpc[w] \in Freeing => ~ASYNC_MODE
  /\ \A w \in workers : wpc[w] \in Freeing \cup {"ended"} => RunIsOver

(* The thread of the asynchronous engine and the end of the program.       *)
Exits ==
  /\ ~ASYNC_MODE => exitpc = "none" /\ gpuThread = "none" /\ engine["shared"] = "none"
  /\ gpuThread = "running" => initStep = 7
  /\ exitpc # "none" => \A w \in workers : wpc[w] = "ended"
  /\ exitpc \notin {"none", "join"} => gpuThread = "ended"

IInv == Types /\ Started /\ OwnEngine /\ Exits /\ (InUse => Initialized)

(* The program starts with nothing allocated and nobody past the once      *)
(* flag.                                                                   *)
LEMMA InitInvariant == Init => IInv
<1> SUFFICES ASSUME Init PROVE IInv
  OBVIOUS
<1>1. TypeOK
  <2>1. workers \subseteq Workers
    BY DEF Init
  <2>2. wpc \in [Workers -> {"start", "InitializeAdePT", "common", "wait", "engine", "running",
                          "done", "FreeGPU", "FreeG4HepEm", "FreeBField", "reset",
                          "FreeVolAuxArray", "FreeScoring", "ended"}]
    BY DEF Init
  <2>3. data \in [Data -> {"none", "live", "freed"}] /\ argument \in [Workers -> BOOLEAN]
        /\ engine \in [Engines -> {"none", "buffers", "live", "freed"}]
    BY DEF Init
  <2>4. initStep \in 0 .. 7
    BY DEF Init
  <2> QED BY <2>1, <2>2, <2>3, <2>4 DEF Init, TypeOK
<1>2. Types
  BY <1>1 DEF Init, Types, Engines
<1>3. Started /\ OwnEngine /\ Exits /\ Initialized
  BY <1>1, <1>2 DEF Init, Started, OwnEngine, Exits, Initialized, AllSteps, Freeing,
     Data, Types, TypeOK, Engines
<1> QED BY <1>2, <1>3 DEF IInv

(* Every step keeps the types.                                             *)
LEMMA TypesStep == IInv /\ [Next]_vars => Types'
<1> SUFFICES ASSUME IInv, [Next]_vars PROVE Types'
  OBVIOUS
<1> USE WorkersAssumption DEF IInv, Types, TypeOK, Data, Engines, program, startVars, threadVars, vars
<1>1. ASSUME NEW w \in Workers, ConstructProcess(w) PROVE Types'
  BY <1>1 DEF ConstructProcess, Go
<1>2. ASSUME NEW w \in Workers, CallOnce(w) PROVE Types'
  BY <1>2 DEF CallOnce, Go
<1>3. ASSUME NEW w \in Workers, InitializeGeometry(w) PROVE Types'
  BY <1>3 DEF InitializeGeometry, CommonStep, Go, Upload, LoadGeometry
<1>4. ASSUME NEW w \in Workers, InitializePhysics(w) PROVE Types'
  BY <1>4 DEF InitializePhysics, CommonStep, Go, Upload
<1>5. ASSUME NEW w \in Workers, InitializeBField(w) PROVE Types'
  BY <1>5 DEF InitializeBField, CommonStep, Go, Upload, UploadBField
<1>6. ASSUME NEW w \in Workers, InitializeVolAuxArray(w) PROVE Types'
  BY <1>6 DEF InitializeVolAuxArray, CommonStep, Go, Upload
<1>7. ASSUME NEW w \in Workers, AllocateTrackBuffer(w) PROVE Types'
  BY <1>7 DEF AllocateTrackBuffer, EngineStep, Go
<1>8. ASSUME NEW w \in Workers, InitializeGPU(w) PROVE Types'
  BY <1>8 DEF InitializeGPU, EngineStep, Go
<1>9. ASSUME NEW w \in Workers, LaunchGPUWorker(w) PROVE Types'
  BY <1>9 DEF LaunchGPUWorker, EngineStep, Go
<1>10. ASSUME NEW w \in Workers, InitializeFails(w) PROVE Types'
  BY <1>10 DEF InitializeFails, Go
<1>11. ASSUME NEW w \in Workers, EndCommonInit(w) PROVE Types'
  BY <1>11 DEF EndCommonInit, Go, CommonInitDone
<1>12. ASSUME NEW w \in Workers, WaitForCommonInit(w) PROVE Types'
  BY <1>12 DEF WaitForCommonInit, Go
<1>13. ASSUME NEW w \in Workers, InitializeEngine(w) PROVE Types'
  BY <1>13 DEF InitializeEngine, Go, NewInstance
<1>14. ASSUME NEW w \in Workers, RunEnds(w) PROVE Types'
  BY <1>14 DEF RunEnds, Go
<1>15. ASSUME NEW w \in Workers, Cleanup(w) PROVE Types'
  BY <1>15 DEF Cleanup, Go
<1>16. ASSUME NEW w \in Workers, FreeGPU(w) PROVE Types'
  BY <1>16 DEF FreeGPU, Go
<1>17. ASSUME NEW w \in Workers, FreeG4HepEm(w) PROVE Types'
  BY <1>17 DEF FreeG4HepEm, Go, Free
<1>18. ASSUME NEW w \in Workers, FreeBField(w) PROVE Types'
  BY <1>18 DEF FreeBField, Go
<1>19. ASSUME NEW w \in Workers, ResetState(w) PROVE Types'
  <2>1. fg4hepem_state' \in BOOLEAN
    BY <1>19 DEF ResetState
  <2>2. wpc' = [wpc EXCEPT ![w] = "FreeVolAuxArray"] /\ w \in workers
    BY <1>19 DEF ResetState, Go
  <2>3. UNCHANGED <<program, startVars, data, argument, engine, threadVars, failure>>
    BY <1>19 DEF ResetState
  <2> QED BY <2>1, <2>2, <2>3
<1>20. ASSUME NEW w \in Workers, FreeVolAuxArray(w) PROVE Types'
  BY <1>20 DEF FreeVolAuxArray, Go, Free
<1>21. ASSUME NEW w \in Workers, FreeScoring(w) PROVE Types'
  BY <1>21 DEF FreeScoring, Go
<1>22. CASE StopTransport
  BY <1>22 DEF StopTransport, Exit
<1>23. CASE TransportEnds
  BY <1>23 DEF TransportEnds
<1>24. CASE FreeVolAux
  BY <1>24 DEF FreeVolAux, Exit, Free, Join
<1>25. CASE ResetEngine
  BY <1>25 DEF ResetEngine, Exit
<1>26. CASE FreeSharedG4HepEm
  BY <1>26 DEF FreeSharedG4HepEm, Exit, Free
<1>27. CASE FreeSharedBField
  BY <1>27 DEF FreeSharedBField, Exit
<1>28. CASE UNCHANGED vars
  BY <1>28 DEF vars
<1> QED
  BY <1>1, <1>2, <1>3, <1>4, <1>5, <1>6, <1>7, <1>8, <1>9, <1>10, <1>11, <1>12, <1>13, <1>14,
     <1>15, <1>16, <1>17, <1>18, <1>19, <1>20, <1>21, <1>22, <1>23, <1>24, <1>25, <1>26, <1>27,
     <1>28 DEF Next, Step, Exiting

(* A worker passes the once flag only when call_once has returned or was   *)
(* complete, which is after the last step of the common initialisation.    *)
LEMMA StartedStep == IInv /\ [Next]_vars => Started'
<1> SUFFICES ASSUME IInv, [Next]_vars PROVE Started'
  OBVIOUS
<1> USE WorkersAssumption DEF IInv, Types, TypeOK, Data, Engines, program, startVars, threadVars, Started, AllSteps
<1>1. ASSUME NEW w \in Workers, ConstructProcess(w) PROVE Started'
  BY <1>1 DEF ConstructProcess, Go
<1>2. ASSUME NEW w \in Workers, CallOnce(w) PROVE Started'
  BY <1>2 DEF CallOnce, Go
<1>3. ASSUME NEW w \in Workers, InitializeGeometry(w) PROVE Started'
  BY <1>3 DEF InitializeGeometry, CommonStep, Go, Upload, LoadGeometry
<1>4. ASSUME NEW w \in Workers, InitializePhysics(w) PROVE Started'
  BY <1>4 DEF InitializePhysics, CommonStep, Go, Upload
<1>5. ASSUME NEW w \in Workers, InitializeBField(w) PROVE Started'
  BY <1>5 DEF InitializeBField, CommonStep, Go, Upload, UploadBField
<1>6. ASSUME NEW w \in Workers, InitializeVolAuxArray(w) PROVE Started'
  BY <1>6 DEF InitializeVolAuxArray, CommonStep, Go, Upload
<1>7. ASSUME NEW w \in Workers, AllocateTrackBuffer(w) PROVE Started'
  BY <1>7 DEF AllocateTrackBuffer, EngineStep, Go
<1>8. ASSUME NEW w \in Workers, InitializeGPU(w) PROVE Started'
  BY <1>8 DEF InitializeGPU, EngineStep, Go
<1>9. ASSUME NEW w \in Workers, LaunchGPUWorker(w) PROVE Started'
  BY <1>9 DEF LaunchGPUWorker, EngineStep, Go
<1>10. ASSUME NEW w \in Workers, InitializeFails(w) PROVE Started'
  BY <1>10 DEF InitializeFails, Go
<1>11. ASSUME NEW w \in Workers, EndCommonInit(w) PROVE Started'
  BY <1>11 DEF EndCommonInit, Go, CommonInitDone
<1>12. ASSUME NEW w \in Workers, WaitForCommonInit(w) PROVE Started'
  BY <1>12 DEF WaitForCommonInit, Go
<1>13. ASSUME NEW w \in Workers, InitializeEngine(w) PROVE Started'
  BY <1>13 DEF InitializeEngine, Go, NewInstance
<1>14. ASSUME NEW w \in Workers, RunEnds(w) PROVE Started'
  BY <1>14 DEF RunEnds, Go
<1>15. ASSUME NEW w \in Workers, Cleanup(w) PROVE Started'
  BY <1>15 DEF Cleanup, Go
<1>16. ASSUME NEW w \in Workers, FreeGPU(w) PROVE Started'
  BY <1>16 DEF FreeGPU, Go
<1>17. ASSUME NEW w \in Workers, FreeG4HepEm(w) PROVE Started'
  BY <1>17 DEF FreeG4HepEm, Go, Free
<1>18. ASSUME NEW w \in Workers, FreeBField(w) PROVE Started'
  BY <1>18 DEF FreeBField, Go
<1>19. ASSUME NEW w \in Workers, ResetState(w) PROVE Started'
  BY <1>19 DEF ResetState, Go
<1>20. ASSUME NEW w \in Workers, FreeVolAuxArray(w) PROVE Started'
  BY <1>20 DEF FreeVolAuxArray, Go, Free
<1>21. ASSUME NEW w \in Workers, FreeScoring(w) PROVE Started'
  BY <1>21 DEF FreeScoring, Go
<1>22. CASE StopTransport
  BY <1>22 DEF StopTransport, Exit
<1>23. CASE TransportEnds
  BY <1>23 DEF TransportEnds
<1>24. CASE FreeVolAux
  BY <1>24 DEF FreeVolAux, Exit, Free, Join
<1>25. CASE ResetEngine
  BY <1>25 DEF ResetEngine, Exit
<1>26. CASE FreeSharedG4HepEm
  BY <1>26 DEF FreeSharedG4HepEm, Exit, Free
<1>27. CASE FreeSharedBField
  BY <1>27 DEF FreeSharedBField, Exit
<1>28. CASE UNCHANGED vars
  BY <1>28 DEF vars
<1> QED
  BY <1>1, <1>2, <1>3, <1>4, <1>5, <1>6, <1>7, <1>8, <1>9, <1>10, <1>11, <1>12, <1>13, <1>14,
     <1>15, <1>16, <1>17, <1>18, <1>19, <1>20, <1>21, <1>22, <1>23, <1>24, <1>25, <1>26, <1>27,
     <1>28 DEF Next, Step, Exiting

(* A worker of the synchronous build transports with its own engine until  *)
(* the run is over, and frees only then.                                   *)
LEMMA OwnEngineStep == IInv /\ [Next]_vars => OwnEngine'
<1> SUFFICES ASSUME IInv, [Next]_vars PROVE OwnEngine'
  OBVIOUS
<1> USE WorkersAssumption DEF IInv, Types, TypeOK, Data, Engines, program, startVars, threadVars, OwnEngine, Freeing, RunIsOver
<1>1. ASSUME NEW w \in Workers, ConstructProcess(w) PROVE OwnEngine'
  BY <1>1 DEF ConstructProcess, Go
<1>2. ASSUME NEW w \in Workers, CallOnce(w) PROVE OwnEngine'
  BY <1>2 DEF CallOnce, Go
<1>3. ASSUME NEW w \in Workers, InitializeGeometry(w) PROVE OwnEngine'
  BY <1>3 DEF InitializeGeometry, CommonStep, Go, Upload, LoadGeometry
<1>4. ASSUME NEW w \in Workers, InitializePhysics(w) PROVE OwnEngine'
  BY <1>4 DEF InitializePhysics, CommonStep, Go, Upload
<1>5. ASSUME NEW w \in Workers, InitializeBField(w) PROVE OwnEngine'
  BY <1>5 DEF InitializeBField, CommonStep, Go, Upload, UploadBField
<1>6. ASSUME NEW w \in Workers, InitializeVolAuxArray(w) PROVE OwnEngine'
  BY <1>6 DEF InitializeVolAuxArray, CommonStep, Go, Upload
<1>7. ASSUME NEW w \in Workers, AllocateTrackBuffer(w) PROVE OwnEngine'
  BY <1>7 DEF AllocateTrackBuffer, EngineStep, Go
<1>8. ASSUME NEW w \in Workers, InitializeGPU(w) PROVE OwnEngine'
  BY <1>8 DEF InitializeGPU, EngineStep, Go
<1>9. ASSUME NEW w \in Workers, LaunchGPUWorker(w) PROVE OwnEngine'
  BY <1>9 DEF LaunchGPUWorker, EngineStep, Go
<1>10. ASSUME NEW w \in Workers, InitializeFails(w) PROVE OwnEngine'
  BY <1>10 DEF InitializeFails, Go
<1>11. ASSUME NEW w \in Workers, EndCommonInit(w) PROVE OwnEngine'
  BY <1>11 DEF EndCommonInit, Go, CommonInitDone
<1>12. ASSUME NEW w \in Workers, WaitForCommonInit(w) PROVE OwnEngine'
  BY <1>12 DEF WaitForCommonInit, Go
<1>13. ASSUME NEW w \in Workers, InitializeEngine(w) PROVE OwnEngine'
  BY <1>13 DEF InitializeEngine, Go, NewInstance
<1>14. ASSUME NEW w \in Workers, RunEnds(w) PROVE OwnEngine'
  BY <1>14 DEF RunEnds, Go
<1>15. ASSUME NEW w \in Workers, Cleanup(w) PROVE OwnEngine'
  BY <1>15 DEF Cleanup, Go
<1>16. ASSUME NEW w \in Workers, FreeGPU(w) PROVE OwnEngine'
  BY <1>16 DEF FreeGPU, Go
<1>17. ASSUME NEW w \in Workers, FreeG4HepEm(w) PROVE OwnEngine'
  BY <1>17 DEF FreeG4HepEm, Go, Free
<1>18. ASSUME NEW w \in Workers, FreeBField(w) PROVE OwnEngine'
  BY <1>18 DEF FreeBField, Go
<1>19. ASSUME NEW w \in Workers, ResetState(w) PROVE OwnEngine'
  BY <1>19 DEF ResetState, Go
<1>20. ASSUME NEW w \in Workers, FreeVolAuxArray(w) PROVE OwnEngine'
  BY <1>20 DEF FreeVolAuxArray, Go, Free
<1>21. ASSUME NEW w \in Workers, FreeScoring(w) PROVE OwnEngine'
  BY <1>21 DEF FreeScoring, Go
<1>22. CASE StopTransport
  BY <1>22 DEF StopTransport, Exit
<1>23. CASE TransportEnds
  BY <1>23 DEF TransportEnds
<1>24. CASE FreeVolAux
  BY <1>24 DEF FreeVolAux, Exit, Free, Join
<1>25. CASE ResetEngine
  BY <1>25 DEF ResetEngine, Exit
<1>26. CASE FreeSharedG4HepEm
  BY <1>26 DEF FreeSharedG4HepEm, Exit, Free
<1>27. CASE FreeSharedBField
  BY <1>27 DEF FreeSharedBField, Exit
<1>28. CASE UNCHANGED vars
  BY <1>28 DEF vars
<1> QED
  BY <1>1, <1>2, <1>3, <1>4, <1>5, <1>6, <1>7, <1>8, <1>9, <1>10, <1>11, <1>12, <1>13, <1>14,
     <1>15, <1>16, <1>17, <1>18, <1>19, <1>20, <1>21, <1>22, <1>23, <1>24, <1>25, <1>26, <1>27,
     <1>28 DEF Next, Step, Exiting

(* The thread of the asynchronous engine starts with the last              *)
(* initialisation step; the data go after it has been joined.              *)
LEMMA ExitsStep == IInv /\ [Next]_vars => Exits'
<1> SUFFICES ASSUME IInv, [Next]_vars PROVE Exits'
  OBVIOUS
<1> USE WorkersAssumption DEF IInv, Types, TypeOK, Data, Engines, program, startVars, threadVars, Exits, Started, AllSteps
<1>1. ASSUME NEW w \in Workers, ConstructProcess(w) PROVE Exits'
  BY <1>1 DEF ConstructProcess, Go
<1>2. ASSUME NEW w \in Workers, CallOnce(w) PROVE Exits'
  BY <1>2 DEF CallOnce, Go
<1>3. ASSUME NEW w \in Workers, InitializeGeometry(w) PROVE Exits'
  BY <1>3 DEF InitializeGeometry, CommonStep, Go, Upload, LoadGeometry
<1>4. ASSUME NEW w \in Workers, InitializePhysics(w) PROVE Exits'
  BY <1>4 DEF InitializePhysics, CommonStep, Go, Upload
<1>5. ASSUME NEW w \in Workers, InitializeBField(w) PROVE Exits'
  BY <1>5 DEF InitializeBField, CommonStep, Go, Upload, UploadBField
<1>6. ASSUME NEW w \in Workers, InitializeVolAuxArray(w) PROVE Exits'
  BY <1>6 DEF InitializeVolAuxArray, CommonStep, Go, Upload
<1>7. ASSUME NEW w \in Workers, AllocateTrackBuffer(w) PROVE Exits'
  BY <1>7 DEF AllocateTrackBuffer, EngineStep, Go
<1>8. ASSUME NEW w \in Workers, InitializeGPU(w) PROVE Exits'
  BY <1>8 DEF InitializeGPU, EngineStep, Go
<1>9. ASSUME NEW w \in Workers, LaunchGPUWorker(w) PROVE Exits'
  BY <1>9 DEF LaunchGPUWorker, EngineStep, Go
<1>10. ASSUME NEW w \in Workers, InitializeFails(w) PROVE Exits'
  BY <1>10 DEF InitializeFails, Go
<1>11. ASSUME NEW w \in Workers, EndCommonInit(w) PROVE Exits'
  BY <1>11 DEF EndCommonInit, Go, CommonInitDone
<1>12. ASSUME NEW w \in Workers, WaitForCommonInit(w) PROVE Exits'
  BY <1>12 DEF WaitForCommonInit, Go
<1>13. ASSUME NEW w \in Workers, InitializeEngine(w) PROVE Exits'
  BY <1>13 DEF InitializeEngine, Go, NewInstance
<1>14. ASSUME NEW w \in Workers, RunEnds(w) PROVE Exits'
  BY <1>14 DEF RunEnds, Go
<1>15. ASSUME NEW w \in Workers, Cleanup(w) PROVE Exits'
  BY <1>15 DEF Cleanup, Go
<1>16. ASSUME NEW w \in Workers, FreeGPU(w) PROVE Exits'
  BY <1>16 DEF FreeGPU, Go
<1>17. ASSUME NEW w \in Workers, FreeG4HepEm(w) PROVE Exits'
  BY <1>17 DEF FreeG4HepEm, Go, Free
<1>18. ASSUME NEW w \in Workers, FreeBField(w) PROVE Exits'
  BY <1>18 DEF FreeBField, Go
<1>19. ASSUME NEW w \in Workers, ResetState(w) PROVE Exits'
  BY <1>19 DEF ResetState, Go
<1>20. ASSUME NEW w \in Workers, FreeVolAuxArray(w) PROVE Exits'
  BY <1>20 DEF FreeVolAuxArray, Go, Free
<1>21. ASSUME NEW w \in Workers, FreeScoring(w) PROVE Exits'
  BY <1>21 DEF FreeScoring, Go
<1>22. CASE StopTransport
  BY <1>22 DEF StopTransport, Exit
<1>23. CASE TransportEnds
  BY <1>23 DEF TransportEnds
<1>24. CASE FreeVolAux
  BY <1>24 DEF FreeVolAux, Exit, Free, Join
<1>25. CASE ResetEngine
  BY <1>25 DEF ResetEngine, Exit
<1>26. CASE FreeSharedG4HepEm
  BY <1>26 DEF FreeSharedG4HepEm, Exit, Free
<1>27. CASE FreeSharedBField
  BY <1>27 DEF FreeSharedBField, Exit
<1>28. CASE UNCHANGED vars
  BY <1>28 DEF vars
<1> QED
  BY <1>1, <1>2, <1>3, <1>4, <1>5, <1>6, <1>7, <1>8, <1>9, <1>10, <1>11, <1>12, <1>13, <1>14,
     <1>15, <1>16, <1>17, <1>18, <1>19, <1>20, <1>21, <1>22, <1>23, <1>24, <1>25, <1>26, <1>27,
     <1>28 DEF Next, Step, Exiting

(* What the common initialisation has put on the device stays there while  *)
(* it is in use.                                                           *)
LEMMA InitializedStep == IInv /\ [Next]_vars => (InUse' => Initialized')
<1> SUFFICES ASSUME IInv, [Next]_vars PROVE InUse' => Initialized'
  OBVIOUS
<1> USE WorkersAssumption DEF IInv, Types, TypeOK, Data, Engines, program, startVars, threadVars, Initialized, InUse, RunIsOver, Exits, OwnEngine, Freeing
<1>1. ASSUME NEW w \in Workers, ConstructProcess(w) PROVE InUse' => Initialized'
  BY <1>1 DEF ConstructProcess, Go
<1>2. ASSUME NEW w \in Workers, CallOnce(w) PROVE InUse' => Initialized'
  BY <1>2 DEF CallOnce, Go
<1>3. ASSUME NEW w \in Workers, InitializeGeometry(w) PROVE InUse' => Initialized'
  BY <1>3 DEF InitializeGeometry, CommonStep, Go, Upload, LoadGeometry
<1>4. ASSUME NEW w \in Workers, InitializePhysics(w) PROVE InUse' => Initialized'
  BY <1>4 DEF InitializePhysics, CommonStep, Go, Upload
<1>5. ASSUME NEW w \in Workers, InitializeBField(w) PROVE InUse' => Initialized'
  BY <1>5 DEF InitializeBField, CommonStep, Go, Upload, UploadBField
<1>6. ASSUME NEW w \in Workers, InitializeVolAuxArray(w) PROVE InUse' => Initialized'
  BY <1>6 DEF InitializeVolAuxArray, CommonStep, Go, Upload
<1>7. ASSUME NEW w \in Workers, AllocateTrackBuffer(w) PROVE InUse' => Initialized'
  BY <1>7 DEF AllocateTrackBuffer, EngineStep, Go
<1>8. ASSUME NEW w \in Workers, InitializeGPU(w) PROVE InUse' => Initialized'
  BY <1>8 DEF InitializeGPU, EngineStep, Go
<1>9. ASSUME NEW w \in Workers, LaunchGPUWorker(w) PROVE InUse' => Initialized'
  BY <1>9 DEF LaunchGPUWorker, EngineStep, Go
<1>10. ASSUME NEW w \in Workers, InitializeFails(w) PROVE InUse' => Initialized'
  BY <1>10 DEF InitializeFails, Go
<1>11. ASSUME NEW w \in Workers, EndCommonInit(w) PROVE InUse' => Initialized'
  BY <1>11 DEF EndCommonInit, Go, CommonInitDone
<1>12. ASSUME NEW w \in Workers, WaitForCommonInit(w) PROVE InUse' => Initialized'
  BY <1>12 DEF WaitForCommonInit, Go
<1>13. ASSUME NEW w \in Workers, InitializeEngine(w) PROVE InUse' => Initialized'
  BY <1>13 DEF InitializeEngine, Go, NewInstance
<1>14. ASSUME NEW w \in Workers, RunEnds(w) PROVE InUse' => Initialized'
  BY <1>14 DEF RunEnds, Go
<1>15. ASSUME NEW w \in Workers, Cleanup(w) PROVE InUse' => Initialized'
  BY <1>15 DEF Cleanup, Go
<1>16. ASSUME NEW w \in Workers, FreeGPU(w) PROVE InUse' => Initialized'
  BY <1>16 DEF FreeGPU, Go
<1>17. ASSUME NEW w \in Workers, FreeG4HepEm(w) PROVE InUse' => Initialized'
  BY <1>17 DEF FreeG4HepEm, Go, Free
<1>18. ASSUME NEW w \in Workers, FreeBField(w) PROVE InUse' => Initialized'
  BY <1>18 DEF FreeBField, Go
<1>19. ASSUME NEW w \in Workers, ResetState(w) PROVE InUse' => Initialized'
  BY <1>19 DEF ResetState, Go
<1>20. ASSUME NEW w \in Workers, FreeVolAuxArray(w) PROVE InUse' => Initialized'
  BY <1>20 DEF FreeVolAuxArray, Go, Free
<1>21. ASSUME NEW w \in Workers, FreeScoring(w) PROVE InUse' => Initialized'
  BY <1>21 DEF FreeScoring, Go
<1>22. CASE StopTransport
  BY <1>22 DEF StopTransport, Exit
<1>23. CASE TransportEnds
  BY <1>23 DEF TransportEnds
<1>24. CASE FreeVolAux
  BY <1>24 DEF FreeVolAux, Exit, Free, Join
<1>25. CASE ResetEngine
  BY <1>25 DEF ResetEngine, Exit
<1>26. CASE FreeSharedG4HepEm
  BY <1>26 DEF FreeSharedG4HepEm, Exit, Free
<1>27. CASE FreeSharedBField
  BY <1>27 DEF FreeSharedBField, Exit
<1>28. CASE UNCHANGED vars
  BY <1>28 DEF vars
<1> QED
  BY <1>1, <1>2, <1>3, <1>4, <1>5, <1>6, <1>7, <1>8, <1>9, <1>10, <1>11, <1>12, <1>13, <1>14,
     <1>15, <1>16, <1>17, <1>18, <1>19, <1>20, <1>21, <1>22, <1>23, <1>24, <1>25, <1>26, <1>27,
     <1>28 DEF Next, Step, Exiting

-----------------------------------------------------------------------------
(* What the clean-up has freed, in the asynchronous build ...              *)
SharedCleanUp ==
  /\ ASYNC_MODE /\ exitpc \in {"none", "join", "engine", "hepem"} /\ initStep >= 2 =>
       data["hepem"] = "live"
  /\ exitpc \notin {"none", "join"} => data["volAux"] # "live"
  /\ exitpc \in {"hepem", "field", "over"} => engine["shared"] = "freed"
  /\ exitpc \in {"field", "over"} => data["hepem"] # "live"
  /\ exitpc = "over" => data["field"] # "live"
  /\ ASYNC_MODE => failure # "free" /\ \A w \in Workers : engine[w] = "none"

(* ... by each worker of the synchronous build, as long as nothing fails ...*)
WorkerCleanUp ==
  ~ASYNC_MODE /\ failure = "none" => \A w \in workers :
    /\ wpc[w] \in {"FreeBField", "reset", "FreeVolAuxArray", "FreeScoring", "ended"} =>
         data["hepem"] # "live"
    /\ wpc[w] \in {"reset", "FreeVolAuxArray", "FreeScoring", "ended"} => data["field"] # "live"
    /\ wpc[w] \in {"FreeScoring", "ended"} => data["volAux"] # "live"
    /\ wpc[w] = "ended" => engine[w] = "freed"

(* ... and what a worker of its own finds when it gets to it.              *)
AloneCleanUp ==
  \A u \in Workers : workers = {u} /\ ~ASYNC_MODE =>
    /\ failure # "free"
    /\ initStep >= 2 /\ wpc[u] \notin {"FreeVolAuxArray", "FreeScoring", "ended"} =>
         fg4hepem_state
    /\ wpc[u] \in {"FreeGPU", "FreeG4HepEm"} => argument[u]
    /\ wpc[u] \in {"done", "FreeGPU", "FreeG4HepEm"} => data["hepem"] = "live"
    /\ wpc[u] \in {"done", "FreeGPU", "FreeG4HepEm", "FreeBField", "reset", "FreeVolAuxArray"} =>
         data["volAux"] = "live"

CleanUpInv == SharedCleanUp /\ WorkerCleanUp /\ AloneCleanUp

(* Nothing has been freed at the start.                                    *)
LEMMA InitCleanUp == Init => CleanUpInv
BY DEF Init, CleanUpInv, SharedCleanUp, WorkerCleanUp, AloneCleanUp, Engines

(* At the end of the asynchronous program each static is gone after the    *)
(* step that frees it, and HepEm's data until then are live.               *)
LEMMA SharedCleanUpStep == IInv /\ CleanUpInv /\ [Next]_vars => SharedCleanUp'
<1> SUFFICES ASSUME IInv, CleanUpInv, [Next]_vars PROVE SharedCleanUp'
  OBVIOUS
<1> USE WorkersAssumption DEF IInv, Types, TypeOK, Data, Engines, program, startVars, threadVars, Started, AllSteps, Exits, OwnEngine, Freeing, RunIsOver, InUse, Initialized, CleanUpInv, SharedCleanUp
<1>1. ASSUME NEW w \in Workers, ConstructProcess(w) PROVE SharedCleanUp'
  BY <1>1 DEF ConstructProcess, Go
<1>2. ASSUME NEW w \in Workers, CallOnce(w) PROVE SharedCleanUp'
  BY <1>2 DEF CallOnce, Go
<1>3. ASSUME NEW w \in Workers, InitializeGeometry(w) PROVE SharedCleanUp'
  BY <1>3 DEF InitializeGeometry, CommonStep, Go, Upload, LoadGeometry
<1>4. ASSUME NEW w \in Workers, InitializePhysics(w) PROVE SharedCleanUp'
  BY <1>4 DEF InitializePhysics, CommonStep, Go, Upload
<1>5. ASSUME NEW w \in Workers, InitializeBField(w) PROVE SharedCleanUp'
  BY <1>5 DEF InitializeBField, CommonStep, Go, Upload, UploadBField
<1>6. ASSUME NEW w \in Workers, InitializeVolAuxArray(w) PROVE SharedCleanUp'
  BY <1>6 DEF InitializeVolAuxArray, CommonStep, Go, Upload
<1>7. ASSUME NEW w \in Workers, AllocateTrackBuffer(w) PROVE SharedCleanUp'
  BY <1>7 DEF AllocateTrackBuffer, EngineStep, Go
<1>8. ASSUME NEW w \in Workers, InitializeGPU(w) PROVE SharedCleanUp'
  BY <1>8 DEF InitializeGPU, EngineStep, Go
<1>9. ASSUME NEW w \in Workers, LaunchGPUWorker(w) PROVE SharedCleanUp'
  BY <1>9 DEF LaunchGPUWorker, EngineStep, Go
<1>10. ASSUME NEW w \in Workers, InitializeFails(w) PROVE SharedCleanUp'
  BY <1>10 DEF InitializeFails, Go
<1>11. ASSUME NEW w \in Workers, EndCommonInit(w) PROVE SharedCleanUp'
  BY <1>11 DEF EndCommonInit, Go, CommonInitDone
<1>12. ASSUME NEW w \in Workers, WaitForCommonInit(w) PROVE SharedCleanUp'
  BY <1>12 DEF WaitForCommonInit, Go
<1>13. ASSUME NEW w \in Workers, InitializeEngine(w) PROVE SharedCleanUp'
  BY <1>13 DEF InitializeEngine, Go, NewInstance
<1>14. ASSUME NEW w \in Workers, RunEnds(w) PROVE SharedCleanUp'
  BY <1>14 DEF RunEnds, Go
<1>15. ASSUME NEW w \in Workers, Cleanup(w) PROVE SharedCleanUp'
  BY <1>15 DEF Cleanup, Go
<1>16. ASSUME NEW w \in Workers, FreeGPU(w) PROVE SharedCleanUp'
  BY <1>16 DEF FreeGPU, Go
<1>17. ASSUME NEW w \in Workers, FreeG4HepEm(w) PROVE SharedCleanUp'
  BY <1>17 DEF FreeG4HepEm, Go, Free
<1>18. ASSUME NEW w \in Workers, FreeBField(w) PROVE SharedCleanUp'
  BY <1>18 DEF FreeBField, Go
<1>19. ASSUME NEW w \in Workers, ResetState(w) PROVE SharedCleanUp'
  BY <1>19 DEF ResetState, Go
<1>20. ASSUME NEW w \in Workers, FreeVolAuxArray(w) PROVE SharedCleanUp'
  BY <1>20 DEF FreeVolAuxArray, Go, Free
<1>21. ASSUME NEW w \in Workers, FreeScoring(w) PROVE SharedCleanUp'
  BY <1>21 DEF FreeScoring, Go
<1>22. CASE StopTransport
  BY <1>22 DEF StopTransport, Exit
<1>23. CASE TransportEnds
  BY <1>23 DEF TransportEnds
<1>24. CASE FreeVolAux
  BY <1>24 DEF FreeVolAux, Exit, Free, Join
<1>25. CASE ResetEngine
  BY <1>25 DEF ResetEngine, Exit
<1>26. CASE FreeSharedG4HepEm
  BY <1>26 DEF FreeSharedG4HepEm, Exit, Free
<1>27. CASE FreeSharedBField
  BY <1>27 DEF FreeSharedBField, Exit
<1>28. CASE UNCHANGED vars
  BY <1>28 DEF vars
<1> QED
  BY <1>1, <1>2, <1>3, <1>4, <1>5, <1>6, <1>7, <1>8, <1>9, <1>10, <1>11, <1>12, <1>13, <1>14,
     <1>15, <1>16, <1>17, <1>18, <1>19, <1>20, <1>21, <1>22, <1>23, <1>24, <1>25, <1>26, <1>27,
     <1>28 DEF Next, Step, Exiting

(* As long as nothing fails, what a synchronous worker has passed is freed. *)
LEMMA WorkerCleanUpStep == IInv /\ CleanUpInv /\ [Next]_vars => WorkerCleanUp'
<1> SUFFICES ASSUME IInv, CleanUpInv, [Next]_vars PROVE WorkerCleanUp'
  OBVIOUS
<1> USE WorkersAssumption DEF IInv, Types, TypeOK, Data, Engines, program, startVars, threadVars, Started, AllSteps, Exits, OwnEngine, Freeing, RunIsOver, InUse, Initialized, CleanUpInv, WorkerCleanUp
<1>1. ASSUME NEW w \in Workers, ConstructProcess(w) PROVE WorkerCleanUp'
  BY <1>1 DEF ConstructProcess, Go
<1>2. ASSUME NEW w \in Workers, CallOnce(w) PROVE WorkerCleanUp'
  BY <1>2 DEF CallOnce, Go
<1>3. ASSUME NEW w \in Workers, InitializeGeometry(w) PROVE WorkerCleanUp'
  BY <1>3 DEF InitializeGeometry, CommonStep, Go, Upload, LoadGeometry
<1>4. ASSUME NEW w \in Workers, InitializePhysics(w) PROVE WorkerCleanUp'
  BY <1>4 DEF InitializePhysics, CommonStep, Go, Upload
<1>5. ASSUME NEW w \in Workers, InitializeBField(w) PROVE WorkerCleanUp'
  BY <1>5 DEF InitializeBField, CommonStep, Go, Upload, UploadBField
<1>6. ASSUME NEW w \in Workers, InitializeVolAuxArray(w) PROVE WorkerCleanUp'
  BY <1>6 DEF InitializeVolAuxArray, CommonStep, Go, Upload
<1>7. ASSUME NEW w \in Workers, AllocateTrackBuffer(w) PROVE WorkerCleanUp'
  BY <1>7 DEF AllocateTrackBuffer, EngineStep, Go
<1>8. ASSUME NEW w \in Workers, InitializeGPU(w) PROVE WorkerCleanUp'
  BY <1>8 DEF InitializeGPU, EngineStep, Go
<1>9. ASSUME NEW w \in Workers, LaunchGPUWorker(w) PROVE WorkerCleanUp'
  BY <1>9 DEF LaunchGPUWorker, EngineStep, Go
<1>10. ASSUME NEW w \in Workers, InitializeFails(w) PROVE WorkerCleanUp'
  BY <1>10 DEF InitializeFails, Go
<1>11. ASSUME NEW w \in Workers, EndCommonInit(w) PROVE WorkerCleanUp'
  BY <1>11 DEF EndCommonInit, Go, CommonInitDone
<1>12. ASSUME NEW w \in Workers, WaitForCommonInit(w) PROVE WorkerCleanUp'
  BY <1>12 DEF WaitForCommonInit, Go
<1>13. ASSUME NEW w \in Workers, InitializeEngine(w) PROVE WorkerCleanUp'
  BY <1>13 DEF InitializeEngine, Go, NewInstance
<1>14. ASSUME NEW w \in Workers, RunEnds(w) PROVE WorkerCleanUp'
  BY <1>14 DEF RunEnds, Go
<1>15. ASSUME NEW w \in Workers, Cleanup(w) PROVE WorkerCleanUp'
  BY <1>15 DEF Cleanup, Go
<1>16. ASSUME NEW w \in Workers, FreeGPU(w) PROVE WorkerCleanUp'
  BY <1>16 DEF FreeGPU, Go
<1>17. ASSUME NEW w \in Workers, FreeG4HepEm(w) PROVE WorkerCleanUp'
  BY <1>17 DEF FreeG4HepEm, Go, Free
<1>18. ASSUME NEW w \in Workers, FreeBField(w) PROVE WorkerCleanUp'
  BY <1>18 DEF FreeBField, Go
<1>19. ASSUME NEW w \in Workers, ResetState(w) PROVE WorkerCleanUp'
  BY <1>19 DEF ResetState, Go
<1>20. ASSUME NEW w \in Workers, FreeVolAuxArray(w) PROVE WorkerCleanUp'
  BY <1>20 DEF FreeVolAuxArray, Go, Free
<1>21. ASSUME NEW w \in Workers, FreeScoring(w) PROVE WorkerCleanUp'
  BY <1>21 DEF FreeScoring, Go
<1>22. CASE StopTransport
  BY <1>22 DEF StopTransport, Exit
<1>23. CASE TransportEnds
  BY <1>23 DEF TransportEnds
<1>24. CASE FreeVolAux
  BY <1>24 DEF FreeVolAux, Exit, Free, Join
<1>25. CASE ResetEngine
  BY <1>25 DEF ResetEngine, Exit
<1>26. CASE FreeSharedG4HepEm
  BY <1>26 DEF FreeSharedG4HepEm, Exit, Free
<1>27. CASE FreeSharedBField
  BY <1>27 DEF FreeSharedBField, Exit
<1>28. CASE UNCHANGED vars
  BY <1>28 DEF vars
<1> QED
  BY <1>1, <1>2, <1>3, <1>4, <1>5, <1>6, <1>7, <1>8, <1>9, <1>10, <1>11, <1>12, <1>13, <1>14,
     <1>15, <1>16, <1>17, <1>18, <1>19, <1>20, <1>21, <1>22, <1>23, <1>24, <1>25, <1>26, <1>27,
     <1>28 DEF Next, Step, Exiting

(* A worker that is alone finds in each step of its clean-up what is to be *)
(* freed.                                                                  *)
LEMMA AloneCleanUpStep == IInv /\ CleanUpInv /\ [Next]_vars => AloneCleanUp'
<1> SUFFICES ASSUME IInv, CleanUpInv, [Next]_vars PROVE AloneCleanUp'
  OBVIOUS
<1> USE WorkersAssumption DEF IInv, Types, TypeOK, Data, Engines, program, startVars, threadVars, Started, AllSteps, Exits, OwnEngine, Freeing, RunIsOver, InUse, Initialized, CleanUpInv, AloneCleanUp
<1>1. ASSUME NEW w \in Workers, ConstructProcess(w) PROVE AloneCleanUp'
  BY <1>1 DEF ConstructProcess, Go
<1>2. ASSUME NEW w \in Workers, CallOnce(w) PROVE AloneCleanUp'
  BY <1>2 DEF CallOnce, Go
<1>3. ASSUME NEW w \in Workers, InitializeGeometry(w) PROVE AloneCleanUp'
  BY <1>3 DEF InitializeGeometry, CommonStep, Go, Upload, LoadGeometry
<1>4. ASSUME NEW w \in Workers, InitializePhysics(w) PROVE AloneCleanUp'
  BY <1>4 DEF InitializePhysics, CommonStep, Go, Upload
<1>5. ASSUME NEW w \in Workers, InitializeBField(w) PROVE AloneCleanUp'
  BY <1>5 DEF InitializeBField, CommonStep, Go, Upload, UploadBField
<1>6. ASSUME NEW w \in Workers, InitializeVolAuxArray(w) PROVE AloneCleanUp'
  BY <1>6 DEF InitializeVolAuxArray, CommonStep, Go, Upload
<1>7. ASSUME NEW w \in Workers, AllocateTrackBuffer(w) PROVE AloneCleanUp'
  BY <1>7 DEF AllocateTrackBuffer, EngineStep, Go
<1>8. ASSUME NEW w \in Workers, InitializeGPU(w) PROVE AloneCleanUp'
  BY <1>8 DEF InitializeGPU, EngineStep, Go
<1>9. ASSUME NEW w \in Workers, LaunchGPUWorker(w) PROVE AloneCleanUp'
  BY <1>9 DEF LaunchGPUWorker, EngineStep, Go
<1>10. ASSUME NEW w \in Workers, InitializeFails(w) PROVE AloneCleanUp'
  BY <1>10 DEF InitializeFails, Go
<1>11. ASSUME NEW w \in Workers, EndCommonInit(w) PROVE AloneCleanUp'
  BY <1>11 DEF EndCommonInit, Go, CommonInitDone
<1>12. ASSUME NEW w \in Workers, WaitForCommonInit(w) PROVE AloneCleanUp'
  BY <1>12 DEF WaitForCommonInit, Go
<1>13. ASSUME NEW w \in Workers, InitializeEngine(w) PROVE AloneCleanUp'
  BY <1>13 DEF InitializeEngine, Go, NewInstance
<1>14. ASSUME NEW w \in Workers, RunEnds(w) PROVE AloneCleanUp'
  BY <1>14 DEF RunEnds, Go
<1>15. ASSUME NEW w \in Workers, Cleanup(w) PROVE AloneCleanUp'
  BY <1>15 DEF Cleanup, Go
<1>16. ASSUME NEW w \in Workers, FreeGPU(w) PROVE AloneCleanUp'
  BY <1>16 DEF FreeGPU, Go
<1>17. ASSUME NEW w \in Workers, FreeG4HepEm(w) PROVE AloneCleanUp'
  BY <1>17 DEF FreeG4HepEm, Go, Free
<1>18. ASSUME NEW w \in Workers, FreeBField(w) PROVE AloneCleanUp'
  BY <1>18 DEF FreeBField, Go
<1>19. ASSUME NEW w \in Workers, ResetState(w) PROVE AloneCleanUp'
  BY <1>19 DEF ResetState, Go
<1>20. ASSUME NEW w \in Workers, FreeVolAuxArray(w) PROVE AloneCleanUp'
  BY <1>20 DEF FreeVolAuxArray, Go, Free
<1>21. ASSUME NEW w \in Workers, FreeScoring(w) PROVE AloneCleanUp'
  BY <1>21 DEF FreeScoring, Go
<1>22. CASE StopTransport
  BY <1>22 DEF StopTransport, Exit
<1>23. CASE TransportEnds
  BY <1>23 DEF TransportEnds
<1>24. CASE FreeVolAux
  BY <1>24 DEF FreeVolAux, Exit, Free, Join
<1>25. CASE ResetEngine
  BY <1>25 DEF ResetEngine, Exit
<1>26. CASE FreeSharedG4HepEm
  BY <1>26 DEF FreeSharedG4HepEm, Exit, Free
<1>27. CASE FreeSharedBField
  BY <1>27 DEF FreeSharedBField, Exit
<1>28. CASE UNCHANGED vars
  BY <1>28 DEF vars
<1> QED
  BY <1>1, <1>2, <1>3, <1>4, <1>5, <1>6, <1>7, <1>8, <1>9, <1>10, <1>11, <1>12, <1>13, <1>14,
     <1>15, <1>16, <1>17, <1>18, <1>19, <1>20, <1>21, <1>22, <1>23, <1>24, <1>25, <1>26, <1>27,
     <1>28 DEF Next, Step, Exiting

-----------------------------------------------------------------------------
(* The invariant holds in every reachable state.                           *)
THEOREM InvariantHolds == (Init /\ [][Next]_vars) => [](IInv /\ CleanUpInv)
<1>1. IInv /\ CleanUpInv /\ [Next]_vars => (IInv /\ CleanUpInv)'
  BY TypesStep, StartedStep, OwnEngineStep, ExitsStep, InitializedStep, SharedCleanUpStep,
     WorkerCleanUpStep, AloneCleanUpStep DEF IInv, CleanUpInv
<1> QED BY InitInvariant, InitCleanUp, <1>1, PTL

(* Hits change nothing of that.                                            *)
LEMMA SpecsTakeThoseSteps ==
  /\ Spec => (Init /\ [][Next]_vars)
  /\ ObjectSpec => (Init /\ [][Next]_vars)
<1>1. [ObjectNext]_objectVars => [Next]_vars
  <2>1. ASSUME NEW w \in Workers, ProcessGPUStep(w) PROVE UNCHANGED vars
    BY <2>1, Zenon DEF ProcessGPUStep
  <2>2. UNCHANGED objectVars => UNCHANGED vars
    BY DEF objectVars
  <2> QED BY <2>1, <2>2 DEF ObjectNext
<1>2. ObjectInit => Init
  BY DEF ObjectInit
<1>3. Spec => (Init /\ [][Next]_vars)
  BY PTL DEF Spec
<1>4. ObjectSpec => (Init /\ [][Next]_vars)
  BY <1>1, <1>2, PTL DEF ObjectSpec
<1> QED BY <1>3, <1>4

(* Whoever transports has what it transports with.                         *)
LEMMA UsersHaveTheirData == IInv => DataOutlivesItsUsers
<1> SUFFICES ASSUME IInv PROVE DataOutlivesItsUsers
  OBVIOUS
<1> USE DEF IInv, Types, TypeOK
<1>1. initStep = AllSteps /\ InUse => AllDataLive /\ (ASYNC_MODE => engine["shared"] = "live")
  BY DEF AllSteps, Initialized, AllDataLive, Data
<1>2. gpuThread = "running" => ASYNC_MODE /\ initStep = AllSteps /\ InUse
  BY DEF Exits, InUse, AllSteps
<1>3. ASSUME NEW w \in workers, wpc[w] = "running"
      PROVE  initStep = AllSteps /\ InUse /\ (ASYNC_MODE \/ engine[w] = "live")
  BY <1>3 DEF Started, Exits, OwnEngine, InUse, RunIsOver
<1> QED BY <1>1, <1>2, <1>3 DEF DataOutlivesItsUsers

(* In both builds, for any number of workers and whoever initialises what  *)
(* they share, nobody transports without it, or after it is gone.          *)
THEOREM DataOutlivesItsUsersHolds ==
  (Spec => []DataOutlivesItsUsers) /\ (ObjectSpec => []DataOutlivesItsUsers)
BY InvariantHolds, SpecsTakeThoseSteps, UsersHaveTheirData, PTL

(* Everything is freed, once, except by two workers of the synchronous     *)
(* build.                                                                  *)
LEMMA EverythingIsFreed == IInv /\ CleanUpInv => CleanUpFreesOnce
<1> SUFFICES ASSUME IInv, CleanUpInv PROVE CleanUpFreesOnce
  OBVIOUS
<1> USE DEF IInv, CleanUpInv, Types, TypeOK
<1>1. ASSUME failure = "free" PROVE ~ASYNC_MODE /\ Cardinality(workers) > 1
  <2>1. ~ASYNC_MODE /\ ~\E u : workers = {u}
    BY <1>1 DEF SharedCleanUp, AloneCleanUp
  <2>2. IsFiniteSet(workers) /\ Cardinality(workers) \in Nat
    BY WorkersAssumption, FS_Subset, FS_CardinalityType
  <2>3. Cardinality(workers) # 0 /\ Cardinality(workers) # 1
    BY <2>1, <2>2, FS_EmptySet, FS_Singleton
  <2> QED BY <2>1, <2>2, <2>3
<1>2. ASSUME failure = "none", exitpc = "over" \/ ~ASYNC_MODE, \A w \in workers : wpc[w] = "ended"
      PROVE  /\ \A d \in Data \ {"geometry"} : data[d] # "live"
             /\ \A e \in Engines : engine[e] \in {"none", "freed"}
  <2>1. CASE ASYNC_MODE
    BY <1>2, <2>1 DEF SharedCleanUp, Data, Engines
  <2>2. CASE ~ASYNC_MODE
    <3>1. PICK w \in workers : TRUE
      OBVIOUS
    <3>2. \A d \in Data \ {"geometry"} : data[d] # "live"
      BY <1>2, <2>2, <3>1 DEF WorkerCleanUp, Data
    <3>3. \A e \in Engines : engine[e] \in {"none", "freed"}
      BY <1>2, <2>2 DEF WorkerCleanUp, Exits, Engines
    <3> QED BY <3>2, <3>3
  <2> QED BY <2>1, <2>2
<1> QED BY <1>1, <1>2 DEF CleanUpFreesOnce

(* For any number of workers: the clean-up frees all that was allocated,   *)
(* and what it frees twice it does for two synchronous workers only.       *)
THEOREM CleanUpFreesOnceHolds ==
  (Spec => []CleanUpFreesOnce) /\ (ObjectSpec => []CleanUpFreesOnce)
BY InvariantHolds, SpecsTakeThoseSteps, EverythingIsFreed, PTL

-----------------------------------------------------------------------------
(* The touchables.  The beginning of a path, level by level.               *)
LEMMA Beginnings ==
  ASSUME NEW S, NEW s \in Seq(S), NEW n \in 0 .. Len(s)
  PROVE  /\ SubSeq(s, 1, n) \in Seq(S) /\ Len(SubSeq(s, 1, n)) = n
         /\ SubSeq(s, 1, n) = [i \in 1 .. n |-> s[i]]
         /\ \A i \in 1 .. n : SubSeq(s, 1, n)[i] = s[i]
         /\ n < Len(s) => Append(SubSeq(s, 1, n), s[n + 1]) = SubSeq(s, 1, n + 1)
         /\ SubSeq(s, 1, Len(s)) = s
<1>1. /\ SubSeq(s, 1, n) \in Seq(S) /\ Len(SubSeq(s, 1, n)) = n
      /\ \A i \in 1 .. n : SubSeq(s, 1, n)[i] = s[i]
  BY SubSeqProperties
<1>2. SubSeq(s, 1, n) = [i \in 1 .. n |-> s[i]]
  BY <1>1
<1>3. ASSUME n < Len(s) PROVE Append(SubSeq(s, 1, n), s[n + 1]) = SubSeq(s, 1, n + 1)
  BY <1>3
<1>4. SubSeq(s, 1, Len(s)) = s
  BY SubSeqFull
<1> QED BY <1>1, <1>2, <1>3, <1>4
(* One turn of the loop, case by case.                                     *)
LEMMA TurnAtTheTop ==
  ASSUME NEW g, NEW v
  PROVE  FillLevel([history |-> g, depth |-> 0], 0, v) = [history |-> [g EXCEPT ![1] = v], depth |-> 0]
<1>1. [[history |-> g, depth |-> 0] EXCEPT !.history = [g EXCEPT ![1] = v]]
        = [history |-> [g EXCEPT ![1] = v], depth |-> 0]
  OBVIOUS
<1> QED BY <1>1 DEF FillLevel, SetFirstEntry

LEMMA TurnBelow ==
  ASSUME NEW g, NEW e \in Int, NEW l \in Nat, NEW v, e = 0 \/ l > e, l # 0
  PROVE  FillLevel([history |-> g, depth |-> e], l, v) = [history |-> Append(g, v), depth |-> e + 1]
<1>1. ~(e # 0 /\ l <= e)
  OBVIOUS
<1> QED BY <1>1 DEF FillLevel, NewLevel

LEMMA TurnOverTheSame ==
  ASSUME NEW g, NEW e \in Int, NEW l \in Nat, NEW v, e # 0, l <= e, g[l + 1] = v
  PROVE  FillLevel([history |-> g, depth |-> e], l, v) = [history |-> g, depth |-> e]
BY DEF FillLevel, GetVolume

LEMMA TurnBackToTheTop ==
  ASSUME NEW g, NEW e \in Int, NEW v, e # 0, 0 <= e, g[1] # v
  PROVE  FillLevel([history |-> g, depth |-> e], 0, v)
           = [history |-> [BackLevel(g, e) EXCEPT ![1] = v], depth |-> 0]
BY DEF FillLevel, GetVolume, SetFirstEntry

LEMMA TurnBack ==
  ASSUME NEW g, NEW e \in Int, NEW l \in Nat, NEW v, e # 0, l <= e, g[l + 1] # v, l # 0
  PROVE  FillLevel([history |-> g, depth |-> e], l, v)
           = [history |-> Append(BackLevel(g, e - l + 1), v), depth |-> l]
BY DEF FillLevel, GetVolume, NewLevel

(* After n turns of the loop the history is the beginning of the path,     *)
(* unless it began like that: then it is untouched so far.                 *)
Filled(history, path) ==
  [n \in 0 .. Len(path) |->
     IF n <= Len(history) /\ \A i \in 1 .. n : history[i] = path[i]
       THEN [history |-> history, depth |-> GetDepth(history)]
       ELSE [history |-> SubSeq(path, 1, n), depth |-> n - 1]]

LEMMA FilledByLevels ==
  ASSUME NEW S, NEW h \in Seq(S), h # <<>>, NEW p \in Seq(S), NEW n \in 1 .. Len(p)
  PROVE  Filled(h, p)[n] = FillLevel(Filled(h, p)[n - 1], n - 1, p[n])
<1> DEFINE d == Len(h) - 1
           like(m) == m <= Len(h) /\ \A i \in 1 .. m : h[i] = p[i]
<1>1. /\ Len(h) \in Nat \ {0} /\ Len(p) \in Nat /\ d \in Nat /\ n \in Nat \ {0} /\ n <= Len(p)
      /\ n - 1 \in 0 .. Len(p) /\ n \in 0 .. Len(p)
  OBVIOUS
<1>2. \A m \in 0 .. Len(p) :
        Filled(h, p)[m] = IF like(m) THEN [history |-> h, depth |-> d]
                          ELSE [history |-> SubSeq(p, 1, m), depth |-> m - 1]
  BY DEF Filled, GetDepth
<1>3. /\ SubSeq(p, 1, n - 1) \in Seq(S) /\ Len(SubSeq(p, 1, n - 1)) = n - 1
      /\ Append(SubSeq(p, 1, n - 1), p[n]) = SubSeq(p, 1, n)
      /\ SubSeq(p, 1, n - 1) = [i \in 1 .. n - 1 |-> p[i]]
  <2>1. n - 1 < Len(p) /\ n - 1 + 1 = n
    BY <1>1
  <2> QED BY <1>1, <2>1, Beginnings
<1>4. CASE ~like(n - 1)
  <2>1. ~like(n) /\ n # 1
    BY <1>1, <1>4
  <2>2. /\ Filled(h, p)[n] = [history |-> SubSeq(p, 1, n), depth |-> n - 1]
        /\ Filled(h, p)[n - 1] = [history |-> SubSeq(p, 1, n - 1), depth |-> n - 2]
    <3>1. Filled(h, p)[n - 1] = [history |-> SubSeq(p, 1, n - 1), depth |-> (n - 1) - 1]
      BY <1>1, <1>2, <1>4
    <3>2. (n - 1) - 1 = n - 2
      BY <1>1
    <3> QED BY <1>1, <1>2, <2>1, <3>1, <3>2
  <2>3. ~(n - 1 <= n - 2) /\ n - 1 # 0 /\ n - 2 + 1 = n - 1
    BY <1>1, <2>1
  <2>4. n - 2 \in Int /\ n - 1 \in Nat /\ n - 1 > n - 2
    BY <1>1
  <2>5. FillLevel(Filled(h, p)[n - 1], n - 1, p[n])
          = [history |-> Append(SubSeq(p, 1, n - 1), p[n]), depth |-> n - 2 + 1]
    BY <2>2, <2>3, <2>4, TurnBelow
  <2> QED BY <1>3, <2>2, <2>3, <2>5
<1>5. CASE like(n - 1) /\ ~(d # 0 /\ n - 1 <= d)
  <2>1. Filled(h, p)[n - 1] = [history |-> h, depth |-> d]
    BY <1>1, <1>2, <1>5
  <2>2. CASE n = 1
    <3>1. d = 0 /\ Len(h) = 1
      BY <1>1, <1>5, <2>2
    <3>2. FillLevel(Filled(h, p)[n - 1], n - 1, p[n]) = [history |-> [h EXCEPT ![1] = p[1]], depth |-> 0]
      <4>1. n - 1 = 0
        BY <2>2
      <4> QED BY <2>1, <2>2, <3>1, <4>1, TurnAtTheTop
    <3>3. [h EXCEPT ![1] = p[1]] = SubSeq(p, 1, 1)
      <4>1. h = [i \in 1 .. 1 |-> h[i]]
        BY <3>1
      <4>2. SubSeq(p, 1, 1) = [i \in 1 .. 1 |-> p[i]]
        BY <1>1, <2>2, Beginnings
      <4> QED BY <4>1, <4>2
    <3>4. like(1) => h = SubSeq(p, 1, 1)
      <4>1. h = [i \in 1 .. 1 |-> h[i]]
        BY <3>1
      <4>2. SubSeq(p, 1, 1) = [i \in 1 .. 1 |-> p[i]]
        BY <1>1, <2>2, Beginnings
      <4> QED BY <4>1, <4>2
    <3>5. Filled(h, p)[n] = [history |-> SubSeq(p, 1, 1), depth |-> 0]
      BY <1>1, <1>2, <2>2, <3>1, <3>4
    <3> QED BY <3>2, <3>3, <3>5
  <2>3. CASE n # 1
    <3>1. n - 1 = Len(h) /\ ~like(n) /\ n - 1 # 0 /\ d + 1 = n - 1
      <4>1. n - 1 <= Len(h) /\ ~(d # 0 /\ n - 1 <= d)
        BY <1>5
      <4>2. \A k \in Nat \ {0}, j \in Nat \ {0, 1} :
              j - 1 <= k /\ ~(k - 1 # 0 /\ j - 1 <= k - 1) =>
                j - 1 = k /\ k - 1 + 1 = j - 1 /\ j - 1 # 0 /\ ~(j <= k)
        OBVIOUS
      <4>3. n \in Nat \ {0, 1}
        BY <1>1, <2>3
      <4> QED BY <1>1, <4>1, <4>2, <4>3
    <3>2. h = SubSeq(p, 1, n - 1)
      <4>1. h = [i \in 1 .. n - 1 |-> h[i]]
        BY <3>1
      <4> QED BY <1>3, <1>5, <4>1
    <3>3. FillLevel(Filled(h, p)[n - 1], n - 1, p[n]) = [history |-> Append(h, p[n]), depth |-> d + 1]
      <4>1. d \in Int /\ n - 1 \in Nat /\ n - 1 > d
        BY <1>1, <3>1
      <4> HIDE DEF d
      <4> QED BY <2>1, <3>1, <4>1, TurnBelow
    <3>4. Filled(h, p)[n] = [history |-> SubSeq(p, 1, n), depth |-> n - 1]
      BY <1>1, <1>2, <3>1
    <3> QED BY <1>3, <3>1, <3>2, <3>3, <3>4
  <2> QED BY <2>2, <2>3
<1>6. CASE like(n - 1) /\ d # 0 /\ n - 1 <= d
  <2>1. Filled(h, p)[n - 1] = [history |-> h, depth |-> d]
    BY <1>1, <1>2, <1>6
  <2>2. GetVolume(h, n - 1) = h[n] /\ n <= Len(h)
    BY <1>1, <1>6 DEF GetVolume
  <2>3. CASE h[n] = p[n]
    <3>1. like(n)
      BY <1>1, <1>6, <2>2, <2>3
    <3>2. Filled(h, p)[n] = [history |-> h, depth |-> d]
      BY <1>1, <1>2, <3>1
    <3>3. (n - 1) + 1 = n
      BY <1>1
    <3>4. FillLevel(Filled(h, p)[n - 1], n - 1, p[n]) = [history |-> h, depth |-> d]
      <4>1. d \in Int /\ n - 1 \in Nat
        BY <1>1
      <4> HIDE DEF d
      <4> QED BY <1>6, <2>1, <2>3, <3>3, <4>1, TurnOverTheSame
    <3> QED BY <3>2, <3>4
  <2>4. CASE h[n] # p[n]
    <3>1. ~like(n)
      BY <1>1, <2>4
    <3>2. Filled(h, p)[n] = [history |-> SubSeq(p, 1, n), depth |-> n - 1]
      BY <1>1, <1>2, <3>1
    <3>3. CASE n = 1
      <4>1. Len(h) - d = 1
        BY <1>1
      <4>2. FillLevel(Filled(h, p)[n - 1], n - 1, p[n])
              = [history |-> [SubSeq(h, 1, 1) EXCEPT ![1] = p[1]], depth |-> 0]
        <5>1. BackLevel(h, d) = SubSeq(h, 1, 1)
          BY <4>1 DEF BackLevel
        <5>2. d \in Int /\ 0 <= d /\ n - 1 = 0
          BY <1>1, <3>3
        <5> HIDE DEF d
        <5> QED BY <1>6, <2>1, <2>4, <3>3, <5>1, <5>2, TurnBackToTheTop
      <4>3. SubSeq(h, 1, 1) = [i \in 1 .. 1 |-> h[i]] /\ SubSeq(p, 1, 1) = [i \in 1 .. 1 |-> p[i]]
        <5>1. 1 \in 0 .. Len(h) /\ 1 \in 0 .. Len(p)
          BY <1>1, <3>3
        <5> QED BY <5>1, Beginnings
      <4>4. [SubSeq(h, 1, 1) EXCEPT ![1] = p[1]] = SubSeq(p, 1, 1)
        BY <4>3
      <4> QED BY <3>2, <3>3, <4>2, <4>4
    <3>4. CASE n # 1
      <4>1. Len(h) - (d - (n - 1) + 1) = n - 1 /\ n - 1 # 0
        BY <1>1, <3>4
      <4>2. FillLevel(Filled(h, p)[n - 1], n - 1, p[n])
              = [history |-> Append(SubSeq(h, 1, n - 1), p[n]), depth |-> n - 1]
        <5>1. BackLevel(h, d - (n - 1) + 1) = SubSeq(h, 1, n - 1)
          BY <4>1 DEF BackLevel
        <5>2. (n - 1) + 1 = n
          BY <1>1
        <5>3. d \in Int /\ n - 1 \in Nat
          BY <1>1
        <5> HIDE DEF d
        <5> DEFINE l == n - 1
        <5>4. l \in Nat /\ l # 0 /\ l <= d /\ d # 0 /\ h[l + 1] # p[n]
          BY <1>6, <2>4, <4>1, <5>2, <5>3
        <5> HIDE DEF l
        <5>5. FillLevel([history |-> h, depth |-> d], l, p[n])
                = [history |-> Append(BackLevel(h, d - l + 1), p[n]), depth |-> l]
          BY <5>3, <5>4, TurnBack
        <5> QED BY <2>1, <5>1, <5>5 DEF l
      <4>3. SubSeq(h, 1, n - 1) = SubSeq(p, 1, n - 1)
        <5>1. n - 1 \in 0 .. Len(h)
          BY <1>1, <2>2
        <5>2. SubSeq(h, 1, n - 1) = [i \in 1 .. n - 1 |-> h[i]]
          BY <5>1, Beginnings
        <5> QED BY <1>3, <1>6, <5>2
      <4> QED BY <1>3, <3>2, <4>2, <4>3
    <3> QED BY <3>3, <3>4
  <2> QED BY <2>3, <2>4
<1> QED BY <1>4, <1>5, <1>6
(* So the loop computes that, for any history and any path.                *)
LEMMA LevelsAreFilled ==
  ASSUME NEW S, NEW h \in Seq(S), h # <<>>, NEW p \in Seq(S)
  PROVE  FillLevels(h, p) = Filled(h, p)[Len(p)]
<1> DEFINE D == 0 .. Len(p)
           base == [history |-> h, depth |-> GetDepth(h)]
           Turns(f) == [n \in D |-> IF n = 0 THEN base ELSE FillLevel(f[n - 1], n - 1, p[n])]
           filled == CHOOSE f : f = Turns(f)
           C == Filled(h, p)
<1>1. Len(p) \in Nat /\ Len(h) \in Nat
  OBVIOUS
<1>2. C = [n \in D |-> C[n]]
  BY DEF Filled
<1>3. C[0] = base
  BY <1>1 DEF Filled
<1>4. \A n \in D \ {0} : C[n] = FillLevel(C[n - 1], n - 1, p[n])
  <2>1. D \ {0} = 1 .. Len(p)
    BY <1>1
  <2> QED BY <2>1, FilledByLevels
<1> HIDE DEF C, base
<1>5. C = Turns(C)
  BY <1>2, <1>3, <1>4
<1> HIDE DEF Turns
<1>6. filled = Turns(filled)
  BY <1>5
<1>7. FillLevels(h, p) = filled[Len(p)]
  BY DEF FillLevels, filled, Turns, base
<1> HIDE DEF filled
<1>8. /\ filled[0] = base
      /\ \A n \in D \ {0} : filled[n] = FillLevel(filled[n - 1], n - 1, p[n])
  <2>1. \A n \in D : Turns(filled)[n] = IF n = 0 THEN base ELSE FillLevel(filled[n - 1], n - 1, p[n])
    BY DEF Turns
  <2> QED BY <1>1, <1>6, <2>1
<1>9. \A n \in D : filled[n] = C[n]
  <2> DEFINE Wrong == {n \in D : filled[n] # C[n]}
  <2>1. SUFFICES ASSUME Wrong # {} PROVE FALSE
    OBVIOUS
  <2>2. Wrong \in SUBSET Nat
    BY <1>1
  <2>3. PICK m \in Wrong : \A y \in Wrong : m <= y
    <3> HIDE DEF Wrong
    <3> QED BY <2>1, <2>2, LeastNatural
  <2>4. m \in D \ {0} /\ m - 1 \in D /\ m - 1 \notin Wrong
    BY <1>1, <1>3, <1>8, <2>3
  <2>5. filled[m - 1] = C[m - 1]
    BY <2>4
  <2>6. filled[m] = C[m]
    BY <1>4, <1>8, <2>4, <2>5
  <2> QED BY <2>3, <2>6
<1> QED BY <1>1, <1>7, <1>9 DEF C

(* Whatever the history was, it is the path afterwards.                    *)
LEMMA HistoryIsPath ==
  ASSUME NEW S, NEW h \in Seq(S), h # <<>>, NEW p \in Seq(S), p # <<>>
  PROVE  FillG4NavigationHistory(h, p) = p
<1> DEFINE n == Len(p)
           like == n <= Len(h) /\ \A i \in 1 .. n : h[i] = p[i]
           filled == FillLevels(h, p)
<1>1. n \in Nat \ {0} /\ Len(h) \in Nat \ {0} /\ n \in 0 .. Len(p)
  OBVIOUS
<1>2. filled = IF like THEN [history |-> h, depth |-> GetDepth(h)]
               ELSE [history |-> SubSeq(p, 1, n), depth |-> n - 1]
  BY <1>1, LevelsAreFilled DEF Filled
<1>3. p = SubSeq(p, 1, n) /\ p = [i \in 1 .. n |-> p[i]]
  BY Beginnings
<1>4. FillG4NavigationHistory(h, p) = IF filled.depth >= n THEN BackLevel(filled.history, filled.depth - n + 1)
                                      ELSE filled.history
  BY DEF FillG4NavigationHistory
<1> HIDE DEF filled
<1>5. CASE ~like
  <2>1. filled.history = p /\ filled.depth = n - 1
    BY <1>2, <1>3, <1>5
  <2> QED BY <1>1, <1>4, <2>1
<1>6. CASE like
  <2>1. filled.history = h /\ filled.depth = Len(h) - 1
    BY <1>2, <1>6 DEF GetDepth
  <2>2. SubSeq(h, 1, n) = p
    <3>1. n \in 0 .. Len(h)
      BY <1>1, <1>6
    <3>2. SubSeq(h, 1, n) = [i \in 1 .. n |-> h[i]]
      BY <3>1, Beginnings
    <3> QED BY <1>3, <1>6, <3>2
  <2>3. CASE Len(h) - 1 >= n
    <3>1. BackLevel(h, Len(h) - 1 - n + 1) = SubSeq(h, 1, n)
      <4>1. Len(h) - (Len(h) - 1 - n + 1) = n
        BY <1>1
      <4> QED BY <4>1 DEF BackLevel
    <3> QED BY <1>4, <2>1, <2>2, <2>3, <3>1
  <2>4. CASE ~(Len(h) - 1 >= n)
    <3>1. Len(h) = n
      BY <1>1, <1>6, <2>4
    <3>2. SubSeq(h, 1, n) = h
      BY <3>1, SubSeqFull
    <3> QED BY <1>4, <2>1, <2>2, <2>4, <3>2
  <2> QED BY <2>3, <2>4
<1> QED BY <1>5, <1>6
(* What a worker keeps has the types of histories and paths, and is that   *)
(* of its last hit.                                                        *)
Histories == Seq(Volumes \cup {None}) \ {<<>>}
Objects ==
  [pre : Histories, post : Histories,
   step : [pre : Histories, post : Histories, postStepStatus : {"fUndefined", "fWorldBoundary"}],
   hit : [pre : Seq(Volumes), post : Seq(Volumes)]]
OfTheStep(o) ==
  o.hit.pre # Outside =>
    /\ o.step.pre = o.hit.pre
    /\ o.step.postStepStatus # "fWorldBoundary" => o.step.post = o.hit.post
ObjectsInv == objects \in [Workers -> Objects] /\ \A w \in Workers : OfTheStep(objects[w])

LEMMA NewObjectsOfNoStep == NewObjects \in Objects /\ OfTheStep(NewObjects)
<1>1. NewHistory \in Histories /\ <<>> \in Seq(Volumes)
  BY DEF NewHistory, Histories
<1> QED BY <1>1, Zenon DEF NewObjects, Objects, OfTheStep, Outside

(* One hit, whatever the worker kept from the ones before.                 *)
LEMMA HitShowsItsVolumes ==
  ASSUME NEW o \in Objects, NEW hit \in Hits, NEW pre, NEW post, NEW status,
         pre = FillG4NavigationHistory(o.pre, hit.pre),
         post = (IF hit.post = Outside THEN o.post ELSE FillG4NavigationHistory(o.post, hit.post)),
         status = (IF hit.post = Outside THEN "fWorldBoundary" ELSE "fUndefined")
  PROVE  LET n == [pre |-> pre, post |-> post,
                   hit |-> hit, step |-> FillG4Step(o.step, pre, post, status)]
         IN  n.pre \in Histories /\ n.post \in Histories /\ n.step.pre \in Histories
             /\ n.step.post \in Histories /\ n.step.pre = hit.pre
             /\ (status # "fWorldBoundary" => n.step.post = hit.post)
<1> DEFINE S == Volumes \cup {None}
<1>1. /\ hit.pre \in Seq(Volumes) /\ hit.pre # <<>> /\ hit.post \in Seq(Volumes)
      /\ None \notin Volumes
  BY HitsAssumption DEF Outside
<1>2. \A s \in Seq(Volumes) : s \in Seq(S)
  OBVIOUS
<1>3. o.pre \in Seq(S) /\ o.pre # <<>> /\ o.post \in Seq(S) /\ o.post # <<>> /\ o.step.post \in Histories
  BY DEF Objects, Histories
<1>4. pre = hit.pre /\ pre \in Histories
  <2>1. pre = hit.pre
    BY <1>1, <1>2, <1>3, HistoryIsPath
  <2> QED BY <1>1, <1>2, <2>1 DEF Histories
<1>5. post \in Histories
  <2>1. CASE hit.post = <<>>
    BY <1>3, <2>1 DEF Outside, Histories
  <2>2. CASE hit.post # <<>>
    <3>1. post = hit.post
      BY <1>1, <1>2, <1>3, <2>2, HistoryIsPath DEF Outside
    <3> QED BY <1>1, <1>2, <2>2, <3>1 DEF Histories
  <2> QED BY <2>1, <2>2
<1>6. ASSUME status # "fWorldBoundary"
      PROVE  post = hit.post /\ GetVolume(post, GetDepth(post)) # None
  <2>1. hit.post # <<>>
    BY <1>6 DEF Outside
  <2>2. post = hit.post
    BY <1>1, <1>2, <1>3, <2>1, HistoryIsPath DEF Outside
  <2>3. \A s \in Seq(Volumes) : s # <<>> => s[Len(s) - 1 + 1] \in Volumes
    OBVIOUS
  <2> QED BY <1>1, <2>1, <2>2, <2>3 DEF GetVolume, GetDepth
<1>7. FillG4Step(o.step, pre, post, status)
        = [pre |-> pre, post |-> IF GetVolume(post, GetDepth(post)) # None THEN post ELSE o.step.post,
           postStepStatus |-> status]
  BY DEF FillG4Step
<1> HIDE DEF S
<1> QED BY <1>3, <1>4, <1>5, <1>6, <1>7

LEMMA ObjectsStep == ObjectsInv /\ [ObjectNext]_objectVars => ObjectsInv'
<1> SUFFICES ASSUME ObjectsInv, [ObjectNext]_objectVars PROVE ObjectsInv'
  OBVIOUS
<1>1. CASE Next /\ ObjectsLast
  BY <1>1, NewObjectsOfNoStep DEF ObjectsLast, ObjectsInv
<1>2. CASE UNCHANGED objectVars
  BY <1>2 DEF objectVars, ObjectsInv
<1>3. ASSUME NEW w \in Workers, ProcessGPUStep(w) PROVE ObjectsInv'
  <2>1. PICK hit \in Hits :
          LET pre == FillG4NavigationHistory(objects[w].pre, hit.pre)
              post == IF hit.post = Outside THEN objects[w].post
                      ELSE FillG4NavigationHistory(objects[w].post, hit.post)
              status == IF hit.post = Outside THEN "fWorldBoundary" ELSE "fUndefined"
          IN objects' = [objects EXCEPT ![w] =
               [pre |-> pre, post |-> post, hit |-> hit,
                step |-> FillG4Step(objects[w].step, pre, post, status)]]
    BY <1>3, Zenon DEF ProcessGPUStep
  <2>2. PICK o : o = objects[w]
    OBVIOUS
  <2>3. o \in Objects
    BY <2>2 DEF ObjectsInv
  <2>4. PICK pre : pre = FillG4NavigationHistory(o.pre, hit.pre)
    OBVIOUS
  <2>5. PICK post : post = (IF hit.post = Outside THEN o.post
                            ELSE FillG4NavigationHistory(o.post, hit.post))
    OBVIOUS
  <2>6. PICK status : status = (IF hit.post = Outside THEN "fWorldBoundary" ELSE "fUndefined")
    OBVIOUS
  <2>7. PICK step : step = FillG4Step(o.step, pre, post, status)
    OBVIOUS
  <2> DEFINE n == [pre |-> pre, post |-> post, hit |-> hit, step |-> step]
  <2>8. objects' = [objects EXCEPT ![w] = n]
    BY <2>1, <2>2, <2>4, <2>5, <2>6, <2>7
  <2>9. /\ pre \in Histories /\ post \in Histories /\ step.pre \in Histories /\ step.post \in Histories
        /\ step.pre = hit.pre /\ (status # "fWorldBoundary" => step.post = hit.post)
    BY <2>3, <2>4, <2>5, <2>6, <2>7, HitShowsItsVolumes
  <2>10. step = [pre |-> step.pre, post |-> step.post, postStepStatus |-> status]
    BY <2>7 DEF FillG4Step
  <2>11. status \in {"fUndefined", "fWorldBoundary"}
    BY <2>6
  <2>12. hit \in [pre : Seq(Volumes), post : Seq(Volumes)]
    BY HitsAssumption
  <2>13. n \in Objects /\ OfTheStep(n)
    <3>1. step \in [pre : Histories, post : Histories,
                    postStepStatus : {"fUndefined", "fWorldBoundary"}]
      BY <2>9, <2>10, <2>11
    <3>2. step.postStepStatus = status
      BY <2>10
    <3> QED BY <2>9, <2>12, <3>1, <3>2 DEF Objects, OfTheStep
  <2> HIDE DEF n
  <2> QED BY <2>8, <2>13 DEF ObjectsInv
<1> QED BY <1>1, <1>2, <1>3 DEF ObjectNext

(* For any volumes, however deep, and any sequence of hits: the points of  *)
(* a step show the volumes of that step.                                   *)
THEOREM TouchablesAreOfTheStepHolds == ObjectSpec => []TouchablesAreOfTheStep
<1>1. ObjectInit => ObjectsInv
  BY NewObjectsOfNoStep DEF ObjectInit, ObjectsInv
<1>2. ObjectsInv => TouchablesAreOfTheStep
  BY DEF ObjectsInv, OfTheStep, TouchablesAreOfTheStep
<1> QED BY <1>1, <1>2, ObjectsStep, PTL DEF ObjectSpec
=============================================================================
