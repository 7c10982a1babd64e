---------------------------- MODULE ScoringObjects ----------------------------
(* What a worker keeps between the hits it hands to Geant4's sensitive     *)
(* detectors (ProcessGPUStep): the navigation histories of the pre- and    *)
(* the post-step point, which it brings from the last hit's volumes to     *)
(* this one's level by level.  Hits of any tracks follow each other; a     *)
(* path names the volumes from the world down, and a volume that is in two *)
(* mothers is the same physical volume in both.  Composed with the life of *)
(* the workers: they process hits while they run.                          *)
EXTENDS WorkerLife, Sequences

CONSTANTS
  Volumes,            (* physical volumes                                  *)
  Hits,               (* steps: paths, from the world down, of both points *)
  HitWorkers          (* bound: workers whose hits are followed            *)

None == "none"        (* no volume yet                                     *)
Outside == <<>>       (* the navigation state outside the world            *)

ASSUME HitsAssumption ==
  /\ None \notin Volumes
  /\ Hits \subseteq [pre : Seq(Volumes) \ {Outside}, post : Seq(Volumes)]

VARIABLE objects      (* worker -> its scoring objects and last hit        *)
objectVars == <<vars, objects>>

(* G4NavigationHistory: the volume of each level, the first of level 0.    *)
NewHistory == <<None>>
GetDepth(h) == Len(h) - 1
GetVolume(h, level) == h[level + 1]
BackLevel(h, n) == SubSeq(h, 1, Len(h) - n)
NewLevel(h, volume) == Append(h, volume)
SetFirstEntry(h, volume) == [h EXCEPT ![1] = volume]

(* One level of the loop; depth is the code's copy of the history's depth, *)
(* which 0 also tells that the history is new.                             *)
FillLevel(s, level, volume) ==
  IF s.depth # 0 /\ level <= s.depth
  THEN IF GetVolume(s.history, level) = volume THEN s
       ELSE [depth |-> level,
             history |-> IF level # 0
                           THEN NewLevel(BackLevel(s.history, s.depth - level + 1), volume)
                           ELSE SetFirstEntry(BackLevel(s.history, s.depth), volume)]
  ELSE IF level # 0 THEN [depth |-> s.depth + 1, history |-> NewLevel(s.history, volume)]
  ELSE [s EXCEPT !.history = SetFirstEntry(@, volume)]

(* The loop over the levels of the path; the history is what it was at     *)
(* first, its depth is read once.                                          *)
FillLevels(history, path) ==
  LET filled[n \in 0 .. Len(path)] ==
        IF n = 0 THEN [history |-> history, depth |-> GetDepth(history)]
        ELSE FillLevel(filled[n - 1], n - 1, path[n])
  IN filled[Len(path)]

FillG4NavigationHistoryMutant(history, path) == FillLevels(history, path).history

(* ... and the levels below the path go.                                   *)
FillG4NavigationHistory(history, path) ==
  LET filled == FillLevels(history, path)
  IN IF filled.depth >= Len(path)
       THEN BackLevel(filled.history, filled.depth - Len(path) + 1)
       ELSE filled.history

(* The points of the G4Step.  The step keeps the touchable of an earlier   *)
(* hit at its end if there is no volume to show; the status of a point on  *)
(* another boundary is left out.                                           *)
FillG4Step(step, pre, post, postStepStatus) ==
  [pre |-> pre, post |-> IF GetVolume(post, GetDepth(post)) # None THEN post ELSE step.post,
   postStepStatus |-> postStepStatus]

(* The first hit of a worker makes its objects.                            *)
NewObjects ==
  [pre |-> NewHistory, post |-> NewHistory,
   step |-> [pre |-> NewHistory, post |-> NewHistory, postStepStatus |-> "fUndefined"],
   hit |-> [pre |-> Outside, post |-> Outside]]

(* A step that leaves the world does not touch the post-step history.      *)
ProcessGPUStep(w) ==
  /\ w \in HitWorkers /\ wpc[w] = "running" /\ failure = "none"
  /\ \E hit \in Hits :
       LET pre == FillG4NavigationHistory(objects[w].pre, hit.pre)
           post == IF hit.post = Outside THEN objects[w].post
                   ELSE FillG4NavigationHistory(objects[w].post, hit.post)
           postStepStatus == IF hit.post = Outside THEN "fWorldBoundary" ELSE "fUndefined"
       IN objects' = [objects EXCEPT ![w] =
            [pre |-> pre, post |-> post, hit |-> hit,
             step |-> FillG4Step(@.step, pre, post, postStepStatus)]]
  /\ UNCHANGED vars

(* Nothing looks at a worker's objects after its run.                      *)
ObjectsLast ==
  objects' = [w \in Workers |-> IF wpc'[w] = "running" THEN objects[w] ELSE NewObjects]

ObjectInit == Init /\ objects = [w \in Workers |-> NewObjects]
ObjectNext == (Next /\ ObjectsLast) \/ \E w \in Workers : ProcessGPUStep(w)
ObjectSpec ==
  /\ ObjectInit /\ [][ObjectNext]_objectVars
  /\ \A w \in Workers : WF_objectVars(Step(w) /\ ObjectsLast)
  /\ WF_objectVars(TransportEnds /\ ObjectsLast) /\ WF_objectVars(Exiting /\ ObjectsLast)

-----------------------------------------------------------------------------
(* Whatever hits came before, a detector finds the volumes of this step's  *)
(* points in the G4Step: none of the last hit's is left, none is missing.  *)
(* Only of a step that leaves the world, and says so, this does not hold   *)
(* for the post-step point.                                                *)
TouchablesAreOfTheStep ==
  \A w \in Workers : LET step == objects[w].step IN
    objects[w].hit.pre # Outside =>
      /\ step.pre = objects[w].hit.pre
      /\ step.postStepStatus # "fWorldBoundary" => step.post = objects[w].hit.post
=============================================================================
