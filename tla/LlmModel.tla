------------------------------ MODULE LlmModel ------------------------------
(***************************************************************************)
(* What the on-device LLM engine promises its callers about the two flags  *)
(* it publishes, isModelLoaded() and isModelLoading(): they change only    *)
(* while some call (warm-up, self-test, mapping) is inside the engine, one *)
(* load runs at a time, and a load never starts while the model is there.  *)
(* FormViewModel uses this module as its engine; DirectLlamaEngine is      *)
(* shown to implement it.                                                  *)
(***************************************************************************)
EXTENDS Naturals

VARIABLES
  modelLoaded,    \* isModelLoaded()
  modelLoading,   \* isModelLoading()
  engineCalls     \* calls inside the engine

modelVars == <<modelLoaded, modelLoading, engineCalls>>

ModelInit ==
  /\ modelLoaded = FALSE
  /\ modelLoading = FALSE
  /\ engineCalls = 0

EnterEngine ==
  /\ engineCalls' = engineCalls + 1
  /\ UNCHANGED <<modelLoaded, modelLoading>>

(* The call that runs the load is still inside: it leaves with             *)
(* modelLoading = FALSE (the finally block of ensureModelLoaded).          *)
LeaveEngine ==
  /\ engineCalls > 0
  /\ modelLoading => engineCalls > 1
  /\ engineCalls' = engineCalls - 1
  /\ UNCHANGED <<modelLoaded, modelLoading>>

BeginLoad ==
  /\ engineCalls > 0
  /\ ~modelLoaded /\ ~modelLoading
  /\ modelLoading' = TRUE
  /\ UNCHANGED <<modelLoaded, engineCalls>>

LoadSucceeds ==
  /\ modelLoading /\ ~modelLoaded
  /\ modelLoaded' = TRUE
  /\ UNCHANGED <<modelLoading, engineCalls>>

(* After success, or when the load threw.                                  *)
EndLoad ==
  /\ modelLoading
  /\ modelLoading' = FALSE
  /\ UNCHANGED <<modelLoaded, engineCalls>>

(* Recovery after a timeout drops the model.                               *)
DropModel ==
  /\ engineCalls > 0
  /\ ~modelLoading
  /\ modelLoaded' = FALSE
  /\ UNCHANGED <<modelLoading, engineCalls>>

EngineStep == BeginLoad \/ LoadSucceeds \/ EndLoad \/ DropModel

ModelNext == EnterEngine \/ LeaveEngine \/ EngineStep

ModelSpec == ModelInit /\ [][ModelNext]_modelVars
=============================================================================
