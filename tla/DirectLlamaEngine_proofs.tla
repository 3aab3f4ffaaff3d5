---------------------- MODULE DirectLlamaEngine_proofs ----------------------
(***************************************************************************)
(* Proofs about DirectLlamaEngine for any finite set of calls.  EInv says  *)
(* who holds the mutex and the monitor, and what is true of the model, the *)
(* flags and the bridge at each place of a load and of a recovery.         *)
(***************************************************************************)
EXTENDS DirectLlamaEngine, FiniteSetTheorems, TLAPS

(* Where a call holds the mutex.                                           *)
Held == {"recheck"} \union LoadSection \union RecoverySection

Initialization == {"initialize", "initializing"}

(* The mutex is held where it should be and nowhere else.                  *)
MutexHeld ==
  \A c \in Calls :
    /\ pc[c] \in Held => mutex = c
    /\ mutex = c => pc[c] \in Held \union Initialization

(* The monitor is held during an initialisation, which nobody finishes or  *)
(* undoes behind its back.                                                 *)
MonitorHeld ==
  \A c \in Calls :
    pc[c] = "initializing" => monitor = c /\ ~initialized /\ backend

(* What the holder of the mutex knows in a load.                           *)
LoadKnows ==
  \A c \in Calls : mutex = c =>
    /\ pc[c] \in {"resolve", "load", "loading", "publish", "abort"} \union Initialization
         => ~modelLoaded
    /\ pc[c] \in {"load", "loading", "publish"} => initialized /\ backend
    /\ pc[c] = "publish" => nativeModel

(* What the holder of the mutex knows in a recovery.                       *)
RecoveryKnows ==
  \A c \in Calls :
    /\ pc[c] \in {"cancel", "unload", "shutdown", "uninitialize"} => ~modelLoaded
    /\ pc[c] \in {"shutdown", "uninitialize"} => ~nativeModel
    /\ pc[c] = "uninitialize" => initialized

(* The bridge says initialized only with the backend up, except in the     *)
(* middle of shutdown().                                                   *)
BackendUp == initialized => backend \/ \E c \in Calls : pc[c] = "uninitialize"

(* A resident model is on a running backend, and the engine knows of it    *)
(* or is about to publish or to unload it.                                 *)
ModelKnown ==
  nativeModel =>
    /\ initialized /\ backend
    /\ modelLoaded \/ \E c \in Calls : pc[c] \in {"publish", "cancel", "unload"}

EInv ==
  /\ TypeOK
  /\ MutexHeld
  /\ MonitorHeld
  /\ LoadKnows
  /\ RecoveryKnows
  /\ BackendUp
  /\ ModelKnown
  /\ LoadedIsUsable
  /\ LoadingIsReal

-----------------------------------------------------------------------------
(* Nothing is loaded, held or initialised at first.                        *)
LEMMA InitEInv == Init => EInv
  BY EngineConstants
  DEF Init, EInv, TypeOK, MutexHeld, MonitorHeld, LoadKnows, RecoveryKnows, BackendUp, ModelKnown,
      LoadedIsUsable, LoadingIsReal, Held, Initialization, LoadSection, RecoverySection, Labels

(* Every step of every call keeps the invariant.                           *)
LEMMA NextEInv == EInv /\ [Next]_vars => EInv'
<1> SUFFICES ASSUME EInv, [Next]_vars PROVE EInv'
  OBVIOUS
<1> USE EngineConstants
<1> USE DEF EInv, TypeOK, MutexHeld, MonitorHeld, LoadKnows, RecoveryKnows, BackendUp, ModelKnown,
            LoadedIsUsable, LoadingIsReal, Held, Initialization, LoadSection, RecoverySection,
            Labels, Goto, flags, bridge, native
<1>1. ASSUME NEW c \in Calls, NEW k \in {"warmup", "infer"}, Enter(c, k) PROVE EInv'
  BY <1>1 DEF Enter
<1>2. ASSUME NEW c \in Calls, Return(c) PROVE EInv'
  BY <1>2 DEF Return
<1>3. ASSUME NEW c \in Calls, Check(c) PROVE EInv'
  BY <1>3 DEF Check
<1>4. ASSUME NEW c \in Calls, Lock(c) PROVE EInv'
  BY <1>4 DEF Lock
<1>5. ASSUME NEW c \in Calls, Recheck(c) PROVE EInv'
  <2>1. CASE modelLoaded
    BY <1>5, <2>1 DEF Recheck
  <2>2. CASE ~modelLoaded
    BY <1>5, <2>2 DEF Recheck
  <2> QED
    BY <1>5, <2>1, <2>2 DEF Recheck
<1>6. ASSUME NEW c \in Calls, Resolve(c) PROVE EInv'
  BY <1>6 DEF Resolve
<1>7. ASSUME NEW c \in Calls, BeginNativeLoad(c) PROVE EInv'
  BY <1>7 DEF BeginNativeLoad
<1>8. ASSUME NEW c \in Calls, EndNativeLoad(c) PROVE EInv'
  <2>1. CASE nativeModel' = TRUE /\ cancelled' = FALSE /\ Goto(c, "publish")
    BY <1>8, <2>1 DEF EndNativeLoad
  <2>2. CASE UNCHANGED native /\ Goto(c, "abort")
    BY <1>8, <2>2 DEF EndNativeLoad
  <2> QED
    BY <1>8, <2>1, <2>2 DEF EndNativeLoad
<1>9. ASSUME NEW c \in Calls, Publish(c) PROVE EInv'
  BY <1>9 DEF Publish
<1>10. ASSUME NEW c \in Calls, Unwind(c) PROVE EInv'
  BY <1>10 DEF Unwind
<1>11. ASSUME NEW c \in Calls, CheckInitialized(c) PROVE EInv'
  <2>1. CASE initialized
    BY <1>11, <2>1 DEF CheckInitialized
  <2>2. CASE ~initialized
    BY <1>11, <2>2 DEF CheckInitialized
  <2> QED
    BY <1>11, <2>1, <2>2 DEF CheckInitialized
<1>12. ASSUME NEW c \in Calls, LibraryMissing(c) PROVE EInv'
  BY <1>12 DEF LibraryMissing
<1>13. ASSUME NEW c \in Calls, SetInitialized(c) PROVE EInv'
  BY <1>13 DEF SetInitialized
<1>14. ASSUME NEW c \in Calls, Use(c) PROVE EInv'
  BY <1>14 DEF Use
<1>15. ASSUME NEW c \in Calls, BeginInfer(c) PROVE EInv'
  <2>1. CASE nativeModel
    <3>1. TypeOK'
      BY <1>15, <2>1 DEF BeginInfer
    <3>2. MutexHeld' /\ MonitorHeld'
      BY <1>15, <2>1 DEF BeginInfer
    <3>3. LoadKnows' /\ RecoveryKnows'
      BY <1>15, <2>1 DEF BeginInfer
    <3>4. BackendUp' /\ ModelKnown' /\ LoadedIsUsable'
      BY <1>15, <2>1 DEF BeginInfer
    <3>5. LoadingIsReal'
      BY <1>15, <2>1 DEF BeginInfer
    <3> QED
      BY <3>1, <3>2, <3>3, <3>4, <3>5
  <2>2. CASE ~nativeModel
    BY <1>15, <2>2 DEF BeginInfer
  <2> QED
    BY <1>15, <2>1, <2>2 DEF BeginInfer
<1>16. ASSUME NEW c \in Calls, EndInfer(c) PROVE EInv'
  BY <1>16 DEF EndInfer
<1>17. ASSUME NEW c \in Calls, InferCancelled(c) PROVE EInv'
  BY <1>17 DEF InferCancelled
<1>18. ASSUME NEW c \in Calls, InferTimesOut(c) PROVE EInv'
  BY <1>18 DEF InferTimesOut
<1>19. ASSUME NEW c \in Calls, LockToRecover(c) PROVE EInv'
  BY <1>19 DEF LockToRecover
<1>20. ASSUME NEW c \in Calls, DropFlags(c) PROVE EInv'
  BY <1>20 DEF DropFlags
<1>21. ASSUME NEW c \in Calls, Cancel(c) PROVE EInv'
  BY <1>21 DEF Cancel
<1>22. ASSUME NEW c \in Calls, Unload(c) PROVE EInv'
  BY <1>22 DEF Unload
<1>23. ASSUME NEW c \in Calls, Shutdown(c) PROVE EInv'
  <2>1. CASE initialized
    <3>1. TypeOK'
      BY <1>23, <2>1 DEF Shutdown
    <3>2. MutexHeld' /\ MonitorHeld'
      BY <1>23, <2>1 DEF Shutdown
    <3>3. LoadKnows' /\ RecoveryKnows'
      BY <1>23, <2>1 DEF Shutdown
    <3>4. BackendUp' /\ ModelKnown' /\ LoadedIsUsable'
      BY <1>23, <2>1 DEF Shutdown
    <3>5. LoadingIsReal'
      BY <1>23, <2>1 DEF Shutdown
    <3> QED
      BY <3>1, <3>2, <3>3, <3>4, <3>5
  <2>2. CASE ~initialized
    BY <1>23, <2>2 DEF Shutdown
  <2> QED
    BY <1>23, <2>1, <2>2 DEF Shutdown
<1>24. ASSUME NEW c \in Calls, Uninitialize(c) PROVE EInv'
  BY <1>24 DEF Uninitialize
<1>25. ASSUME UNCHANGED vars PROVE EInv'
  BY <1>25 DEF vars
<1> QED
  BY <1>1, <1>2, <1>3, <1>4, <1>5, <1>6, <1>7, <1>8, <1>9, <1>10, <1>11, <1>12, <1>13, <1>14, <1>15, <1>16, <1>17, <1>18, <1>19, <1>20, <1>21, <1>22, <1>23, <1>24, <1>25
  DEF Next, Acquire, Step, Load, Infer, Recover

(* EInv holds in every reachable state.                                    *)
LEMMA EngineInvariance == Spec => []EInv
  BY InitEInv, NextEInv, PTL DEF Spec

(* The types of the engine's state.                                        *)
THEOREM EngineTypeCorrect == Spec => []TypeOK
  BY EngineInvariance, PTL DEF EInv

(* A loaded model is usable, for any number of calls: ensureModelLoaded    *)
(* publishes it last and recoverAfterFailure withdraws it first, both      *)
(* under the mutex.                                                        *)
THEOREM LoadedUsable == Spec => []LoadedIsUsable
  BY EngineInvariance, PTL DEF EInv

(* Recovery (unload, shutdown) and failed loads leave no model behind.     *)
THEOREM NoModelLeaks == Spec => []NoStrayModel
<1>1. EInv => NoStrayModel
  <2> SUFFICES ASSUME EInv, mutex = Nobody, nativeModel PROVE modelLoaded
    BY DEF NoStrayModel
  <2>1. \A c \in Calls : pc[c] \notin {"publish", "cancel", "unload"}
    BY EngineConstants DEF EInv, MutexHeld, Held, LoadSection, RecoverySection
  <2> QED
    BY <2>1 DEF EInv, ModelKnown
<1> QED
  BY <1>1, EngineInvariance, PTL

(* A resident model is on a running backend: recoverAfterFailure unloads   *)
(* before it shuts down, and a load initialises the bridge again, whoever  *)
(* passed ensureInitialized in between.                                    *)
THEOREM ModelOnBackend == Spec => []ModelHasBackend
<1>1. EInv => ModelHasBackend
  BY DEF EInv, ModelKnown, ModelHasBackend
<1> QED
  BY <1>1, EngineInvariance, PTL

(* isModelLoading() is TRUE exactly during a load.                         *)
THEOREM LoadingReal == Spec => []LoadingIsReal
  BY EngineInvariance, PTL DEF EInv

-----------------------------------------------------------------------------
(* The engine implements LlmModel.                                         *)

(* The calls inside the engine are finitely many.                          *)
LEMMA InsideFinite == IsFiniteSet(Inside) /\ Cardinality(Inside) \in Nat
<1>1. Inside \in SUBSET Calls
  BY DEF Inside
<1>2. IsFiniteSet(Inside)
  BY <1>1, FS_Subset, EngineConstants
<1> QED
  BY <1>2, FS_CardinalityType

(* A step of a call that is inside and stays inside.                       *)
LEMMA StaysInside ==
  ASSUME TypeOK, NEW c \in Calls, pc[c] # "out",
         NEW label, label # "out", Goto(c, label)
  PROVE  Inside' = Inside /\ Cardinality(Inside) > 0
<1>1. Inside' = Inside /\ c \in Inside
  BY DEF TypeOK, Goto, Inside
<1>2. Cardinality(Inside) # 0
  BY <1>1, InsideFinite, FS_EmptySet
<1> QED
  BY <1>1, <1>2, InsideFinite

(* Every step of a call is a step of LlmModel or does not touch it.        *)
LEMMA NextRefinesModel == EInv /\ [Next]_vars => [Model!ModelNext]_(Model!modelVars)
<1> SUFFICES ASSUME EInv, [Next]_vars
             PROVE  Model!ModelNext \/ UNCHANGED Model!modelVars
  OBVIOUS
<1>t. TypeOK
  BY DEF EInv
<1>1. ASSUME NEW c \in Calls, NEW k \in {"warmup", "infer"}, Enter(c, k) PROVE Model!ModelNext
  <2>1. Inside' = Inside \union {c} /\ c \notin Inside
    BY <1>1, <1>t DEF Enter, Goto, Inside, TypeOK
  <2>2. Cardinality(Inside') = Cardinality(Inside) + 1
    BY <2>1, InsideFinite, FS_AddElement
  <2>3. Model!EnterEngine
    BY <1>1, <2>2 DEF Enter, flags, Model!EnterEngine
  <2> QED
    BY <2>3 DEF Model!ModelNext
<1>2. ASSUME NEW c \in Calls, Return(c) PROVE Model!ModelNext
  <2>1. Inside' = Inside \ {c} /\ c \in Inside
    BY <1>2, <1>t DEF Return, Goto, Inside, TypeOK
  <2>2. IsFiniteSet(Inside \ {c}) /\ Cardinality(Inside') = Cardinality(Inside) - 1
    BY <2>1, InsideFinite, FS_RemoveElement
  <2>3. Cardinality(Inside) > 0
    <3>1. Cardinality(Inside) # 0
      BY <2>1, InsideFinite, FS_EmptySet
    <3> QED
      BY <3>1, InsideFinite
  <2>4. ASSUME modelLoading PROVE Cardinality(Inside) > 1
    <3>1. PICK d \in Calls :
            mutex = d /\ pc[d] \in LoadSection \union {"initialize", "initializing"}
      BY <2>4 DEF EInv, LoadingIsReal
    <3>2. d \in Inside \ {c}
      BY <1>2, <3>1 DEF Return, Inside, LoadSection
    <3>3. Cardinality(Inside \ {c}) # 0
      BY <2>2, <3>2, FS_EmptySet
    <3>4. Cardinality(Inside \ {c}) \in Nat /\ Cardinality(Inside \ {c}) = Cardinality(Inside) - 1
      BY <2>1, <2>2, FS_CardinalityType
    <3> QED
      BY <3>3, <3>4, InsideFinite
  <2>5. UNCHANGED <<modelLoaded, modelLoading>>
    BY <1>2 DEF Return, flags
  <2>6. Model!LeaveEngine
    BY <2>2, <2>3, <2>4, <2>5 DEF Model!LeaveEngine
  <2> QED
    BY <2>6 DEF Model!ModelNext
<1>3. ASSUME NEW c \in Calls, Recheck(c) PROVE Model!ModelNext \/ UNCHANGED Model!modelVars
  <2>1. CASE modelLoaded
    <3>1. Inside' = Inside /\ UNCHANGED <<modelLoaded, modelLoading>>
      BY <1>3, <1>t, <2>1, StaysInside DEF Recheck
    <3> QED
      BY <3>1 DEF Model!modelVars
  <2>2. CASE ~modelLoaded
    <3>1. Inside' = Inside /\ Cardinality(Inside) > 0
      BY <1>3, <1>t, <2>2, StaysInside DEF Recheck
    <3>2. modelLoading' = TRUE /\ UNCHANGED modelLoaded
      BY <1>3, <2>2 DEF Recheck
    <3>3. ~modelLoading
      BY <1>3 DEF Recheck, EInv, LoadingIsReal, MutexHeld, Held, LoadSection
    <3>4. Model!BeginLoad
      BY <2>2, <3>1, <3>2, <3>3 DEF Model!BeginLoad
    <3> QED
      BY <3>4 DEF Model!ModelNext, Model!EngineStep
  <2> QED
    BY <2>1, <2>2
<1>4. ASSUME NEW c \in Calls, Publish(c) PROVE Model!ModelNext
  <2>1. mutex = c /\ pc[c] = "publish"
    BY <1>4 DEF Publish, EInv, MutexHeld, Held, LoadSection
  <2>2. modelLoading /\ ~modelLoaded
    BY <2>1 DEF EInv, LoadingIsReal, LoadKnows, LoadSection
  <2>3. Inside' = Inside /\ modelLoaded' = TRUE /\ UNCHANGED modelLoading
    BY <1>4, <1>t, StaysInside DEF Publish
  <2>4. Model!LoadSucceeds
    BY <2>2, <2>3 DEF Model!LoadSucceeds
  <2> QED
    BY <2>4 DEF Model!ModelNext, Model!EngineStep
<1>5. ASSUME NEW c \in Calls, Unwind(c) PROVE Model!ModelNext
  <2>1. mutex = c
    BY <1>5 DEF Unwind, EInv, MutexHeld, Held, LoadSection
  <2>2. modelLoading
    BY <1>5, <2>1 DEF Unwind, EInv, LoadingIsReal, LoadSection
  <2>3. Inside' = Inside
    <3> DEFINE label == IF pc[c] = "unwind" THEN "use" ELSE "return"
    <3>1. label # "out" /\ pc[c] # "out" /\ Goto(c, label)
      BY <1>5 DEF Unwind
    <3> HIDE DEF label
    <3> QED
      BY <3>1, <1>t, StaysInside
  <2>4. Model!EndLoad
    BY <1>5, <2>2, <2>3 DEF Unwind, Model!EndLoad
  <2> QED
    BY <2>4 DEF Model!ModelNext, Model!EngineStep
<1>6. ASSUME NEW c \in Calls, DropFlags(c) PROVE Model!ModelNext
  <2>1. mutex = c /\ pc[c] = "drop"
    BY <1>6 DEF DropFlags, EInv, MutexHeld, Held, RecoverySection
  <2>2. ~modelLoading
    BY <2>1 DEF EInv, LoadingIsReal, LoadSection
  <2>3. Inside' = Inside /\ Cardinality(Inside) > 0
    BY <1>6, <1>t, StaysInside DEF DropFlags
  <2>4. modelLoaded' = FALSE /\ modelLoading' = FALSE
    BY <1>6 DEF DropFlags
  <2>5. modelLoading' = modelLoading
    BY <2>2, <2>4, <1>t DEF TypeOK
  <2>6. Model!DropModel
    BY <2>2, <2>3, <2>4, <2>5 DEF Model!DropModel
  <2> QED
    BY <2>6 DEF Model!ModelNext, Model!EngineStep
<1>7. ASSUME NEW c \in Calls,
             \/ Check(c) \/ Lock(c) \/ Resolve(c) \/ BeginNativeLoad(c) \/ EndNativeLoad(c)
             \/ CheckInitialized(c) \/ LibraryMissing(c) \/ SetInitialized(c)
             \/ Use(c) \/ BeginInfer(c) \/ EndInfer(c) \/ InferCancelled(c) \/ InferTimesOut(c)
             \/ LockToRecover(c) \/ Cancel(c) \/ Unload(c) \/ Shutdown(c) \/ Uninitialize(c)
      PROVE  UNCHANGED Model!modelVars
  <2>1. UNCHANGED flags
    BY <1>7 DEF Check, Lock, Resolve, BeginNativeLoad, EndNativeLoad, CheckInitialized,
                LibraryMissing, SetInitialized, Use, BeginInfer, EndInfer, InferCancelled,
                InferTimesOut, LockToRecover, Cancel, Unload, Shutdown, Uninitialize
  <2>2. pc[c] # "out" /\ \E label \in Labels \ {"out"} : Goto(c, label)
    BY <1>7 DEF Labels, Check, Lock, Resolve, BeginNativeLoad, EndNativeLoad, CheckInitialized,
                LibraryMissing, SetInitialized, Use, BeginInfer, EndInfer, InferCancelled,
                InferTimesOut, LockToRecover, Cancel, Unload, Shutdown, Uninitialize
  <2>3. Inside' = Inside
    BY <2>2, <1>t, StaysInside
  <2> QED
    BY <2>1, <2>3 DEF flags, Model!modelVars
<1>8. ASSUME UNCHANGED vars PROVE UNCHANGED Model!modelVars
  BY <1>8 DEF vars, flags, Inside, Model!modelVars
<1> QED
  BY <1>1, <1>2, <1>3, <1>4, <1>5, <1>6, <1>7, <1>8
  DEF Next, Acquire, Step, Load, Infer, Recover

(* What FormViewModel assumes of the on-device engine (LlmModel) is what   *)
(* DirectLlamaOnDeviceLlmEngine does.                                      *)
THEOREM EngineImplementsModel == Spec => ImplementsLlmModel
<1>1. Init => Model!ModelInit
  <2> SUFFICES ASSUME Init PROVE Model!ModelInit
    OBVIOUS
  <2>1. Inside = {}
    BY DEF Init, Inside
  <2> QED
    BY <2>1, FS_EmptySet DEF Init, Model!ModelInit
<1>2. EInv /\ [Next]_vars => [Model!ModelNext]_(Model!modelVars)
  BY NextRefinesModel
<1> QED
  BY <1>1, <1>2, EngineInvariance, PTL DEF Spec, ImplementsLlmModel, Model!ModelSpec
=============================================================================
