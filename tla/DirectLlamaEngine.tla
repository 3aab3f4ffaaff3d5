-------------------------- MODULE DirectLlamaEngine --------------------------
(***************************************************************************)
(* DirectLlamaOnDeviceLlmEngine, the bridge under it (DirectLlamaBridge)   *)
(* and the native state the bridge's functions share (ai_chat.cpp).        *)
(*                                                                         *)
(* Warm-up, self-test and mapping call the engine from Dispatchers.Default *)
(* at the same time.  The mutex covers loading and recovery after a        *)
(* timeout; inference runs outside it.  A call is a process; every read or *)
(* write of shared state is a step of its own, and a native function that  *)
(* takes long is one step at its start and one at its end.                 *)
(*                                                                         *)
(* Prompts, tokens and results are left out: an inference ends with a      *)
(* result or an error, cancelled, or in a timeout.  An inference whose     *)
(* model is freed under it (NativeIsExclusive) is undefined behaviour in   *)
(* the code; here it goes on, and the other outcome, a crash, ends the     *)
(* behaviour there.                                                        *)
(***************************************************************************)
EXTENDS Naturals, FiniteSets

CONSTANTS
  Calls,   \* the calls that may be inside the engine at once
  Nobody   \* no holder

ASSUME EngineConstants == IsFiniteSet(Calls) /\ Nobody \notin Calls

VARIABLES
  pc,            \* where each call is
  kind,          \* "warmup" or "infer"
  mutex,         \* the coroutine Mutex, by holder
  modelLoaded,
  modelLoading,
  monitor,       \* synchronized(this) of the bridge, by holder
  initialized,   \* DirectLlamaBridge.initialized
  backend,       \* the llama backend is initialised
  nativeModel,   \* g_model, g_context and g_sampler are set
  cancelled      \* g_direct_cancel_requested

flags == <<modelLoaded, modelLoading>>
bridge == <<monitor, initialized, backend>>
native == <<nativeModel, cancelled>>
vars == <<pc, kind, mutex, flags, bridge, native>>

Labels ==
  {"out", "check", "lock", "recheck", "resolve", "initialize", "initializing", "load",
   "loading", "publish", "unwind", "abort", "use", "infer", "inferring", "recover",
   "drop", "cancel", "unload", "shutdown", "uninitialize", "return"}

Goto(c, label) == pc' = [pc EXCEPT ![c] = label]

Init ==
  /\ pc = [c \in Calls |-> "out"]
  /\ kind = [c \in Calls |-> "warmup"]
  /\ mutex = Nobody
  /\ modelLoaded = FALSE
  /\ modelLoading = FALSE
  /\ monitor = Nobody
  /\ initialized = FALSE
  /\ backend = FALSE
  /\ nativeModel = FALSE
  /\ cancelled = FALSE

(* warmupModel() or completeJson()                                         *)
Enter(c, k) ==
  /\ pc[c] = "out"
  /\ kind' = [kind EXCEPT ![c] = k]
  /\ Goto(c, "check")
  /\ UNCHANGED <<mutex, flags, bridge, native>>

Return(c) ==
  /\ pc[c] = "return"
  /\ Goto(c, "out")
  /\ UNCHANGED <<kind, mutex, flags, bridge, native>>

-----------------------------------------------------------------------------
(* ensureModelLoaded                                                       *)

Check(c) ==
  /\ pc[c] = "check"
  /\ Goto(c, IF modelLoaded THEN "use" ELSE "lock")
  /\ UNCHANGED <<kind, mutex, flags, bridge, native>>

Lock(c) ==
  /\ pc[c] = "lock"
  /\ mutex = Nobody
  /\ mutex' = c
  /\ Goto(c, "recheck")
  /\ UNCHANGED <<kind, flags, bridge, native>>

(* Slip: the second check of modelLoaded, under the mutex, is missing.     *)
RecheckNothing(c) ==
  /\ pc[c] = "recheck"
  /\ modelLoading' = TRUE
  /\ Goto(c, "resolve")
  /\ UNCHANGED <<kind, mutex, modelLoaded, bridge, native>>

Recheck(c) ==
  /\ pc[c] = "recheck"
  /\ IF modelLoaded
     THEN mutex' = Nobody /\ Goto(c, "use") /\ UNCHANGED modelLoading
     ELSE modelLoading' = TRUE /\ Goto(c, "resolve") /\ UNCHANGED mutex
  /\ UNCHANGED <<kind, modelLoaded, bridge, native>>

(* The model file is found and copied, or something on the way throws.     *)
Resolve(c) ==
  /\ pc[c] = "resolve"
  /\ \E next \in {"initialize", "abort"} : Goto(c, next)
  /\ UNCHANGED <<kind, mutex, flags, bridge, native>>

(* nativeLoadModel frees whatever is there before it loads the file.       *)
BeginNativeLoad(c) ==
  /\ pc[c] = "load"
  /\ nativeModel' = FALSE
  /\ Goto(c, "loading")
  /\ UNCHANGED <<kind, mutex, flags, bridge, cancelled>>

EndNativeLoad(c) ==
  /\ pc[c] = "loading"
  /\ \/ nativeModel' = TRUE /\ cancelled' = FALSE /\ Goto(c, "publish")
     \/ UNCHANGED native /\ Goto(c, "abort")
  /\ UNCHANGED <<kind, mutex, flags, bridge>>

Publish(c) ==
  /\ pc[c] = "publish"
  /\ modelLoaded' = TRUE
  /\ Goto(c, "unwind")
  /\ UNCHANGED <<kind, mutex, modelLoading, bridge, native>>

(* Slip: modelLoading is cleared after a success only, not in finally.     *)
UnwindOnSuccess(c) ==
  /\ pc[c] \in {"unwind", "abort"}
  /\ modelLoading' = (pc[c] = "abort")
  /\ mutex' = Nobody
  /\ Goto(c, IF pc[c] = "unwind" THEN "use" ELSE "return")
  /\ UNCHANGED <<kind, modelLoaded, bridge, native>>

(* The finally block, and withLock's.                                      *)
Unwind(c) ==
  /\ pc[c] \in {"unwind", "abort"}
  /\ modelLoading' = FALSE
  /\ mutex' = Nobody
  /\ Goto(c, IF pc[c] = "unwind" THEN "use" ELSE "return")
  /\ UNCHANGED <<kind, modelLoaded, bridge, native>>

-----------------------------------------------------------------------------
(* DirectLlamaBridge.ensureInitialized, called under the mutex by a load   *)
(* and without it by an inference.                                         *)

CheckInitialized(c) ==
  /\ pc[c] = "initialize"
  /\ IF initialized
     THEN /\ Goto(c, IF mutex = c THEN "load" ELSE "infer")
          /\ UNCHANGED bridge
     ELSE /\ monitor = Nobody
          /\ monitor' = c
          /\ backend' = TRUE
          /\ Goto(c, "initializing")
          /\ UNCHANGED initialized
  /\ UNCHANGED <<kind, mutex, flags, native>>

(* System.loadLibrary throws, before nativeInit.                           *)
LibraryMissing(c) ==
  /\ pc[c] = "initialize"
  /\ ~initialized
  /\ monitor = Nobody
  /\ Goto(c, IF mutex = c THEN "abort" ELSE "return")
  /\ UNCHANGED <<kind, mutex, flags, bridge, native>>

SetInitialized(c) ==
  /\ pc[c] = "initializing"
  /\ initialized' = TRUE
  /\ monitor' = Nobody
  /\ Goto(c, IF mutex = c THEN "load" ELSE "infer")
  /\ UNCHANGED <<kind, mutex, flags, backend, native>>

-----------------------------------------------------------------------------
(* completeJson after ensureModelLoaded: bridge.inferJson, no mutex.       *)

(* Slip: a warm-up does not come back.                                     *)
UseLost(c) ==
  /\ pc[c] = "use"
  /\ Goto(c, IF kind[c] = "warmup" THEN "lost" ELSE "initialize")
  /\ UNCHANGED <<kind, mutex, flags, bridge, native>>

Use(c) ==
  /\ pc[c] = "use"
  /\ Goto(c, IF kind[c] = "warmup" THEN "return" ELSE "initialize")
  /\ UNCHANGED <<kind, mutex, flags, bridge, native>>

BeginInfer(c) ==
  /\ pc[c] = "infer"
  /\ IF nativeModel
     THEN cancelled' = FALSE /\ Goto(c, "inferring")
     ELSE UNCHANGED cancelled /\ Goto(c, "return")
  /\ UNCHANGED <<kind, mutex, flags, bridge, nativeModel>>

(* A result, or an error other than a timeout: nothing to recover.         *)
EndInfer(c) ==
  /\ pc[c] = "inferring"
  /\ Goto(c, "return")
  /\ UNCHANGED <<kind, mutex, flags, bridge, native>>

(* A cancel request of another call's recovery is noticed between decodes. *)
InferCancelled(c) ==
  /\ pc[c] = "inferring"
  /\ cancelled
  /\ Goto(c, "return")
  /\ UNCHANGED <<kind, mutex, flags, bridge, native>>

InferTimesOut(c) ==
  /\ pc[c] = "inferring"
  /\ Goto(c, "recover")
  /\ UNCHANGED <<kind, mutex, flags, bridge, native>>

-----------------------------------------------------------------------------
(* recoverAfterFailure                                                     *)

LockToRecover(c) ==
  /\ pc[c] = "recover"
  /\ mutex = Nobody
  /\ mutex' = c
  /\ Goto(c, "drop")
  /\ UNCHANGED <<kind, flags, bridge, native>>

(* Slip: the recovery leaves modelLoaded set.                              *)
DropLoadingOnly(c) ==
  /\ pc[c] = "drop"
  /\ modelLoading' = FALSE
  /\ Goto(c, "cancel")
  /\ UNCHANGED <<kind, mutex, modelLoaded, bridge, native>>

DropFlags(c) ==
  /\ pc[c] = "drop"
  /\ modelLoaded' = FALSE
  /\ modelLoading' = FALSE
  /\ Goto(c, "cancel")
  /\ UNCHANGED <<kind, mutex, bridge, native>>

(* cancel(), unload() and shutdown() do nothing on a bridge that is not    *)
(* initialized.                                                            *)
Cancel(c) ==
  /\ pc[c] = "cancel"
  /\ cancelled' = (initialized \/ cancelled)
  /\ Goto(c, "unload")
  /\ UNCHANGED <<kind, mutex, flags, bridge, nativeModel>>

(* Slip: the recovery does not unload.                                     *)
UnloadNothing(c) ==
  /\ pc[c] = "unload"
  /\ Goto(c, "shutdown")
  /\ UNCHANGED <<kind, mutex, flags, bridge, native>>

(* nativeUnload takes the cancel request back before it frees the model.   *)
Unload(c) ==
  /\ pc[c] = "unload"
  /\ IF initialized
     THEN cancelled' = FALSE /\ nativeModel' = FALSE
     ELSE UNCHANGED native
  /\ Goto(c, "shutdown")
  /\ UNCHANGED <<kind, mutex, flags, bridge>>

Shutdown(c) ==
  /\ pc[c] = "shutdown"
  /\ IF initialized
     THEN backend' = FALSE /\ Goto(c, "uninitialize") /\ UNCHANGED mutex
     ELSE mutex' = Nobody /\ Goto(c, "return") /\ UNCHANGED backend
  /\ UNCHANGED <<kind, flags, monitor, initialized, native>>

(* Slip: the mutex is not given back.                                      *)
UninitializeLocked(c) ==
  /\ pc[c] = "uninitialize"
  /\ initialized' = FALSE
  /\ Goto(c, "return")
  /\ UNCHANGED <<kind, mutex, flags, monitor, backend, native>>

(* Slip: initialized is not cleared.                                       *)
UninitializeNothing(c) ==
  /\ pc[c] = "uninitialize"
  /\ mutex' = Nobody
  /\ Goto(c, "return")
  /\ UNCHANGED <<kind, flags, monitor, initialized, backend, native>>

Uninitialize(c) ==
  /\ pc[c] = "uninitialize"
  /\ initialized' = FALSE
  /\ mutex' = Nobody
  /\ Goto(c, "return")
  /\ UNCHANGED <<kind, flags, monitor, backend, native>>

-----------------------------------------------------------------------------
Load(c) ==
  \/ Check(c) \/ Recheck(c) \/ Resolve(c) \/ BeginNativeLoad(c) \/ EndNativeLoad(c)
  \/ Publish(c) \/ Unwind(c) \/ CheckInitialized(c) \/ LibraryMissing(c) \/ SetInitialized(c)

Infer(c) == Use(c) \/ BeginInfer(c) \/ EndInfer(c) \/ InferCancelled(c) \/ InferTimesOut(c)

Recover(c) == DropFlags(c) \/ Cancel(c) \/ Unload(c) \/ Shutdown(c) \/ Uninitialize(c)

Acquire(c) == Lock(c) \/ LockToRecover(c)

Step(c) == Load(c) \/ Infer(c) \/ Recover(c) \/ Return(c)

Next ==
  \E c \in Calls :
    \/ \E k \in {"warmup", "infer"} : Enter(c, k)
    \/ Acquire(c)
    \/ Step(c)

(* A call that can run does run (worker threads of Dispatchers.Default,    *)
(* inference bounded by its time limit).  Waiting is not for ever: the     *)
(* coroutine Mutex serves its waiters in turn, and the bridge's monitor is *)
(* held only for the initialisation.  Nobody is obliged to call.           *)
Fairness == \A c \in Calls : SF_vars(Acquire(c) \/ Step(c))

Spec == Init /\ [][Next]_vars
FairSpec == Spec /\ Fairness
-----------------------------------------------------------------------------
(* Types of the engine's, the bridge's and the native state.               *)
TypeOK ==
  /\ pc \in [Calls -> Labels]
  /\ kind \in [Calls -> {"warmup", "infer"}]
  /\ mutex \in Calls \union {Nobody}
  /\ modelLoaded \in BOOLEAN
  /\ modelLoading \in BOOLEAN
  /\ monitor \in Calls \union {Nobody}
  /\ initialized \in BOOLEAN
  /\ backend \in BOOLEAN
  /\ nativeModel \in BOOLEAN
  /\ cancelled \in BOOLEAN

(* isModelLoaded() can be trusted: the native model is there, on a backend *)
(* that is up, although loads and recoveries of other calls come between.  *)
LoadedIsUsable == modelLoaded => nativeModel /\ initialized /\ backend

(* Nothing leaks: when no load or recovery is under way a native model is  *)
(* resident only if the engine knows of it.                                *)
NoStrayModel == mutex = Nobody /\ nativeModel => modelLoaded

(* No inference starts, and no model is loaded, on a freed backend.  A     *)
(* call that passes ensureInitialized between nativeShutdown and the reset *)
(* of initialized (DirectLlamaBridge.shutdown) does reach the native code, *)
(* without the mutex, but finds no model there.                            *)
ModelHasBackend == nativeModel => backend

(* The load section: a call inside it holds the mutex.                     *)
LoadSection == {"resolve", "load", "loading", "publish", "unwind", "abort"}
RecoverySection == {"drop", "cancel", "unload", "shutdown", "uninitialize"}

(* isModelLoading() is raised exactly while some call loads, so a load     *)
(* that throws anywhere takes it back.                                     *)
LoadingIsReal ==
  modelLoading <=>
    \E c \in Calls : mutex = c /\ pc[c] \in LoadSection \union {"initialize", "initializing"}

Inside == {c \in Calls : pc[c] # "out"}

Model == INSTANCE LlmModel WITH engineCalls <- Cardinality(Inside)

(* The engine implements LlmModel, the engine FormViewModel is checked     *)
(* with.                                                                   *)
ImplementsLlmModel == Model!ModelSpec

(* Every warm-up, self-test and mapping gets an answer from the engine,    *)
(* whoever waits for the mutex.                                            *)
CallsReturn == \A c \in Calls : pc[c] # "out" ~> pc[c] = "out"

(* InferenceEngineImpl, on the same native globals: "All operations are    *)
(* executed on a dedicated single-threaded dispatcher to ensure thread     *)
(* safety with the underlying C++ native code".  At most one call is       *)
(* inside the native code, and no inference loses its model.               *)
NativeIsExclusive ==
  \A c, d \in Calls :
    pc[c] = "inferring" /\ pc[d] \in {"inferring", "loading", "unload"} => c = d
=============================================================================
