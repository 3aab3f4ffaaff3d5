----------------------- MODULE InferenceEngine_proofs ------------------------
(***************************************************************************)
(* Proofs about InferenceEngineImpl and its native session, for contexts,  *)
(* batches and prompts of any size.  EngineInv is inductive: its lifecycle *)
(* part says which operation can be under way in which state, its cache    *)
(* part what the memory of the context holds between any two batches.      *)
(***************************************************************************)
EXTENDS InferenceEngine, KvCache_proofs

Prompts ==
  [role : {"system", "user"}, size : 0 .. Limit, at : Nat, start : Nat, predict : Nat]

(* What the variables hold; the type invariant of the run is less exact.   *)
SessionTypes ==
  /\ model \in {"none", "live", "freed"} /\ context \in {"none", "live", "freed"}
  /\ nCtx \in Nat \ {0} /\ batchCapacity \in 1 .. BatchMax
  /\ GoodMemory(mem)
  /\ sysPos \in Nat /\ curPos \in Nat /\ stopPos \in Nat
  /\ sysPos <= curPos
  /\ prompt \in Prompts
  /\ torn \in BOOLEAN

LifecycleTypes ==
  /\ state \in States
  /\ ready \in BOOLEAN /\ cancelGeneration \in BOOLEAN
  /\ flow \in {"none", "running", "suspended"}
  /\ closing \in {"no", "cleanUp", "destroy"}
  /\ destroyed \in BOOLEAN /\ backend \in BOOLEAN

(* A prompt or an answer is under way in its own state only.               *)
OneOperation ==
  /\ Busy => /\ ~destroyed /\ flow = "none"
             /\ state = IF prompt.role = "system" THEN "ProcessingSystemPrompt"
                                                  ELSE "ProcessingUserPrompt"
  /\ ~destroyed /\ state = "ProcessingSystemPrompt" => Busy
  /\ flow # "none" => ~destroyed /\ state = "Generating"

(* What a state stands for.                                                *)
StatesMean ==
  /\ ~destroyed /\ state # "Uninitialized" => backend
  /\ ~destroyed /\ state \in Loaded => model = "live" /\ context = "live"
  /\ ready => ~destroyed /\ state = "ModelReady"
  /\ destroyed => state \notin {"Uninitialized", "LoadingModel"}

(* Outside the states of a loaded model nothing is counted.                *)
NothingCounted ==
  destroyed \/ state \notin Loaded => curPos = 0 /\ ~torn

(* While the system prompt is decoded nothing else is in the memory.       *)
SystemDecoded ==
  Busy /\ prompt.role = "system" =>
    /\ curPos = 0 /\ prompt.start = 0 /\ ~torn
    /\ InOrder(mem, Min({prompt.at, prompt.size}))
    /\ \A t \in mem.held : t.role = "system"

(* While a user prompt is decoded the memory holds the conversation and    *)
(* the batches before, unless it was shifted in between.                   *)
UserDecoded ==
  Busy /\ prompt.role = "user" =>
    /\ sysPos <= prompt.start
    /\ SystemPart(mem, sysPos)
    /\ ~torn => /\ prompt.start = curPos
                /\ InOrder(mem, curPos + Min({prompt.at, prompt.size}))

(* Between the operations.                                                 *)
Settled ==
  ~destroyed /\ state \in {"ModelReady", "Generating"} =>
    /\ SystemPart(mem, sysPos)
    /\ ~torn => InOrder(mem, curPos)

EngineInv ==
  /\ SessionTypes /\ LifecycleTypes
  /\ OneOperation /\ StatesMean /\ FreshModelGenerates
  /\ NothingCounted /\ SystemDecoded /\ UserDecoded /\ Settled

-----------------------------------------------------------------------------
(* Numbers the session works with.                                         *)

(* There is room for a token before the context counts as full.            *)
LEMMA LimitPositive == Limit \in Nat \ {0}
BY ChatConstants DEF Limit

(* No prompt is the prompt of size 0.                                      *)
LEMMA NoPromptFacts == NoPrompt \in Prompts /\ ~(NoPrompt.size > 0)
BY LimitPositive DEF NoPrompt, Prompts

(* What shift_context discards lies behind the system prompt.              *)
LEMMA DiscardFacts ==
  ASSUME SessionTypes
  PROVE  /\ Discard \in Nat
         /\ sysPos + Discard <= curPos
         /\ Shifted = Shift(mem, sysPos, Discard, curPos)
<1>1. sysPos \in Nat /\ curPos \in Nat /\ curPos - sysPos \in Nat
  BY DEF SessionTypes
<1>2. Discard \in Nat /\ Discard <= curPos - sysPos
  BY <1>1 DEF Discard
<1>. QED
  BY <1>1, <1>2 DEF Shifted, Shift

-----------------------------------------------------------------------------
(* The steps.                                                              *)

(* The engine starts in its invariant.                                     *)
LEMMA InitInv == EngineInit => EngineInv
<1>. SUFFICES ASSUME EngineInit PROVE EngineInv
  OBVIOUS
<1>. USE DEF EngineInit, SessionInit
<1>1. SessionTypes
  <2>1. GoodMemory(NewMemory(0))
    BY NewMemoryFacts
  <2>2. DefaultContext \in Nat \ {0} /\ BatchMax \in 1 .. BatchMax
    BY ChatConstants
  <2>3. prompt \in Prompts
    BY NoPromptFacts
  <2>4. sysPos \in Nat /\ curPos \in Nat /\ stopPos \in Nat /\ sysPos <= curPos
    OBVIOUS
  <2>. QED
    BY <2>1, <2>2, <2>3, <2>4, Zenon DEF SessionTypes
<1>2. ~Busy
  BY NoPromptFacts DEF Busy
<1>3. LifecycleTypes
  BY DEF LifecycleTypes, States
<1>. QED
  BY <1>1, <1>2, <1>3 DEF EngineInv, OneOperation, StatesMean, FreshModelGenerates,
     NothingCounted, SystemDecoded, UserDecoded, Settled, Loaded

(* Steps that leave the native session alone.                              *)
LEMMA LifecycleStepInv ==
  ASSUME EngineInv,
         \/ Initialize
         \/ \E exists \in BOOLEAN : loadModel(exists)
         \/ bench
         \/ GenerationAborted
         \/ Resume
         \/ \E call \in {"cleanUp", "destroy"} : close(call)
         \/ getInstance
  PROVE  EngineInv'
<1>. USE DEF EngineInv, SessionTypes, LifecycleTypes, OneOperation, StatesMean,
         FreshModelGenerates, NothingCounted, SystemDecoded, UserDecoded, Settled, Loaded,
         States, Busy, resources, session
<1>1. CASE Initialize
  BY <1>1 DEF Initialize
<1>2. ASSUME NEW exists \in BOOLEAN, loadModel(exists)
      PROVE  EngineInv'
  BY <1>2 DEF loadModel, Accepts, DispatcherFree
<1>3. CASE bench
  BY <1>3 DEF bench, Accepts, DispatcherFree
<1>4. CASE GenerationAborted
  BY <1>4 DEF GenerationAborted
<1>5. CASE Resume
  BY <1>5 DEF Resume, DispatcherFree
<1>6. ASSUME NEW call \in {"cleanUp", "destroy"}, close(call)
      PROVE  EngineInv'
  BY <1>6 DEF close
<1>7. CASE getInstance
  BY <1>7 DEF getInstance
<1>. QED
  BY <1>1, <1>2, <1>3, <1>4, <1>5, <1>6, <1>7

(* configureGeneration comes before a model is loaded.                     *)
LEMMA ConfigureInv ==
  ASSUME EngineInv, NEW n \in ContextSizes, configureRuntime(n)
  PROVE  EngineInv'
<1>1. Max({MinContext, n}) \in Nat \ {0}
  BY MaxOfTwo, ChatConstants, EngineInputs
<1>. QED
  BY <1>1 DEF configureRuntime, configureGeneration, lifecycle, session, EngineInv,
     SessionTypes, LifecycleTypes, OneOperation, StatesMean, FreshModelGenerates,
     NothingCounted, SystemDecoded, UserDecoded, Settled, Busy

(* A model is loaded into an empty context, and the positions are 0.       *)
LEMMA LoadInv ==
  ASSUME EngineInv, NEW outcome \in {"notLoaded", "noContext", "ready"}, LoadStep(outcome)
  PROVE  EngineInv'
<1>. USE DEF EngineInv
<1>0. state = "LoadingModel" /\ UNCHANGED <<flow, closing, destroyed, backend>>
  BY DEF LoadStep
<1>1. /\ ~destroyed /\ ~destroyed' /\ flow' = "none" /\ backend' /\ ~Busy /\ ~ready
      /\ curPos = 0 /\ sysPos = 0 /\ ~torn
  BY <1>0 DEF OneOperation, StatesMean, NothingCounted, Loaded, SessionTypes, LifecycleTypes
<1>2. CASE outcome # "ready"
  BY <1>1, <1>2 DEF LoadStep, session, SessionTypes, LifecycleTypes, States, OneOperation, StatesMean,
     FreshModelGenerates, NothingCounted, SystemDecoded, UserDecoded, Settled, Loaded, Busy
<1>3. CASE outcome = "ready"
  <2>. DEFINE new == NewMemory(ContextSize(nCtx))
  <2>1. nCtx \in Nat \ {0}
    BY DEF SessionTypes
  <2>2. GoodMemory(new) /\ InOrder(new, 0) /\ new.held = {}
    BY <2>1, ContextSizeCovers, NewMemoryFacts
  <2>3. SystemPart(new, 0)
    BY <2>2 DEF SystemPart
  <2>. HIDE DEF new
  <2>4. /\ mem' = new
        /\ context' = "live" /\ model' = "live"
        /\ batchCapacity' = Max({1, Min({BatchMax, nCtx})})
        /\ UNCHANGED <<nCtx, sysPos, curPos, stopPos, prompt, torn, flow, closing, destroyed, backend>>
        /\ ready' = TRUE /\ cancelGeneration' = FALSE /\ state' = "ModelReady"
    BY <1>3 DEF LoadStep, prepare, new
  <2>5. batchCapacity' \in 1 .. BatchMax
    <3>1. BatchMax \in Nat \ {0}
      BY ChatConstants
    <3>2. Min({BatchMax, nCtx}) \in 1 .. BatchMax
      BY <2>1, <3>1, MinOfTwo
    <3>. QED
      BY <2>4, <3>1, <3>2, MaxOfTwo
  <2>6. SessionTypes'
    BY <2>2, <2>4, <2>5 DEF SessionTypes
  <2>7. Settled'
    BY <1>1, <2>2, <2>3, <2>4 DEF Settled
  <2>8. (LifecycleTypes /\ OneOperation /\ StatesMean /\ FreshModelGenerates)'
    BY <1>1, <2>4 DEF LifecycleTypes, States, OneOperation, StatesMean, FreshModelGenerates, Busy
  <2>. QED
    BY <1>1, <2>4, <2>6, <2>7, <2>8 DEF NothingCounted, SystemDecoded, UserDecoded, Busy, Loaded
<1>. QED
  BY <1>2, <1>3

(* reset and unload.                                                       *)
LEMMA ResetFacts ==
  ASSUME SessionTypes, reset
  PROVE  /\ GoodMemory(mem') /\ InOrder(mem', 0) /\ mem'.held = {}
         /\ sysPos' = 0 /\ curPos' = 0 /\ stopPos' = 0 /\ torn' = FALSE
<1>1. mem' = Clear(mem) /\ GoodMemory(mem)
  BY DEF reset, SessionTypes
<1>. QED
  BY <1>1, ClearFacts DEF reset

(* A system prompt begins in an empty memory.                              *)
LEMMA SetSystemInv ==
  ASSUME EngineInv, NEW n \in SystemSizes, setSystemPrompt(n)
  PROVE  EngineInv'
<1>. USE DEF EngineInv
<1>1. /\ GoodMemory(mem') /\ InOrder(mem', 0) /\ mem'.held = {}
      /\ sysPos' = 0 /\ curPos' = 0 /\ stopPos' = 0 /\ torn' = FALSE
  BY ResetFacts DEF setSystemPrompt, processSystemPrompt
<1>2. /\ ready' = FALSE /\ flow' = "none" /\ ~destroyed' /\ backend'
      /\ model' = "live" /\ context' = "live"
      /\ UNCHANGED <<nCtx, batchCapacity, closing, destroyed, cancelGeneration>>
  BY DEF setSystemPrompt, processSystemPrompt, OneOperation, StatesMean, Accepts,
     DispatcherFree, resources, LifecycleTypes, Loaded
<1>0. sysPos' \in Nat /\ curPos' \in Nat /\ stopPos' \in Nat /\ sysPos' <= curPos'
  BY <1>1
<1>5. prompt' \in Prompts => SessionTypes'
  BY <1>0, <1>1, <1>2, Zenon DEF SessionTypes
<1>3. CASE n > Limit
  <2>1. prompt' = NoPrompt /\ state' = "Error"
    BY <1>3 DEF setSystemPrompt, processSystemPrompt
  <2>2. ~Busy' /\ prompt' \in Prompts
    BY <2>1, NoPromptFacts DEF Busy
  <2>. QED
    BY <1>1, <1>2, <1>5, <2>1, <2>2 DEF LifecycleTypes, States, OneOperation, StatesMean,
       FreshModelGenerates, NothingCounted, SystemDecoded, UserDecoded, Settled, Loaded
<1>4. CASE ~(n > Limit)
  <2>1. n \in 1 .. Limit
    BY <1>4, EngineInputs, LimitPositive
  <2>2. /\ prompt' = [role |-> "system", size |-> n, at |-> 0, start |-> 0, predict |-> 0]
        /\ state' = "ProcessingSystemPrompt"
    BY <1>4 DEF setSystemPrompt, processSystemPrompt, NoPrompt
  <2>3. prompt' \in Prompts
    BY <2>1, <2>2 DEF Prompts
  <2>4. Busy' /\ prompt'.role = "system" /\ prompt'.start = 0
        /\ prompt'.at = 0 /\ prompt'.size = n
    BY <2>1, <2>2 DEF Busy
  <2>5. Min({prompt'.at, prompt'.size}) = 0
    BY <2>1, <2>4, MinOfTwo
  <2>6. SystemDecoded'
    BY <1>1, <2>4, <2>5 DEF SystemDecoded
  <2>7. SessionTypes'
    BY <1>5, <2>3
  <2>. QED
    BY <1>1, <1>2, <2>2, <2>4, <2>6, <2>7 DEF LifecycleTypes, States, OneOperation, StatesMean,
       FreshModelGenerates, NothingCounted, UserDecoded, Settled, Loaded
<1>. QED
  BY <1>3, <1>4

(* A user prompt begins where the conversation ends.                       *)
LEMMA SendUserInv ==
  ASSUME EngineInv, NEW n \in UserSizes, NEW predict \in PredictLengths,
         sendUserPrompt(n, predict)
  PROVE  EngineInv'
<1>. USE DEF EngineInv
<1>1. /\ ~Busy /\ ~destroyed /\ flow = "none" /\ state = "ModelReady"
      /\ model = "live" /\ context = "live" /\ backend
      /\ SystemPart(mem, sysPos) /\ (~torn => InOrder(mem, curPos))
  BY DEF sendUserPrompt, Accepts, DispatcherFree, OneOperation, StatesMean, Settled, Loaded
<1>2. /\ UNCHANGED <<resources, mem, sysPos, curPos, torn>> /\ stopPos' = 0
      /\ UNCHANGED <<cancelGeneration, flow, closing, destroyed, backend>>
      /\ ready' = FALSE /\ state' = "ProcessingUserPrompt"
      /\ prompt' = [role |-> "user", size |-> Min({n, Limit}), at |-> 0,
                    start |-> curPos, predict |-> predict]
  BY DEF sendUserPrompt, processUserPrompt
<1>3. Min({n, Limit}) \in 1 .. Limit
  BY MinOfTwo, LimitPositive, EngineInputs
<1>4. /\ prompt' \in Prompts
      /\ prompt'.role = "user" /\ prompt'.size \in 1 .. Limit /\ prompt'.at = 0
      /\ prompt'.start = curPos
  BY <1>2, <1>3, EngineInputs DEF Prompts, SessionTypes
<1>5. Busy'
  BY <1>3, <1>4 DEF Busy
<1>6. curPos' + Min({prompt'.at, prompt'.size}) = curPos
  <2>1. Min({prompt'.at, prompt'.size}) = 0
    BY <1>3, <1>4, MinOfTwo
  <2>. QED
    BY <1>2, <2>1 DEF SessionTypes
<1>7. SessionTypes'
  BY <1>2, <1>4 DEF SessionTypes, resources
<1>8. UserDecoded'
  BY <1>1, <1>2, <1>4, <1>6 DEF UserDecoded, SessionTypes
<1>. QED
  BY <1>1, <1>2, <1>4, <1>5, <1>7, <1>8 DEF resources, LifecycleTypes, States, OneOperation,
     StatesMean, FreshModelGenerates, NothingCounted, SystemDecoded, Settled, Loaded

(* cleanUp and destroy unload between two operations only.                 *)
LEMMA CloseInv ==
  ASSUME EngineInv, cleanUp \/ destroy
  PROVE  EngineInv'
<1>. USE DEF EngineInv
<1>1. ~Busy /\ UNCHANGED prompt
  BY DEF cleanUp, destroy, unload, DispatcherFree, session
<1>2. ~Busy'
  BY <1>1 DEF Busy
<1>3. ASSUME unload
      PROVE  /\ SessionTypes' /\ curPos' = 0 /\ ~torn'
             /\ model' = "freed" /\ context' = "freed"
  <2>1. /\ GoodMemory(mem') /\ InOrder(mem', 0) /\ mem'.held = {}
        /\ sysPos' = 0 /\ curPos' = 0 /\ stopPos' = 0 /\ torn' = FALSE
    BY <1>3, ResetFacts DEF unload
  <2>2. /\ model' = "freed" /\ context' = "freed"
        /\ UNCHANGED <<nCtx, batchCapacity, prompt>>
    BY <1>3 DEF unload
  <2>3. sysPos' \in Nat /\ curPos' \in Nat /\ stopPos' \in Nat /\ sysPos' <= curPos'
    BY <2>1
  <2>. QED
    BY <2>1, <2>2, <2>3, Zenon DEF SessionTypes
<1>4. CASE cleanUp
  <2>1. CASE state = "ModelReady"
    BY <1>2, <1>3, <1>4, <2>1 DEF cleanUp, DispatcherFree, LifecycleTypes, States, OneOperation,
       StatesMean, FreshModelGenerates, NothingCounted, SystemDecoded, UserDecoded, Settled, Loaded
  <2>2. CASE state # "ModelReady"
    <3>1. SessionTypes'
      BY <1>4, <2>2 DEF cleanUp, SessionTypes, resources, session
    <3>. QED
      BY <1>2, <1>4, <2>2, <3>1 DEF cleanUp, DispatcherFree, resources, session, LifecycleTypes,
         States, OneOperation, StatesMean, FreshModelGenerates, NothingCounted, SystemDecoded,
         UserDecoded, Settled, Loaded
  <2>. QED
    BY <2>1, <2>2
<1>5. CASE destroy
  <2>1. SessionTypes' /\ curPos' = 0 /\ ~torn'
    <3>1. CASE state = "Initialized"
      BY <1>5, <3>1 DEF destroy, resources, session, SessionTypes, NothingCounted, Loaded
    <3>2. CASE state # "Initialized"
      BY <1>3, <1>5, <3>2 DEF destroy
    <3>. QED
      BY <3>1, <3>2
  <2>2. /\ ready' = FALSE /\ flow' = "none" /\ destroyed' = TRUE /\ backend' = FALSE
        /\ closing' = "no"
        /\ UNCHANGED <<state, cancelGeneration>>
        /\ state \notin {"Uninitialized", "LoadingModel"}
    BY <1>5 DEF destroy, DispatcherFree
  <2>. QED
    BY <1>2, <2>1, <2>2 DEF LifecycleTypes, OneOperation, StatesMean, FreshModelGenerates,
       NothingCounted, SystemDecoded, UserDecoded, Settled
<1>. QED
  BY <1>4, <1>5

-----------------------------------------------------------------------------
(* The batches of a prompt.                                                *)

(* The size of the next batch.                                             *)
BatchSize == Min({prompt.size - prompt.at, batchCapacity})

(* What decode_tokens_in_batches gives to llama_decode: the memory, shifted *)
(* if the context counts as full.                                          *)
BatchMemory == IF prompt.start + prompt.at + BatchSize >= Limit THEN Shifted ELSE mem

(* One round, whatever its outcome: a batch is not empty, and if some of   *)
(* the prompt is left after it then it was a whole one.                    *)
LEMMA BatchFacts ==
  ASSUME EngineInv, NEW role \in {"system", "user"}, NEW ok \in BOOLEAN, decodeBatch(role, ok)
  PROVE  /\ Busy /\ prompt.role = role /\ prompt \in Prompts
         /\ prompt.at \in Nat /\ prompt.size \in Nat /\ prompt.start \in Nat
         /\ batchCapacity \in Nat \ {0}
         /\ BatchSize \in Nat \ {0}
         /\ Min({prompt.at, prompt.size}) = prompt.at
         /\ Min({prompt.at + batchCapacity, prompt.size}) = prompt.at + BatchSize
         /\ GoodMemory(BatchMemory)
         /\ SystemPart(mem, sysPos) => SystemPart(BatchMemory, sysPos)
         /\ Discard = 0 => BatchMemory = mem
         /\ curPos' \in Nat /\ sysPos <= curPos'
         /\ curPos' = curPos \/ (torn' /\ Discard # 0)
         /\ torn' \in BOOLEAN /\ (torn => torn')
         /\ ~torn' => BatchMemory = mem /\ curPos' = curPos
         /\ Discard = 0 => curPos' = curPos /\ torn' = torn
         /\ \E o \in DecodeOutcomes(BatchMemory, prompt.start + prompt.at, BatchSize, role,
                                    batchCapacity) : o.ok = ok /\ mem' = o.mem
         /\ prompt' = IF ok THEN [prompt EXCEPT !.at = @ + batchCapacity] ELSE NoPrompt
         /\ UNCHANGED <<resources, sysPos, stopPos>>
<1>. USE DEF EngineInv
<1>. DEFINE full == prompt.start + prompt.at + BatchSize >= Limit
<1>1. /\ Busy /\ prompt.role = role /\ prompt.at < prompt.size
      /\ \E o \in DecodeOutcomes(BatchMemory, prompt.start + prompt.at, BatchSize, role,
                                 batchCapacity) : o.ok = ok /\ mem' = o.mem
      /\ curPos' = IF full THEN curPos - Discard ELSE curPos
      /\ torn' = (torn \/ (full /\ Discard > 0))
      /\ prompt' = IF ok THEN [prompt EXCEPT !.at = @ + batchCapacity] ELSE NoPrompt
      /\ UNCHANGED <<resources, sysPos, stopPos>>
  BY DEF decodeBatch, BatchSize, BatchMemory
<1>2. /\ prompt \in Prompts /\ prompt.at \in Nat /\ prompt.size \in Nat /\ prompt.start \in Nat
      /\ batchCapacity \in Nat \ {0}
      /\ torn \in BOOLEAN /\ sysPos \in Nat /\ curPos \in Nat
      /\ GoodMemory(mem)
  BY LimitPositive DEF SessionTypes, Prompts
<1>3. BatchSize \in Nat \ {0} /\ BatchSize = IF prompt.size - prompt.at <= batchCapacity
                                             THEN prompt.size - prompt.at ELSE batchCapacity
  BY <1>1, <1>2, MinOfTwo DEF BatchSize
<1>4. Min({prompt.at, prompt.size}) = prompt.at
  BY <1>1, <1>2, MinOfTwo
<1>5. Min({prompt.at + batchCapacity, prompt.size}) = prompt.at + BatchSize
  BY <1>1, <1>2, <1>3, MinOfTwo
<1>6. /\ Discard \in Nat
      /\ sysPos + Discard <= curPos
      /\ Shifted = Shift(mem, sysPos, Discard, curPos)
  BY DiscardFacts
<1>7. /\ GoodMemory(Shifted)
      /\ SystemPart(mem, sysPos) => SystemPart(Shifted, sysPos)
      /\ Discard = 0 => Shifted = mem
  BY <1>2, <1>6, ShiftHeld, ShiftSystem, ShiftNothing
<1>8. /\ GoodMemory(BatchMemory)
      /\ SystemPart(mem, sysPos) => SystemPart(BatchMemory, sysPos)
      /\ Discard = 0 => BatchMemory = mem
      /\ ~full => BatchMemory = mem
  BY <1>2, <1>7 DEF BatchMemory
<1>10. \/ full /\ curPos' = curPos - Discard /\ torn' = (torn \/ Discard > 0)
       \/ ~full /\ curPos' = curPos /\ torn' = torn
  BY <1>1, <1>2
<1>. HIDE DEF full
<1>9. /\ curPos' \in Nat /\ sysPos <= curPos'
      /\ curPos' = curPos \/ (torn' /\ Discard # 0)
      /\ torn' \in BOOLEAN /\ (torn => torn')
      /\ ~torn' => BatchMemory = mem /\ curPos' = curPos
      /\ Discard = 0 => curPos' = curPos /\ torn' = torn
  <2>1. curPos' \in Nat /\ sysPos <= curPos'
    BY <1>2, <1>6, <1>10
  <2>2. CASE Discard = 0
    <3>1. curPos' = curPos /\ torn' = torn
      BY <1>2, <1>10, <2>2
    <3>. QED
      BY <1>2, <1>8, <2>1, <2>2, <3>1
  <2>3. CASE Discard # 0
    <3>1. CASE full
      <4>1. Discard > 0
        BY <1>6, <2>3
      <4>2. torn' = (torn \/ Discard > 0)
        BY <1>10, <3>1
      <4>3. torn' = TRUE
        BY <4>1, <4>2, Zenon
      <4>. QED
        BY <2>1, <2>3, <4>3
    <3>2. CASE ~full
      BY <1>2, <1>8, <1>10, <2>1, <2>3, <3>2
    <3>. QED
      BY <3>1, <3>2
  <2>. QED
    BY <2>2, <2>3
<1>. QED
  BY <1>1, <1>2, <1>3, <1>4, <1>5, <1>8, <1>9

(* The prompt after a batch that was decoded.                              *)
LEMMA NextBatch ==
  ASSUME prompt \in Prompts, batchCapacity \in Nat,
         prompt' = [prompt EXCEPT !.at = @ + batchCapacity]
  PROVE  /\ prompt' \in Prompts
         /\ prompt'.role = prompt.role /\ prompt'.size = prompt.size
         /\ prompt'.start = prompt.start /\ prompt'.at = prompt.at + batchCapacity
BY DEF Prompts

(* A batch of the system prompt.                                           *)
LEMMA SystemBatchInv ==
  ASSUME EngineInv, NEW ok \in BOOLEAN, decodeBatch("system", ok),
         state' = IF ok THEN state ELSE "Error",
         UNCHANGED <<ready, cancelGeneration, flow, closing, destroyed, backend>>
  PROVE  EngineInv'
<1>. USE DEF EngineInv
<1>. DEFINE p == prompt.start + prompt.at
<1>1. /\ Busy /\ prompt.role = "system" /\ prompt \in Prompts
      /\ prompt.at \in Nat /\ prompt.size \in Nat
      /\ batchCapacity \in Nat \ {0} /\ BatchSize \in Nat \ {0}
      /\ Min({prompt.at, prompt.size}) = prompt.at
      /\ Min({prompt.at + batchCapacity, prompt.size}) = prompt.at + BatchSize
      /\ Discard = 0 => BatchMemory = mem
      /\ Discard = 0 => curPos' = curPos /\ torn' = torn
      /\ \E o \in DecodeOutcomes(BatchMemory, p, BatchSize, "system", batchCapacity) :
           o.ok = ok /\ mem' = o.mem
      /\ prompt' = IF ok THEN [prompt EXCEPT !.at = @ + batchCapacity] ELSE NoPrompt
      /\ UNCHANGED <<resources, sysPos, stopPos>>
  BY BatchFacts
<1>2. /\ curPos = 0 /\ prompt.start = 0 /\ ~torn
      /\ InOrder(mem, prompt.at)
      /\ \A t \in mem.held : t.role = "system"
  BY <1>1 DEF SystemDecoded
<1>3. sysPos = 0 /\ Discard = 0 /\ p = prompt.at
  BY <1>1, <1>2 DEF SessionTypes, Discard
<1>4. PICK o \in DecodeOutcomes(mem, prompt.at, BatchSize, "system", batchCapacity) :
        o.ok = ok /\ mem' = o.mem
  BY <1>1, <1>3
<1>5. GoodMemory(mem) /\ "system" \in Roles
  BY DEF SessionTypes, Roles
<1>6. /\ GoodMemory(mem')
      /\ mem'.held \subseteq mem.held \union BatchTokens(prompt.at, BatchSize, "system")
      /\ ok => InOrder(mem', prompt.at + BatchSize)
  <2>1. /\ GoodMemory(o.mem)
        /\ o.mem.held \subseteq mem.held \union BatchTokens(prompt.at, BatchSize, "system")
        /\ \E j \in 0 .. BatchSize : InOrder(o.mem, prompt.at + j) /\ (o.ok => j = BatchSize)
    BY <1>1, <1>2, <1>4, <1>5, DecodeFacts
  <2>. QED
    BY <1>4, <2>1
<1>7. \A t \in mem'.held : t.role = "system"
  BY <1>2, <1>6 DEF BatchTokens
<1>8. prompt' \in Prompts
  BY <1>1, NextBatch, NoPromptFacts
<1>9. curPos' = curPos /\ torn' = torn
  BY <1>1, <1>3
<1>10. SessionTypes'
  BY <1>1, <1>6, <1>8, <1>9 DEF SessionTypes, resources
<1>11. CASE ok
  <2>1. /\ prompt'.role = "system" /\ prompt'.size = prompt.size /\ prompt'.start = 0
        /\ prompt'.at = prompt.at + batchCapacity
    BY <1>1, <1>2, <1>11, NextBatch
  <2>2. Busy'
    BY <1>1, <2>1 DEF Busy
  <2>3. InOrder(mem', Min({prompt'.at, prompt'.size}))
    BY <1>1, <1>6, <1>11, <2>1
  <2>4. SystemDecoded'
    BY <1>2, <1>7, <1>9, <2>1, <2>3 DEF SystemDecoded
  <2>5. UNCHANGED <<state, ready, cancelGeneration, flow, closing, destroyed, backend, model, context>>
    BY <1>1, <1>11 DEF resources
  <2>6. state = "ProcessingSystemPrompt"
    BY <1>1 DEF OneOperation
  <2>. QED
    BY <1>1, <1>2, <1>9, <1>10, <2>1, <2>2, <2>4, <2>5, <2>6 DEF LifecycleTypes, OneOperation,
       StatesMean, FreshModelGenerates, NothingCounted, UserDecoded, Settled
<1>12. CASE ~ok
  <2>1. ~Busy'
    BY <1>1, <1>12, NoPromptFacts DEF Busy
  <2>2. state' = "Error" /\ ~destroyed' /\ flow' = "none" /\ ~ready' /\ backend'
    BY <1>1, <1>12 DEF OneOperation, StatesMean
  <2>. QED
    BY <1>2, <1>9, <1>10, <2>1, <2>2 DEF LifecycleTypes, States, OneOperation, StatesMean,
       FreshModelGenerates, NothingCounted, SystemDecoded, UserDecoded, Settled, Loaded
<1>. QED
  BY <1>11, <1>12

(* All of it is decoded: it is the system prompt.                          *)
LEMMA SystemDoneInv ==
  ASSUME EngineInv, systemPromptDone, state' = "ModelReady",
         UNCHANGED <<ready, cancelGeneration, flow, closing, destroyed, backend>>
  PROVE  EngineInv'
<1>. USE DEF EngineInv
<1>1. /\ Busy /\ prompt.role = "system" /\ prompt.at >= prompt.size
      /\ sysPos' = prompt.size /\ curPos' = prompt.size /\ prompt' = NoPrompt
      /\ UNCHANGED <<resources, mem, stopPos, torn>>
  BY DEF systemPromptDone
<1>2. prompt.at \in Nat /\ prompt.size \in Nat
  BY LimitPositive DEF SessionTypes, Prompts
<1>3. Min({prompt.at, prompt.size}) = prompt.size
  BY <1>1, <1>2, MinOfTwo
<1>4. /\ InOrder(mem, prompt.size) /\ ~torn
      /\ \A t \in mem.held : t.role = "system"
  BY <1>1, <1>3 DEF SystemDecoded
<1>5. SystemPart(mem, prompt.size)
  BY <1>4 DEF SystemPart, InOrder, Positions
<1>6. ~Busy' /\ prompt' \in Prompts
  BY <1>1, NoPromptFacts DEF Busy
<1>7. SessionTypes'
  BY <1>1, <1>2, <1>6 DEF SessionTypes, resources
<1>8. ~destroyed' /\ flow' = "none" /\ backend' /\ model' = "live" /\ context' = "live"
      /\ ~ready'
  BY <1>1 DEF OneOperation, StatesMean, resources, Loaded
<1>9. Settled'
  BY <1>1, <1>4, <1>5 DEF Settled
<1>. QED
  BY <1>6, <1>7, <1>8, <1>9 DEF LifecycleTypes, States, OneOperation, StatesMean,
     FreshModelGenerates, NothingCounted, SystemDecoded, UserDecoded, Loaded

(* A batch of a user prompt.                                               *)
LEMMA UserBatchInv ==
  ASSUME EngineInv, NEW ok \in BOOLEAN, decodeBatch("user", ok),
         UNCHANGED <<state, ready, cancelGeneration, flow, closing, destroyed, backend>>
  PROVE  EngineInv'
<1>. USE DEF EngineInv
<1>. DEFINE p == prompt.start + prompt.at
<1>1. /\ Busy /\ prompt.role = "user" /\ prompt \in Prompts
      /\ prompt.at \in Nat /\ prompt.size \in Nat /\ prompt.start \in Nat
      /\ batchCapacity \in Nat \ {0} /\ BatchSize \in Nat \ {0}
      /\ Min({prompt.at, prompt.size}) = prompt.at
      /\ Min({prompt.at + batchCapacity, prompt.size}) = prompt.at + BatchSize
      /\ GoodMemory(BatchMemory)
      /\ SystemPart(mem, sysPos) => SystemPart(BatchMemory, sysPos)
      /\ curPos' \in Nat /\ sysPos <= curPos'
      /\ torn' \in BOOLEAN /\ (torn => torn')
      /\ ~torn' => BatchMemory = mem /\ curPos' = curPos
      /\ prompt' = IF ok THEN [prompt EXCEPT !.at = @ + batchCapacity] ELSE NoPrompt
      /\ UNCHANGED <<resources, sysPos, stopPos>>
  BY BatchFacts
<1>2. PICK o \in DecodeOutcomes(BatchMemory, p, BatchSize, "user", batchCapacity) :
        o.ok = ok /\ mem' = o.mem
  BY BatchFacts
<1>3. /\ sysPos <= prompt.start
      /\ SystemPart(mem, sysPos)
      /\ ~torn => prompt.start = curPos /\ InOrder(mem, curPos + prompt.at)
  BY <1>1 DEF UserDecoded
<1>4. sysPos \in Nat /\ curPos \in Nat /\ p \in Nat /\ sysPos <= p /\ "user" \in Roles
  BY <1>1, <1>3 DEF SessionTypes, Roles
<1>. HIDE DEF p
<1>5. GoodMemory(mem') /\ SystemPart(mem', sysPos)
  BY <1>1, <1>2, <1>3, <1>4, DecodeFacts, DecodeSystem
<1>6. ok /\ ~torn' => InOrder(mem', p + BatchSize)
  <2>1. ~torn' => InOrder(BatchMemory, p)
    BY <1>1, <1>3 DEF p
  <2>2. InOrder(BatchMemory, p) =>
          \E j \in 0 .. BatchSize : InOrder(o.mem, p + j) /\ (o.ok => j = BatchSize)
    BY <1>1, <1>2, <1>4, DecodeFacts
  <2>. QED
    BY <1>2, <2>1, <2>2
<1>7. prompt' \in Prompts
  BY <1>1, NextBatch, NoPromptFacts
<1>8. SessionTypes'
  BY <1>1, <1>5, <1>7 DEF SessionTypes, resources
<1>9. state = "ProcessingUserPrompt" /\ ~destroyed /\ flow = "none"
  BY <1>1 DEF OneOperation
<1>10. (LifecycleTypes /\ StatesMean /\ FreshModelGenerates /\ NothingCounted /\ Settled)'
  BY <1>1, <1>9 DEF resources, LifecycleTypes, StatesMean, FreshModelGenerates, NothingCounted,
     Settled, Loaded
<1>11. CASE ok
  <2>1. /\ prompt'.role = "user" /\ prompt'.size = prompt.size /\ prompt'.start = prompt.start
        /\ prompt'.at = prompt.at + batchCapacity
    BY <1>1, <1>11, NextBatch
  <2>2. Busy'
    BY <1>1, <2>1 DEF Busy
  <2>3. ASSUME ~torn'
        PROVE  /\ prompt'.start = curPos'
               /\ InOrder(mem', curPos' + Min({prompt'.at, prompt'.size}))
    <3>1. curPos' = curPos /\ prompt.start = curPos /\ ~torn
      BY <1>1, <1>3, <2>3
    <3>2. Min({prompt'.at, prompt'.size}) = prompt.at + BatchSize
      BY <1>1, <2>1
    <3>3. p + BatchSize = curPos' + (prompt.at + BatchSize)
      BY <1>1, <1>4, <3>1 DEF p
    <3>. QED
      BY <1>6, <1>11, <2>1, <2>3, <3>1, <3>2, <3>3
  <2>4. UserDecoded'
    BY <1>1, <1>3, <1>5, <2>1, <2>3 DEF UserDecoded
  <2>. QED
    BY <1>8, <1>9, <1>10, <2>1, <2>2, <2>4 DEF OneOperation, SystemDecoded
<1>12. CASE ~ok
  <2>1. ~Busy'
    BY <1>1, <1>12, NoPromptFacts DEF Busy
  <2>. QED
    BY <1>8, <1>9, <1>10, <2>1 DEF OneOperation, SystemDecoded, UserDecoded
<1>. QED
  BY <1>11, <1>12

(* All of it is decoded and the answer begins.                             *)
LEMMA UserDoneInv ==
  ASSUME EngineInv, userPromptDone, state' = "Generating", flow' = "running",
         UNCHANGED <<ready, cancelGeneration, closing, destroyed, backend>>
  PROVE  EngineInv'
<1>. USE DEF EngineInv
<1>1. /\ Busy /\ prompt.role = "user" /\ prompt.at >= prompt.size
      /\ curPos' = curPos + prompt.size
      /\ stopPos' = curPos + prompt.size + prompt.size + prompt.predict
      /\ prompt' = NoPrompt
      /\ UNCHANGED <<resources, mem, sysPos, torn>>
  BY DEF userPromptDone
<1>2. prompt.at \in Nat /\ prompt.size \in Nat /\ prompt.predict \in Nat
  BY LimitPositive DEF SessionTypes, Prompts
<1>3. Min({prompt.at, prompt.size}) = prompt.size
  BY <1>1, <1>2, MinOfTwo
<1>4. /\ SystemPart(mem, sysPos)
      /\ ~torn => InOrder(mem, curPos + prompt.size)
  BY <1>1, <1>3 DEF UserDecoded
<1>5. ~Busy' /\ prompt' \in Prompts
  BY <1>1, NoPromptFacts DEF Busy
<1>6. SessionTypes'
  BY <1>1, <1>2, <1>5 DEF SessionTypes, resources
<1>7. ~destroyed' /\ backend' /\ model' = "live" /\ context' = "live" /\ ~ready'
  BY <1>1 DEF OneOperation, StatesMean, resources, Loaded
<1>8. Settled'
  BY <1>1, <1>4 DEF Settled
<1>. QED
  BY <1>5, <1>6, <1>7, <1>8 DEF LifecycleTypes, States, OneOperation, StatesMean,
     FreshModelGenerates, NothingCounted, SystemDecoded, UserDecoded, Loaded

-----------------------------------------------------------------------------
(* The answer.                                                             *)

(* generateNextToken shifts a full context, decodes its token behind what  *)
(* is there, and counts it if that succeeded.                              *)
LEMMA TokenFacts ==
  ASSUME SessionTypes, SystemPart(mem, sysPos), ~torn => InOrder(mem, curPos),
         NEW token, generateNextToken(token)
  PROVE  /\ SessionTypes'
         /\ SystemPart(mem', sysPos')
         /\ ~torn' => InOrder(mem', curPos')
         /\ UNCHANGED <<resources, stopPos, prompt, torn>>
<1>. DEFINE full == curPos >= Limit
            m == IF full THEN Shifted ELSE mem
            p == IF full THEN curPos - Discard ELSE curPos
<1>1. UNCHANGED <<resources, sysPos, stopPos, prompt, torn>>
  BY DEF generateNextToken
<1>2. \/ mem' = m /\ curPos' = p
      \/ \E o \in DecodeOutcomes(m, p, 1, "assistant", 1) :
           mem' = o.mem /\ curPos' = IF o.ok THEN p + 1 ELSE p
  BY DEF generateNextToken
<1>3. /\ Discard \in Nat
      /\ sysPos + Discard <= curPos
      /\ Shifted = Shift(mem, sysPos, Discard, curPos)
  BY DiscardFacts
<1>4. sysPos \in Nat /\ curPos \in Nat /\ GoodMemory(mem) /\ sysPos <= curPos
  BY DEF SessionTypes
<1>5. /\ GoodMemory(Shifted) /\ SystemPart(Shifted, sysPos)
      /\ ~torn => InOrder(Shifted, curPos - Discard)
  BY <1>3, <1>4, ShiftHeld, ShiftSystem, ShiftInOrder
<1>6. /\ GoodMemory(m) /\ SystemPart(m, sysPos)
      /\ ~torn => InOrder(m, p)
      /\ p \in Nat /\ sysPos <= p
  BY <1>3, <1>4, <1>5
<1>. HIDE DEF m, p, full
<1>7. /\ GoodMemory(mem') /\ SystemPart(mem', sysPos)
      /\ ~torn => InOrder(mem', curPos')
      /\ curPos' \in Nat /\ sysPos <= curPos'
  <2>1. CASE mem' = m /\ curPos' = p
    BY <1>6, <2>1
  <2>2. ASSUME NEW o \in DecodeOutcomes(m, p, 1, "assistant", 1),
               mem' = o.mem, curPos' = IF o.ok THEN p + 1 ELSE p
        PROVE  /\ GoodMemory(mem') /\ SystemPart(mem', sysPos)
               /\ ~torn => InOrder(mem', curPos')
               /\ curPos' \in Nat /\ sysPos <= curPos'
    <3>1. "assistant" \in Roles
      BY DEF Roles
    <3>2. /\ o.ok \in BOOLEAN
          /\ GoodMemory(o.mem)
          /\ InOrder(m, p) => \E j \in 0 .. 1 : /\ InOrder(o.mem, p + j)
                                                /\ o.ok => j = 1
                                                /\ ~o.ok => j = 0
      BY <1>6, <3>1, DecodeFacts
    <3>3. SystemPart(o.mem, sysPos)
      BY <1>4, <1>6, <3>1, DecodeSystem
    <3>4. CASE o.ok
      BY <1>4, <1>6, <2>2, <3>2, <3>3, <3>4
    <3>5. CASE ~o.ok
      <4>1. InOrder(m, p) => InOrder(o.mem, p)
        BY <1>6, <3>2, <3>5
      <4>. QED
        BY <1>4, <1>6, <2>2, <3>2, <3>3, <3>5, <4>1
    <3>. QED
      BY <3>2, <3>4, <3>5
  <2>. QED
    BY <1>2, <2>1, <2>2
<1>8. SessionTypes'
  BY <1>1, <1>7 DEF SessionTypes, resources
<1>. QED
  BY <1>1, <1>7, <1>8

(* A round of the loop.                                                    *)
LEMMA GenerateInv ==
  ASSUME EngineInv, NEW token \in {"null", "part", "text"}, GenerateStep(token)
  PROVE  EngineInv'
<1>. USE DEF EngineInv
<1>1. /\ ~destroyed /\ state = "Generating" /\ flow = "running" /\ ~Busy /\ ~ready
      /\ SystemPart(mem, sysPos) /\ (~torn => InOrder(mem, curPos))
  BY DEF GenerateStep, OneOperation, StatesMean, Settled
<1>2. /\ SessionTypes'
      /\ SystemPart(mem', sysPos')
      /\ ~torn' => InOrder(mem', curPos')
      /\ UNCHANGED <<resources, stopPos, prompt, torn>>
  BY <1>1, TokenFacts DEF GenerateStep
<1>3. ~Busy'
  BY <1>1, <1>2 DEF Busy
<1>4. /\ UNCHANGED <<ready, cancelGeneration, closing, destroyed, backend>>
      /\ \/ flow' = "none" /\ state' = "ModelReady"
         \/ flow' \in {"running", "suspended"} /\ state' = "Generating"
  BY <1>1 DEF GenerateStep
<1>5. Settled'
  BY <1>2 DEF Settled
<1>. QED
  BY <1>1, <1>2, <1>3, <1>4, <1>5 DEF resources, LifecycleTypes, States, OneOperation,
     StatesMean, FreshModelGenerates, NothingCounted, SystemDecoded, UserDecoded, Loaded

-----------------------------------------------------------------------------
(* The theorems.                                                           *)

(* EngineInv is inductive.                                                 *)
LEMMA StepInv == EngineInv /\ [EngineNext]_chatVars => EngineInv'
<1>. SUFFICES ASSUME EngineInv, [EngineNext]_chatVars
              PROVE  EngineInv'
  OBVIOUS
<1>1. CASE Initialize \/ Resume \/ GenerationAborted
  BY <1>1, LifecycleStepInv
<1>2. CASE ClientStep
  BY <1>2, LifecycleStepInv, ConfigureInv, SetSystemInv, SendUserInv DEF ClientStep
<1>3. CASE Loading
  BY <1>3, LoadInv DEF Loading
<1>4. CASE SystemPromptStep
  <2>1. CASE decodeBatch("system", TRUE) /\ UNCHANGED state
    BY <1>4, <2>1, SystemBatchInv DEF SystemPromptStep
  <2>2. CASE decodeBatch("system", FALSE) /\ state' = "Error"
    BY <1>4, <2>2, SystemBatchInv DEF SystemPromptStep
  <2>3. CASE systemPromptDone /\ state' = "ModelReady"
    BY <1>4, <2>3, SystemDoneInv DEF SystemPromptStep
  <2>. QED
    BY <1>4, <2>1, <2>2, <2>3 DEF SystemPromptStep
<1>5. CASE UserPromptStep
  <2>1. ASSUME NEW ok \in BOOLEAN, decodeBatch("user", ok), UNCHANGED <<state, flow>>
        PROVE  EngineInv'
    BY <1>5, <2>1, UserBatchInv DEF UserPromptStep
  <2>2. CASE userPromptDone /\ state' = "Generating" /\ flow' = "running"
    BY <1>5, <2>2, UserDoneInv DEF UserPromptStep
  <2>. QED
    BY <1>5, <2>1, <2>2 DEF UserPromptStep
<1>6. ASSUME NEW token \in {"null", "part", "text"}, GenerateStep(token)
      PROVE  EngineInv'
  BY <1>6, GenerateInv
<1>7. CASE CloseStep
  BY <1>7, CloseInv DEF CloseStep
<1>8. CASE UNCHANGED chatVars
  BY <1>8 DEF chatVars, resources, session, lifecycle, EngineInv, SessionTypes, LifecycleTypes,
     OneOperation, StatesMean, FreshModelGenerates, NothingCounted, SystemDecoded, UserDecoded,
     Settled, Busy
<1>. QED
  BY <1>1, <1>2, <1>3, <1>4, <1>5, <1>6, <1>7, <1>8 DEF EngineNext, PromptStep, LoopStep

(* Every behaviour of the engine keeps the invariant.                      *)
THEOREM EngineInvariance == EngineSpec => []EngineInv
BY InitInv, StepInv, PTL DEF EngineSpec

(* Types: no operation leaves a negative position, a batch of no tokens or *)
(* more tokens than cells behind.                                          *)
THEOREM ChatTypeCorrect == EngineSpec => []EngineTypeOK
<1>1. EngineInv => EngineTypeOK
  BY GoodIsMemory DEF EngineInv, SessionTypes, LifecycleTypes, EngineTypeOK, Prompts
<1>. QED
  BY <1>1, EngineInvariance, PTL

(* The context holds one token at every position before current_position   *)
(* whenever a prompt can be sent or an answer is generated, for every size *)
(* of context, batch and prompt and any number of shifts, as long as no    *)
(* prompt was shifted under its own batches.                               *)
THEOREM CacheStaysInStep == EngineSpec => []CacheInStep
<1>1. EngineInv => CacheInStep
  BY InOrderHolds DEF EngineInv, SessionTypes, Settled, CacheInStep, ProperPositions
<1>. QED
  BY <1>1, EngineInvariance, PTL

(* shift_context never touches the system prompt, also when it tears the   *)
(* user prompt that is being decoded.                                      *)
THEOREM SystemPromptKept == EngineSpec => []SystemPromptStays
<1>1. EngineInv => SystemPromptStays
  BY DEF EngineInv, Settled, SystemPromptStays, SystemPart
<1>. QED
  BY <1>1, EngineInvariance, PTL

(* A state of a loaded model, a prompt or an answer under way: the model,  *)
(* its context and the backend are there.                                  *)
THEOREM LoadedLive == EngineSpec => []LoadedIsLive
<1>1. EngineInv => LoadedIsLive
  BY DEF EngineInv, OneOperation, StatesMean, LoadedIsLive, Loaded
<1>. QED
  BY <1>1, EngineInvariance, PTL

(* A request to cancel does not outlive the loading of the next model.     *)
THEOREM FreshModelAnswers == EngineSpec => []FreshModelGenerates
<1>1. EngineInv => FreshModelGenerates
  BY DEF EngineInv
<1>. QED
  BY <1>1, EngineInvariance, PTL
=============================================================================
