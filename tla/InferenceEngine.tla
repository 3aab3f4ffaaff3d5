--------------------------- MODULE InferenceEngine ---------------------------
(***************************************************************************)
(* InferenceEngineImpl on top of ChatSession: the lifecycle states, the    *)
(* single-threaded dispatcher and the flow that emits an answer.           *)
(*                                                                         *)
(* The dispatcher runs one operation at a time, in the order of the calls. *)
(* Loading, a prompt or a generation keeps it until it has ended or emit   *)
(* suspends.  cleanUp and destroy may be called at any time, by one thread *)
(* at once: they raise _cancelGeneration on the caller's thread and block  *)
(* until the dispatcher has run their part; a call that comes later waits  *)
(* behind them.  The other operations are called when the last has ended.  *)
(*                                                                         *)
(* There is one engine at a time: getInstance does not look at instance    *)
(* again inside synchronized, so that two first calls at once would make   *)
(* two engines on the same native globals; that is left out.               *)
(*                                                                         *)
(* A library that cannot be loaded ends the process and is left out, as is *)
(* a benchmark that overfills g_batch (GGML_ASSERT).  Using memory that    *)
(* unload has freed is undefined; the model goes on.                       *)
(***************************************************************************)
EXTENDS ChatSession

CONSTANTS
  ContextSizes,     \* the n_ctx clients ask for
  SystemSizes,      \* tokens of a system prompt
  UserSizes,        \* tokens of a user prompt
  PredictLengths

ASSUME EngineInputs ==
  /\ ContextSizes \subseteq Nat
  /\ SystemSizes \subseteq Nat \ {0}
  /\ UserSizes \subseteq Nat \ {0}
  /\ PredictLengths \subseteq Nat

VARIABLES
  state,              \* _state
  ready,              \* _readyForSystemPrompt
  cancelGeneration,   \* _cancelGeneration
  flow,               \* the flow of sendUserPrompt: "none", "running" or "suspended"
  closing,            \* the client is inside "cleanUp" or "destroy", or not ("no")
  destroyed,
  backend             \* the ggml backends are initialised

lifecycle == <<state, ready, cancelGeneration, flow, closing, destroyed, backend>>
chatVars == <<resources, session, lifecycle>>

States ==
  {"Uninitialized", "Initialized", "LoadingModel", "ModelReady", "ProcessingSystemPrompt",
   "ProcessingUserPrompt", "Generating", "Error"}

EngineInit ==
  /\ SessionInit
  /\ state = "Uninitialized"
  /\ ready = FALSE
  /\ cancelGeneration = FALSE
  /\ flow = "none"
  /\ closing = "no"
  /\ destroyed = FALSE
  /\ backend = FALSE

(* The dispatcher can take the next operation; the init block was the      *)
(* first.                                                                  *)
DispatcherFree ==
  /\ ~Busy /\ flow # "running" /\ ~destroyed
  /\ state \notin {"Uninitialized", "LoadingModel"}

(* A call is taken at once, unless cleanUp or destroy is before it.        *)
Accepts == DispatcherFree /\ closing = "no"

(* The init block.                                                         *)
Initialize ==
  /\ state = "Uninitialized" /\ ~destroyed
  /\ state' = "Initialized"
  /\ backend' = TRUE
  /\ UNCHANGED <<resources, session, ready, cancelGeneration, flow, closing, destroyed>>

configureRuntime(n) ==
  /\ Accepts
  /\ state = "Initialized"
  /\ configureGeneration(n)
  /\ UNCHANGED lifecycle

(* The file is missing, or loading begins.                                 *)
loadModel(exists) ==
  /\ Accepts
  /\ state = "Initialized"
  /\ state' = IF exists THEN "LoadingModel" ELSE "Error"
  /\ ready' = (ready /\ ~exists)
  /\ UNCHANGED <<resources, session, cancelGeneration, flow, closing, destroyed, backend>>

(* Slip: a request to cancel survives the loading of a model.              *)
LoadStepStillCancelled(outcome) ==
  /\ state = "LoadingModel"
  /\ outcome = "ready"
  /\ model' = "live"
  /\ prepare
  /\ ready' = TRUE
  /\ state' = "ModelReady"
  /\ UNCHANGED <<cancelGeneration, flow, closing, destroyed, backend>>

(* It cannot be loaded, no context can be made for it, or it is ready.     *)
LoadStep(outcome) ==
  /\ state = "LoadingModel"
  /\ model' = IF outcome = "notLoaded" THEN model ELSE "live"
  /\ IF outcome = "ready"
     THEN /\ prepare
          /\ ready' = TRUE
          /\ cancelGeneration' = FALSE
          /\ state' = "ModelReady"
     ELSE /\ state' = "Error"
          /\ UNCHANGED <<context, nCtx, batchCapacity, session, ready, cancelGeneration>>
  /\ UNCHANGED <<flow, closing, destroyed, backend>>

setSystemPrompt(n) ==
  /\ Accepts
  /\ ready
  /\ state = "ModelReady"
  /\ ready' = FALSE
  /\ processSystemPrompt(n)
  /\ state' = IF n > Limit THEN "Error" ELSE "ProcessingSystemPrompt"
  /\ UNCHANGED <<cancelGeneration, flow, closing, destroyed, backend>>

(* The batches of the system prompt; one that fails is an Error.           *)
SystemPromptStep ==
  /\ \/ decodeBatch("system", TRUE) /\ UNCHANGED state
     \/ decodeBatch("system", FALSE) /\ state' = "Error"
     \/ systemPromptDone /\ state' = "ModelReady"
  /\ UNCHANGED <<ready, cancelGeneration, flow, closing, destroyed, backend>>

sendUserPrompt(n, predict) ==
  /\ Accepts
  /\ state = "ModelReady"
  /\ ready' = FALSE
  /\ state' = "ProcessingUserPrompt"
  /\ processUserPrompt(n, predict)
  /\ UNCHANGED <<cancelGeneration, flow, closing, destroyed, backend>>

(* The batches of the user prompt.  One that fails ends the flow and       *)
(* leaves the state as it is.                                              *)
UserPromptStep ==
  /\ \/ decodeBatch("user", TRUE) /\ UNCHANGED <<state, flow>>
     \/ decodeBatch("user", FALSE) /\ UNCHANGED <<state, flow>>
     \/ userPromptDone /\ state' = "Generating" /\ flow' = "running"
  /\ UNCHANGED <<ready, cancelGeneration, closing, destroyed, backend>>

(* One round of the loop.  null ends it; emitting text may suspend it.     *)
GenerateStep(token) ==
  /\ flow = "running"
  /\ ~cancelGeneration
  /\ generateNextToken(token)
  /\ \/ token = "null" /\ flow' = "none" /\ state' = "ModelReady"
     \/ token = "part" /\ UNCHANGED <<flow, state>>
     \/ token = "text" /\ flow' \in {"running", "suspended"} /\ UNCHANGED state
  /\ UNCHANGED <<ready, cancelGeneration, closing, destroyed, backend>>

GenerationAborted ==
  /\ flow = "running"
  /\ cancelGeneration
  /\ flow' = "none"
  /\ state' = "ModelReady"
  /\ UNCHANGED <<resources, session, ready, cancelGeneration, closing, destroyed, backend>>

(* The collector has taken the token, or it has gone.                      *)
Resume ==
  /\ DispatcherFree
  /\ flow = "suspended"
  /\ \/ flow' = "running" /\ UNCHANGED state
     \/ flow' = "none" /\ state' = "ModelReady"
  /\ UNCHANGED <<resources, session, ready, cancelGeneration, closing, destroyed, backend>>

(* A benchmark has a context of its own.                                   *)
bench ==
  /\ Accepts
  /\ state = "ModelReady"
  /\ ready' = FALSE
  /\ UNCHANGED <<resources, session, state, cancelGeneration, flow, closing, destroyed, backend>>

-----------------------------------------------------------------------------
(* Slip: the flag is raised on the dispatcher only.                        *)
closeWithoutFlag(call) ==
  /\ closing = "no" /\ ~destroyed
  /\ closing' = call
  /\ UNCHANGED <<resources, session, state, ready, cancelGeneration, flow, destroyed, backend>>

(* cleanUp() or destroy() is called, on the client's thread.               *)
close(call) ==
  /\ closing = "no" /\ ~destroyed
  /\ closing' = call
  /\ cancelGeneration' = TRUE
  /\ UNCHANGED <<resources, session, state, ready, flow, destroyed, backend>>

(* Slip: the model is freed in any state but Error.                        *)
cleanUpAnyState ==
  /\ DispatcherFree
  /\ closing = "cleanUp"
  /\ closing' = "no"
  /\ IF state # "Error" THEN unload ELSE UNCHANGED <<resources, session>>
  /\ ready' = IF state = "ModelReady" THEN FALSE ELSE ready
  /\ state' = IF state \in {"ModelReady", "Error"} THEN "Initialized" ELSE state
  /\ UNCHANGED <<cancelGeneration, flow, destroyed, backend>>

(* The dispatcher's part: unload, reset an error, or throw.                *)
cleanUp ==
  /\ DispatcherFree
  /\ closing = "cleanUp"
  /\ closing' = "no"
  /\ IF state = "ModelReady" THEN unload ELSE UNCHANGED <<resources, session>>
  /\ ready' = IF state = "ModelReady" THEN FALSE ELSE ready
  /\ state' = IF state \in {"ModelReady", "Error"} THEN "Initialized" ELSE state
  /\ UNCHANGED <<cancelGeneration, flow, destroyed, backend>>

(* A flow that is suspended finds the flag raised when it resumes and does *)
(* not call the native code again.                                         *)
destroy ==
  /\ DispatcherFree
  /\ closing = "destroy"
  /\ closing' = "no"
  /\ ready' = FALSE
  /\ IF state = "Initialized" THEN UNCHANGED <<resources, session>> ELSE unload
  /\ backend' = FALSE
  /\ flow' = "none"
  /\ destroyed' = TRUE
  /\ UNCHANGED <<state, cancelGeneration>>

(* getInstance after destroy has cleared instance: a new engine on the     *)
(* same native globals.  While there is an instance it is returned.        *)
getInstance ==
  /\ destroyed
  /\ destroyed' = FALSE
  /\ state' = "Uninitialized"
  /\ ready' = FALSE
  /\ cancelGeneration' = FALSE
  /\ UNCHANGED <<resources, session, flow, closing, backend>>

-----------------------------------------------------------------------------
(* What the client asks for.                                               *)
ClientStep ==
  \/ \E n \in ContextSizes : configureRuntime(n)
  \/ \E exists \in BOOLEAN : loadModel(exists)
  \/ \E n \in SystemSizes : setSystemPrompt(n)
  \/ \E n \in UserSizes, predict \in PredictLengths : sendUserPrompt(n, predict)
  \/ bench
  \/ \E call \in {"cleanUp", "destroy"} : close(call)
  \/ getInstance

(* What the dispatcher has to do.                                          *)
Loading == \E outcome \in {"notLoaded", "noContext", "ready"} : LoadStep(outcome)
PromptStep == SystemPromptStep \/ UserPromptStep
LoopStep == (\E token \in {"null", "part", "text"} : GenerateStep(token)) \/ GenerationAborted
CloseStep == cleanUp \/ destroy

EngineNext ==
  Initialize \/ ClientStep \/ Loading \/ PromptStep \/ LoopStep \/ Resume \/ CloseStep

(* What the engine may do; what it must do is in MCLlamaClients.           *)
EngineSpec == EngineInit /\ [][EngineNext]_chatVars

-----------------------------------------------------------------------------
(* Types of the session and of the engine.                                 *)
EngineTypeOK ==
  /\ {model, context} \subseteq {"none", "live", "freed"}
  /\ nCtx \in Nat \ {0} /\ batchCapacity \in 1 .. BatchMax
  /\ IsMemory(mem)
  /\ sysPos \in Nat /\ curPos \in Nat /\ stopPos \in Nat
  /\ prompt.size \in 0 .. Limit /\ prompt.at \in Nat /\ prompt.start \in Nat
  /\ torn \in BOOLEAN
  /\ state \in States
  /\ ready \in BOOLEAN /\ cancelGeneration \in BOOLEAN
  /\ flow \in {"none", "running", "suspended"}
  /\ closing \in {"no", "cleanUp", "destroy"}
  /\ destroyed \in BOOLEAN /\ backend \in BOOLEAN

(* decode_tokens_in_batches: "Add tokens to the batch with proper          *)
(* positions".  When a prompt can be sent or an answer is generated the    *)
(* context holds one token at every position before current_position.      *)
ProperPositions ==
  ~destroyed /\ state \in {"ModelReady", "Generating"} => Holds(mem, curPos)

(* The same, with failed decodes, aborted answers and any number of        *)
(* shifts while an answer is generated, as long as no prompt was shifted   *)
(* under its own batches.                                                  *)
CacheInStep == ~torn => ProperPositions

(* The system prompt is never lost: its tokens are where they were put, at *)
(* the front, and nowhere else, however often the context was shifted.     *)
SystemPromptStays ==
  ~destroyed /\ state \in {"ModelReady", "Generating"} =>
    {t.pos : t \in {u \in mem.held : u.role = "system"}} = 0 .. sysPos - 1

Loaded == {"ModelReady", "ProcessingSystemPrompt", "ProcessingUserPrompt", "Generating"}

(* isModelLoaded can be trusted: in these states, and whenever a prompt or *)
(* an answer is under way, the model and its context are allocated and the *)
(* backend is up; cleanUp and destroy come in between operations only.     *)
LoadedIsLive ==
  (~destroyed /\ state \in Loaded) \/ Busy \/ flow # "none"
    => model = "live" /\ context = "live" /\ backend

(* A model that was just loaded answers: the request to cancel that ended  *)
(* the last one is taken back, unless somebody is closing the engine now.  *)
FreshModelGenerates == ready => ~cancelGeneration \/ closing # "no"

(* An answer comes to its end if the stop position lies before the point   *)
(* where the context is shifted, or the context ends before it.            *)
GenerationEnds ==
  (flow # "none" /\ (stopPos < Limit \/ mem.size < Limit)) ~> flow = "none"

(* cleanUp and destroy return, whatever the dispatcher is doing: an answer *)
(* that goes on without ever suspending sees the flag.                     *)
CloseReturns == closing # "no" ~> closing = "no"
=============================================================================
