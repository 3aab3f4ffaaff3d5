--------------------------- MODULE IosLlamaContext ---------------------------
(***************************************************************************)
(* The iOS side: completeJson of IOSLlamaBridge and the actor LlamaContext *)
(* of LibLlama.swift.  A lock admits one completion at a time; its Task    *)
(* awaits clear, configureGeneration, completion_init and then             *)
(* completion_loop until the loop says it is done or enough text has come. *)
(* llama_decode may fail in both, and both go on.                          *)
(*                                                                         *)
(* A prompt is its number of tokens and the text its number of characters; *)
(* a token whose bytes do not complete a character adds none.              *)
(***************************************************************************)
EXTENDS KvCache

CONSTANTS
  Models,            \* the model files
  IosContext,        \* n_ctx, 2048
  BatchCapacity,     \* LLAMA_BATCH_CAPACITY, 2048
  UBatch,            \* n_ubatch of llama_context_default_params, 512
  MinLength,         \* the least n_len, 64
  CharsPerToken,     \* text that ends the loop, per maxTokens: 8
  MaxTokens,         \* the maxTokens completions are asked for
  IosPromptSizes,    \* tokens of a prompt, never 0: BOS is added
  MaxCur             \* bound: n_cur is not counted beyond this

ASSUME IosConstants ==
  /\ {IosContext, BatchCapacity, UBatch} \subseteq Nat \ {0}
  /\ {MinLength, CharsPerToken, MaxCur} \subseteq Nat
  /\ MaxTokens \subseteq Nat
  /\ IosPromptSizes \subseteq Nat \ {0}
  /\ \A n \in MaxTokens \union IosPromptSizes \union {MinLength} : n < MaxCur
  /\ ContextSize(IosContext) <= MaxCur

VARIABLES
  currentModel,   \* currentModelPath, "" while there is no context
  kv,             \* the memory of the context
  task,           \* where the Task of completeJson is
  promptTokens,   \* tokens_list.count
  maxTokens,
  nLen,           \* n_len
  nCur,           \* n_cur
  nDecode,        \* n_decode, of which the parity is kept: every round is a step
  isDone,         \* is_done
  aggregated,     \* aggregated.count
  evaluated       \* no llama_decode of this completion has failed (not in the code)

iosVars ==
  <<currentModel, kv, task, promptTokens, maxTokens, nLen, nCur, nDecode, isDone, aggregated,
    evaluated>>

IosInit ==
  /\ currentModel = ""
  /\ kv = NewMemory(0)
  /\ task = "idle"
  /\ promptTokens = 0 /\ maxTokens = 0
  /\ nLen = 0 /\ nCur = 0 /\ nDecode = 0
  /\ isDone = FALSE
  /\ aggregated = 0
  /\ evaluated = TRUE

(* ensureContext(): the context of this model is kept, or one is made.     *)
ensureContext(path) ==
  /\ currentModel' = path
  /\ kv' = IF path = currentModel THEN kv ELSE NewMemory(ContextSize(IosContext))

(* The lock is free; a completion that gets no context changes nothing.    *)
completeJson(path, n, max) ==
  /\ task = "idle"
  /\ ensureContext(path)
  /\ task' = "clear"
  /\ promptTokens' = n /\ maxTokens' = max
  /\ UNCHANGED <<nLen, nCur, nDecode, isDone, aggregated, evaluated>>

(* clear() and configureGeneration()                                       *)
configure ==
  /\ task = "clear"
  /\ task' = "init"
  /\ kv' = Clear(kv)
  /\ nLen' = Max({MinLength, maxTokens})
  /\ isDone' = FALSE
  /\ UNCHANGED <<currentModel, promptTokens, maxTokens, nCur, nDecode, aggregated, evaluated>>

(* Slip: tokens that did not fit into the batch are counted.               *)
completionInitAllTokens ==
  /\ task = "init"
  /\ task' = "loop"
  /\ aggregated' = 0
  /\ nCur' = promptTokens
  /\ \E o \in DecodeOutcomes(kv, 0, Min({promptTokens, BatchCapacity}), "user", UBatch) :
       kv' = o.mem /\ evaluated' = o.ok
  /\ UNCHANGED <<currentModel, promptTokens, maxTokens, nLen, nDecode, isDone>>

(* completion_init(): what does not fit into the batch is left out, and a  *)
(* prompt that cannot be decoded counts all the same.                      *)
completionInit ==
  LET n == Min({promptTokens, BatchCapacity})
  IN  /\ task = "init"
      /\ task' = "loop"
      /\ aggregated' = 0
      /\ nCur' = n
      /\ \E o \in DecodeOutcomes(kv, 0, n, "user", UBatch) :
           kv' = o.mem /\ evaluated' = o.ok
      /\ UNCHANGED <<currentModel, promptTokens, maxTokens, nLen, nDecode, isDone>>

(* The text has grown by chars; the loop of completeJson goes on or ends.  *)
Collect(chars, done) ==
  /\ isDone' = done
  /\ IF done \/ aggregated + chars > maxTokens * CharsPerToken
     THEN task' = "idle" /\ aggregated' = 0
     ELSE task' = "loop" /\ aggregated' = aggregated + chars

(* Slip: a token that could not be decoded is not counted.                 *)
completionLoopRetrying(eog, chars) ==
  /\ task = "loop"
  /\ IF eog \/ nCur = nLen
     THEN Collect(chars, TRUE) /\ UNCHANGED <<nCur, nDecode, kv, evaluated>>
     ELSE /\ nDecode' = (nDecode + 1) % 2
          /\ \E o \in DecodeOutcomes(kv, nCur, 1, "assistant", 1) :
               /\ kv' = o.mem
               /\ evaluated' = (evaluated /\ o.ok)
               /\ nCur' = IF o.ok THEN Min({nCur + 1, MaxCur}) ELSE nCur
          /\ Collect(chars, FALSE)
  /\ UNCHANGED <<currentModel, promptTokens, maxTokens, nLen>>

(* completion_loop() and what completeJson does with its text.             *)
completionLoop(eog, chars) ==
  /\ task = "loop"
  /\ IF eog \/ nCur = nLen
     THEN Collect(chars, TRUE) /\ UNCHANGED <<nCur, nDecode, kv, evaluated>>
     ELSE /\ nDecode' = (nDecode + 1) % 2
          /\ nCur' = Min({nCur + 1, MaxCur})
          /\ \E o \in DecodeOutcomes(kv, nCur, 1, "assistant", 1) :
               kv' = o.mem /\ evaluated' = (evaluated /\ o.ok)
          /\ Collect(chars, FALSE)
  /\ UNCHANGED <<currentModel, promptTokens, maxTokens, nLen>>

-----------------------------------------------------------------------------
(* What the Task does by itself; a token has 0, 1 or 2 characters.         *)
TaskStep ==
  \/ configure
  \/ completionInit
  \/ \E eog \in BOOLEAN, chars \in 0 .. 2 : completionLoop(eog, chars)

IosNext ==
  \/ \E path \in Models, n \in IosPromptSizes, max \in MaxTokens :
       completeJson(path, n, max)
  \/ TaskStep

(* The completion by itself, as far as safety goes.                        *)
IosSpec == IosInit /\ [][IosNext]_iosVars

-----------------------------------------------------------------------------
(* Types of the completion.                                                *)
IosTypeOK ==
  /\ currentModel \in Models \union {""}
  /\ IsMemory(kv)
  /\ task \in {"idle", "clear", "init", "loop"}
  /\ promptTokens \in Nat /\ maxTokens \in Nat /\ nLen \in Nat
  /\ nCur \in 0 .. MaxCur /\ nDecode \in 0 .. 1
  /\ isDone \in BOOLEAN
  /\ aggregated \in Nat
  /\ evaluated \in BOOLEAN

(* While every llama_decode of a completion has succeeded, the context     *)
(* holds the prompt and the text up to n_cur and nothing of an earlier     *)
(* completion, also when that one failed half way.                         *)
IosCacheInStep == task = "loop" /\ evaluated => Holds(kv, nCur)

(* A completion whose prompt is not longer than n_len ends, although n_cur *)
(* is compared for equality, no character may ever come, and a failed      *)
(* llama_decode is passed over.                                            *)
IosCompletionEnds == task = "loop" /\ nCur <= nLen ~> task = "idle"
=============================================================================
