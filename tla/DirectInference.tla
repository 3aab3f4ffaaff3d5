--------------------------- MODULE DirectInference ---------------------------
(***************************************************************************)
(* Inside an inference of the direct bridge: nativeLoadModel and the steps *)
(* of nativeInfer in ai_chat.cpp, with a request to cancel or the end of   *)
(* its time at any moment.  DirectLlamaEngine has the calls around it and  *)
(* what happens when two of them overlap; here an inference has the native *)
(* code to itself.                                                         *)
(*                                                                         *)
(* A prompt is its number of tokens; a generated token is its text, a      *)
(* sequence of characters of JsonScanner.  Chat templates and the sampler  *)
(* are left out.                                                           *)
(***************************************************************************)
EXTENDS KvCache, JsonScanner

CONSTANTS
  DirectContexts,      \* the n_ctx models are loaded with
  DirectMinContext,    \* the least n_ctx, 128
  FirstContext,        \* g_runtime_n_ctx before the first load, 8192
  PrefillChunk,        \* DIRECT_PREFILL_CHUNK, 1
  DirectPromptSizes,   \* tokens of a prompt
  Predict,             \* n_predict
  Pieces               \* texts of the tokens that are generated

ASSUME DirectConstants ==
  /\ DirectContexts \subseteq Nat /\ {DirectMinContext, FirstContext} \subseteq Nat \ {0}
  /\ PrefillChunk \in Nat \ {0}
  /\ DirectPromptSizes \subseteq Nat
  /\ Predict \in Nat
  /\ Pieces \subseteq Seq(Chars)

VARIABLES
  loaded,            \* g_model, g_context and g_sampler are set
  runtimeCtx,        \* g_runtime_n_ctx
  cells,             \* the memory of g_context
  phase,             \* where nativeInfer is
  tokenCount,        \* tokens_list.size()
  prefilled,         \* i of the prefill loop
  position,          \* current_position
  generated,         \* i of the generation loop
  output,
  result,            \* what the last inference returned
  cancelRequested,   \* g_direct_cancel_requested
  late               \* is_timed_out()

directVars ==
  <<loaded, runtimeCtx, cells, phase, tokenCount, prefilled, position, generated,
    output, result, cancelRequested, late>>

Phases == {"idle", "started", "reset", "prefill", "generate"}

Results ==
  {"none", "text", "modelNotLoaded", "cancelled", "timeout", "tokenizationFailed",
   "promptTooLarge", "prefillDecodeFailed", "tokenDecodeFailed"}

DirectInit ==
  /\ loaded = FALSE
  /\ runtimeCtx = FirstContext
  /\ cells = NewMemory(0)
  /\ phase = "idle"
  /\ tokenCount = 0 /\ prefilled = 0 /\ position = 0 /\ generated = 0
  /\ output = <<>>
  /\ result = "none"
  /\ cancelRequested = FALSE
  /\ late = FALSE

Return(value) == phase' = "idle" /\ result' = value

(* The old model is freed first; any step after that may fail.             *)
nativeLoadModel(nCtxAsked, ok) ==
  /\ phase = "idle"
  /\ runtimeCtx' = Max({DirectMinContext, nCtxAsked})
  /\ loaded' = ok
  /\ cells' = NewMemory(IF ok THEN ContextSize(runtimeCtx') ELSE 0)
  /\ cancelRequested' = (cancelRequested /\ ~ok)
  /\ UNCHANGED <<phase, tokenCount, prefilled, position, generated, output, result, late>>

nativeCancel ==
  /\ ~cancelRequested
  /\ cancelRequested' = TRUE
  /\ UNCHANGED <<loaded, runtimeCtx, cells, phase, tokenCount, prefilled, position,
                 generated, output, result, late>>

(* timeout_ms have passed since the inference began.                       *)
TimePasses ==
  /\ phase # "idle" /\ ~late
  /\ late' = TRUE
  /\ UNCHANGED <<loaded, runtimeCtx, cells, phase, tokenCount, prefilled, position,
                 generated, output, result, cancelRequested>>

-----------------------------------------------------------------------------
(* nativeInfer up to the first look at the flag and the clock.             *)
nativeInfer(n) ==
  /\ phase = "idle"
  /\ IF loaded
     THEN /\ phase' = "started" /\ result' = "none"
          /\ cancelRequested' = FALSE /\ late' = FALSE
          /\ cells' = Clear(cells)
          /\ tokenCount' = n
          /\ prefilled' = 0 /\ position' = 0 /\ generated' = 0 /\ output' = <<>>
     ELSE /\ Return("modelNotLoaded")
          /\ UNCHANGED <<cells, tokenCount, prefilled, position, generated, output,
                         cancelRequested, late>>
  /\ UNCHANGED <<loaded, runtimeCtx>>

Interrupted == cancelRequested \/ late

(* Before the memory is cleared, before the prompt is tokenized and at the *)
(* head of both loops.                                                     *)
Looks ==
  \/ phase \in {"started", "reset"}
  \/ phase = "prefill" /\ prefilled < tokenCount
  \/ phase = "generate" /\ generated < Predict

Interrupt ==
  /\ Looks
  /\ Interrupted
  /\ Return(IF cancelRequested THEN "cancelled" ELSE "timeout")
  /\ UNCHANGED <<loaded, runtimeCtx, cells, tokenCount, prefilled, position, generated,
                 output, cancelRequested, late>>

ClearMemory ==
  /\ phase = "started" /\ ~Interrupted
  /\ phase' = "reset"
  /\ cells' = Clear(cells)
  /\ UNCHANGED <<loaded, runtimeCtx, tokenCount, prefilled, position, generated, output,
                 result, cancelRequested, late>>

(* Slip: a prompt that fills the whole context is let in.                  *)
TokenizeFillingAll ==
  /\ phase = "reset" /\ ~Interrupted
  /\ \/ tokenCount = 0 /\ Return("tokenizationFailed")
     \/ tokenCount > runtimeCtx /\ Return("promptTooLarge")
     \/ /\ 0 < tokenCount /\ tokenCount <= runtimeCtx
        /\ phase' = "prefill" /\ UNCHANGED result
  /\ UNCHANGED <<loaded, runtimeCtx, cells, tokenCount, prefilled, position, generated,
                 output, cancelRequested, late>>

Tokenize ==
  /\ phase = "reset" /\ ~Interrupted
  /\ \/ tokenCount = 0 /\ Return("tokenizationFailed")
     \/ tokenCount > 0 /\ tokenCount >= runtimeCtx /\ Return("promptTooLarge")
     \/ /\ 0 < tokenCount /\ tokenCount < runtimeCtx
        /\ phase' = "prefill" /\ UNCHANGED result
  /\ UNCHANGED <<loaded, runtimeCtx, cells, tokenCount, prefilled, position, generated,
                 output, cancelRequested, late>>

Chunk == Min({PrefillChunk, tokenCount - prefilled})

(* A round of the prefill loop; its time may end while it decodes.         *)
Prefill ==
  /\ phase = "prefill" /\ prefilled < tokenCount /\ ~Interrupted
  /\ late' \in BOOLEAN
  /\ \E o \in DecodeOutcomes(cells, prefilled, Chunk, "user", PrefillChunk) :
       /\ cells' = o.mem
       /\ \/ ~o.ok /\ Return("prefillDecodeFailed") /\ UNCHANGED prefilled
          \/ o.ok /\ late' /\ Return("timeout") /\ UNCHANGED prefilled
          \/ /\ o.ok /\ ~late'
             /\ prefilled' = prefilled + PrefillChunk
             /\ UNCHANGED <<phase, result>>
  /\ UNCHANGED <<loaded, runtimeCtx, tokenCount, position, generated, output, cancelRequested>>

PrefillDone ==
  /\ phase = "prefill" /\ prefilled >= tokenCount
  /\ phase' = "generate"
  /\ position' = tokenCount
  /\ UNCHANGED <<loaded, runtimeCtx, cells, tokenCount, prefilled, generated, output,
                 result, cancelRequested, late>>

(* Slip: a token that could not be decoded starts the inference over.      *)
GenerateStartingOver(piece) ==
  LET extracted == tryExtractCompleteJsonObject(output \o piece)
  IN  /\ phase = "generate" /\ generated < Predict /\ ~Interrupted
      /\ \/ /\ extracted # <<>>
            /\ output' = extracted[1]
            /\ Return("text")
            /\ UNCHANGED <<cells, prefilled, position, generated>>
         \/ /\ extracted = <<>>
            /\ phase' = "started"
            /\ output' = <<>> /\ prefilled' = 0 /\ position' = 0 /\ generated' = 0
            /\ UNCHANGED <<cells, result>>
         \/ /\ extracted = <<>> /\ CanDecode(cells, position, 1)
            /\ cells' = Store(cells, position, 1, "assistant")
            /\ output' = output \o piece
            /\ position' = position + 1 /\ generated' = generated + 1
            /\ UNCHANGED <<phase, prefilled, result>>
      /\ UNCHANGED <<loaded, runtimeCtx, tokenCount, cancelRequested, late>>

(* A round of the generation loop.  A complete object ends it and replaces *)
(* the text; a token that cannot be decoded loses the text.                *)
Generate(piece) ==
  /\ phase = "generate" /\ generated < Predict /\ ~Interrupted
  /\ LET extracted == tryExtractCompleteJsonObject(output \o piece)
     IN  IF extracted # <<>>
         THEN /\ output' = extracted[1]
              /\ Return("text")
              /\ UNCHANGED <<cells, position, generated>>
         ELSE /\ output' = output \o piece
              /\ position' = position + 1
              /\ \E o \in DecodeOutcomes(cells, position, 1, "assistant", 1) :
                   /\ cells' = o.mem
                   /\ \/ ~o.ok /\ Return("tokenDecodeFailed") /\ UNCHANGED generated
                      \/ o.ok /\ generated' = generated + 1 /\ UNCHANGED <<phase, result>>
  /\ UNCHANGED <<loaded, runtimeCtx, tokenCount, prefilled, cancelRequested, late>>

(* The model ends the text, or n_predict tokens have been generated.       *)
EndOfText ==
  /\ phase = "generate"
  /\ generated < Predict => ~Interrupted
  /\ Return("text")
  /\ UNCHANGED <<loaded, runtimeCtx, cells, tokenCount, prefilled, position, generated,
                 output, cancelRequested, late>>

-----------------------------------------------------------------------------
(* What nativeInfer does by itself.                                        *)
InferStep ==
  \/ Interrupt
  \/ ClearMemory
  \/ Tokenize
  \/ Prefill
  \/ PrefillDone
  \/ EndOfText
  \/ \E piece \in Pieces : Generate(piece)

DirectNext ==
  \/ \E n \in DirectContexts, ok \in BOOLEAN : nativeLoadModel(n, ok)
  \/ \E n \in DirectPromptSizes : nativeInfer(n)
  \/ nativeCancel
  \/ TimePasses
  \/ InferStep

(* The direct bridge by itself, as far as safety goes.                     *)
DirectSpec == DirectInit /\ [][DirectNext]_directVars

-----------------------------------------------------------------------------
(* Types of the inference.                                                 *)
DirectTypeOK ==
  /\ loaded \in BOOLEAN
  /\ runtimeCtx \in Nat \ {0}
  /\ IsMemory(cells)
  /\ phase \in Phases
  /\ tokenCount \in Nat /\ prefilled \in Nat /\ position \in Nat
  /\ generated \in 0 .. Predict
  /\ output \in Seq(Chars)
  /\ result \in Results
  /\ cancelRequested \in BOOLEAN /\ late \in BOOLEAN

(* nativeInfer and its context agree at every token, whatever became of    *)
(* the inference before: the prompt goes in at the start of an empty       *)
(* memory, a prompt that was let in is never turned down for its positions *)
(* or for want of cells and leaves room for an answer, and a token is      *)
(* generated on the whole text before it.                                  *)
DirectInStep ==
  /\ phase = "prefill" =>
       /\ Holds(cells, Min({prefilled, tokenCount}))
       /\ prefilled < tokenCount => CanDecode(cells, prefilled, Chunk)
  /\ phase = "generate" =>
       /\ loaded /\ Holds(cells, position)
       /\ generated = 0 => CanDecode(cells, position, 1)

(* What nativeInfer returns is one JSON object or holds none, and the two  *)
(* scanners agree on which: the repository finds in it the object that the *)
(* native scanner stopped at, whole, and nothing where it had not stopped, *)
(* wherever the text was cut.                                              *)
OneObjectOrNone ==
  result = "text" =>
    /\ extractBalancedJsonObjects(output) = tryExtractCompleteJsonObject(output)
    /\ extractBalancedJsonObjects(output) \in {<<>>, <<output>>}

(* An inference returns, with no help from the clock: the caller's timeout *)
(* cannot take back the thread that is inside it.                          *)
InferReturns == phase # "idle" ~> phase = "idle"
=============================================================================
