----------------------------- MODULE ChatSession -----------------------------
(***************************************************************************)
(* The native half of InferenceEngineImpl: the globals of ai_chat.cpp and  *)
(* the functions that prepare a context, feed it prompts in batches and    *)
(* generate an answer token by token, discarding the older half of the     *)
(* conversation when the context is full.                                  *)
(*                                                                         *)
(* A prompt is its number of tokens, its batches are steps.  Texts, chat   *)
(* templates, chat_msgs and sampling parameters are left out; whether the  *)
(* bytes of a token complete a character (is_valid_utf8) is a choice.      *)
(*                                                                         *)
(* The functions use DEFAULT_CONTEXT_SIZE where they ask if the context is *)
(* full, also when configureGeneration has chosen another size.            *)
(***************************************************************************)
EXTENDS KvCache

CONSTANTS
  DefaultContext,   \* DEFAULT_CONTEXT_SIZE, 8192
  Headroom,         \* OVERFLOW_HEADROOM, 4
  BatchMax,         \* ANDROID_RUNTIME_BATCH_MAX, 16
  MinContext        \* the least n_ctx, 128

ASSUME ChatConstants ==
  /\ DefaultContext \in Nat /\ Headroom \in Nat \ {0} /\ Headroom < DefaultContext
  /\ BatchMax \in Nat \ {0}
  /\ MinContext \in Nat \ {0}

VARIABLES
  model,           \* g_model: "none", "live" or "freed" (unload keeps the pointer)
  context,         \* g_context, g_sampler and g_batch, likewise
  nCtx,            \* g_runtime_n_ctx
  batchCapacity,   \* g_runtime_batch_capacity
  mem,             \* the memory of g_context
  sysPos,          \* system_prompt_position
  curPos,          \* current_position
  stopPos,         \* stop_generation_position
  prompt,          \* the prompt decode_tokens_in_batches is at
  torn             \* a prompt was shifted under its own batches (not in the code)

resources == <<model, context, nCtx, batchCapacity>>
session == <<mem, sysPos, curPos, stopPos, prompt, torn>>

Limit == DefaultContext - Headroom

NoPrompt == [role |-> "system", size |-> 0, at |-> 0, start |-> 0, predict |-> 0]

Busy == prompt.size > 0

SessionInit ==
  /\ model = "none"
  /\ context = "none"
  /\ nCtx = DefaultContext
  /\ batchCapacity = BatchMax
  /\ mem = NewMemory(0)
  /\ sysPos = 0 /\ curPos = 0 /\ stopPos = 0
  /\ prompt = NoPrompt
  /\ torn = FALSE

configureGeneration(n) ==
  /\ nCtx' = Max({MinContext, n})
  /\ UNCHANGED <<model, context, batchCapacity, session>>

(* prepare() makes a new context; the positions are not its business.      *)
prepare ==
  /\ context' = "live"
  /\ mem' = NewMemory(ContextSize(nCtx))
  /\ batchCapacity' = Max({1, Min({BatchMax, nCtx})})
  /\ UNCHANGED <<nCtx, sysPos, curPos, stopPos, prompt, torn>>

(* Slip: the positions survive a reset.                                    *)
resetMemoryOnly ==
  /\ mem' = Clear(mem)
  /\ stopPos' = 0
  /\ torn' = FALSE
  /\ UNCHANGED <<sysPos, curPos>>

(* reset_long_term_states() and reset_short_term_states()                  *)
reset ==
  /\ mem' = Clear(mem)
  /\ sysPos' = 0 /\ curPos' = 0 /\ stopPos' = 0
  /\ torn' = FALSE

(* Everything is freed and no pointer is set to null.                      *)
unload ==
  /\ reset
  /\ model' = "freed" /\ context' = "freed"
  /\ UNCHANGED <<nCtx, batchCapacity, prompt>>

-----------------------------------------------------------------------------
(* Half of what follows the system prompt is to go.                        *)
Discard == (curPos - sysPos) \div 2

(* Slip: the discarded half begins at the start of the context.            *)
ShiftedFromZero ==
  SeqAdd(SeqRm(mem, 0, Discard), Discard, curPos, -Discard)

(* shift_context(): the memory afterwards; current_position is then        *)
(* curPos - Discard.                                                       *)
Shifted ==
  SeqAdd(SeqRm(mem, sysPos, sysPos + Discard), sysPos + Discard, curPos, -Discard)

(* processSystemPrompt forgets the conversation and rejects a prompt that  *)
(* is longer than Limit.                                                   *)
processSystemPrompt(n) ==
  /\ reset
  /\ prompt' = IF n > Limit THEN NoPrompt
               ELSE [NoPrompt EXCEPT !.role = "system", !.size = n]
  /\ UNCHANGED resources

(* processUserPrompt cuts the prompt to Limit.                             *)
processUserPrompt(n, predict) ==
  /\ stopPos' = 0
  /\ prompt' = [role |-> "user", size |-> Min({n, Limit}), at |-> 0,
                start |-> curPos, predict |-> predict]
  /\ UNCHANGED <<resources, mem, sysPos, curPos, torn>>

(* One round of decode_tokens_in_batches.  A batch that seems not to fit   *)
(* shifts the context; the start of the prompt stays as it was.            *)
decodeBatch(role, ok) ==
  LET n == Min({prompt.size - prompt.at, batchCapacity})
      full == prompt.start + prompt.at + n >= Limit
      outcomes == DecodeOutcomes(IF full THEN Shifted ELSE mem,
                                 prompt.start + prompt.at, n, role, batchCapacity)
  IN  /\ Busy /\ prompt.role = role
      /\ prompt.at < prompt.size
      /\ \E o \in outcomes :
           /\ o.ok = ok
           /\ mem' = o.mem
      /\ curPos' = IF full THEN curPos - Discard ELSE curPos
      /\ torn' = (torn \/ (full /\ Discard > 0))
      /\ prompt' = IF ok THEN [prompt EXCEPT !.at = @ + batchCapacity] ELSE NoPrompt
      /\ UNCHANGED <<resources, sysPos, stopPos>>

systemPromptDone ==
  /\ Busy /\ prompt.role = "system"
  /\ prompt.at >= prompt.size
  /\ sysPos' = prompt.size /\ curPos' = prompt.size
  /\ prompt' = NoPrompt
  /\ UNCHANGED <<resources, mem, stopPos, torn>>

(* The answer may go on to stopPos: the prompt is counted twice.           *)
userPromptDone ==
  /\ Busy /\ prompt.role = "user"
  /\ prompt.at >= prompt.size
  /\ curPos' = curPos + prompt.size
  /\ stopPos' = curPos + prompt.size + prompt.size + prompt.predict
  /\ prompt' = NoPrompt
  /\ UNCHANGED <<resources, mem, sysPos, torn>>

(* Slip: the stop position is not looked at.                               *)
generateOnAndOn(token) ==
  LET full == curPos >= Limit
      m == IF full THEN Shifted ELSE mem
      p == IF full THEN curPos - Discard ELSE curPos
  IN  /\ \E o \in DecodeOutcomes(m, p, 1, "assistant", 1) :
           /\ o.ok \/ token = "null"
           /\ mem' = o.mem
           /\ curPos' = IF o.ok THEN p + 1 ELSE p
      /\ UNCHANGED <<resources, sysPos, stopPos, prompt, torn>>

(* generateNextToken returns null at the stop position, when decoding      *)
(* fails and at the end of the answer, "" while a character is incomplete  *)
(* ("part") and otherwise text.                                            *)
generateNextToken(token) ==
  LET full == curPos >= Limit
      m == IF full THEN Shifted ELSE mem
      p == IF full THEN curPos - Discard ELSE curPos
  IN  /\ \/ /\ p >= stopPos
            /\ token = "null"
            /\ mem' = m /\ curPos' = p
         \/ /\ p < stopPos
            /\ \E o \in DecodeOutcomes(m, p, 1, "assistant", 1) :
                 /\ o.ok \/ token = "null"
                 /\ mem' = o.mem
                 /\ curPos' = IF o.ok THEN p + 1 ELSE p
      /\ UNCHANGED <<resources, sysPos, stopPos, prompt, torn>>
=============================================================================
