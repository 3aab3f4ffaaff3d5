------------------------- MODULE LlamaClients_proofs -------------------------
(***************************************************************************)
(* The inference of the direct bridge and the completion on iOS keep in    *)
(* step with their context, whatever the sizes; what nativeInfer returns   *)
(* is one JSON object or holds none, whatever the tokens' texts; and the   *)
(* specification that composes the three clients has the invariants of     *)
(* each.                                                                   *)
(***************************************************************************)
EXTENDS MCLlamaClients, InferenceEngine_proofs, JsonScanner_proofs

-----------------------------------------------------------------------------
(* The direct bridge.                                                      *)

DirectTypes ==
  /\ loaded \in BOOLEAN
  /\ runtimeCtx \in Nat \ {0}
  /\ GoodMemory(cells)
  /\ phase \in Phases
  /\ tokenCount \in Nat /\ prefilled \in Nat /\ position \in Nat
  /\ generated \in 0 .. Predict
  /\ output \in Seq(Chars)
  /\ result \in Results
  /\ cancelRequested \in BOOLEAN /\ late \in BOOLEAN

(* A context has the cells its n_ctx asks for, and an inference has one.   *)
DirectContext ==
  /\ loaded => cells.size >= runtimeCtx
  /\ phase # "idle" => loaded /\ result = "none"

(* What the memory holds in each phase.                                    *)
DirectPhases ==
  /\ phase \in {"started", "reset", "prefill"} => generated = 0 /\ output = <<>>
  /\ phase \in {"started", "reset"} => prefilled = 0
  /\ phase = "reset" => InOrder(cells, 0)
  /\ phase = "prefill" =>
       /\ 0 < tokenCount /\ tokenCount < runtimeCtx
       /\ InOrder(cells, IF prefilled < tokenCount THEN prefilled ELSE tokenCount)
  /\ phase = "generate" =>
       /\ InOrder(cells, position)
       /\ generated = 0 => position < runtimeCtx
       /\ tryExtractCompleteJsonObject(output) = <<>>

DirectInv == DirectTypes /\ DirectContext /\ DirectPhases /\ OneObjectOrNone

-----------------------------------------------------------------------------
(* The completion on iOS.                                                  *)

IosTypes ==
  /\ currentModel \in Models \union {""}
  /\ GoodMemory(kv) /\ kv.size <= MaxCur
  /\ task \in {"idle", "clear", "init", "loop"}
  /\ promptTokens \in Nat /\ maxTokens \in Nat /\ nLen \in Nat
  /\ nCur \in 0 .. MaxCur /\ nDecode \in 0 .. 1
  /\ isDone \in BOOLEAN
  /\ aggregated \in Nat
  /\ evaluated \in BOOLEAN

IosPhases ==
  /\ task \in {"clear", "init"} => promptTokens \in IosPromptSizes
  /\ task = "init" => InOrder(kv, 0)
  /\ task = "loop" /\ evaluated => InOrder(kv, nCur)

IosInv == IosTypes /\ IosPhases

-----------------------------------------------------------------------------
(* The direct bridge keeps its invariant.                                  *)

(* Nothing is found in the empty text.                                     *)
LEMMA NothingInEmpty == tryExtractCompleteJsonObject(<<>>) = <<>>
<1>1. <<>> \in Seq(Chars) /\ Len(<<>>) = 0
  OBVIOUS
<1>2. NativeScan(<<>>)[0] = ScanStart
  BY <1>1, NativeScanStep
<1>. QED
  BY <1>1, <1>2 DEF tryExtractCompleteJsonObject, ScanStart

LEMMA DirectInitial == DirectInit => DirectInv
<1>. SUFFICES ASSUME DirectInit PROVE DirectInv
  OBVIOUS
<1>. USE DirectConstants DEF DirectInit
<1>1. GoodMemory(cells)
  BY NewMemoryFacts
<1>2. <<>> \in Seq(Chars)
  OBVIOUS
<1>3. /\ runtimeCtx \in Nat \ {0} /\ tokenCount \in Nat /\ prefilled \in Nat
      /\ position \in Nat /\ generated \in 0 .. Predict
  OBVIOUS
<1>4. DirectTypes
  BY <1>1, <1>2, <1>3, Zenon DEF DirectTypes, Phases, Results
<1>. QED
  BY <1>4 DEF DirectInv, DirectContext, DirectPhases, OneObjectOrNone

LEMMA LoadModelKeeps ==
  ASSUME DirectInv, NEW n \in DirectContexts, NEW ok \in BOOLEAN, nativeLoadModel(n, ok)
  PROVE  DirectInv'
<1>. USE DirectConstants
<1>1. DirectTypes /\ phase = "idle" /\ OneObjectOrNone
  BY DEF DirectInv, nativeLoadModel
<1>2. UNCHANGED <<phase, tokenCount, prefilled, position, generated, output, result, late>>
  BY DEF nativeLoadModel
<1>3. runtimeCtx' \in Nat \ {0}
  <2>1. runtimeCtx' = IF DirectMinContext >= n THEN DirectMinContext ELSE n
    BY MaxOfTwo DEF nativeLoadModel
  <2>. QED
    BY <2>1
<1>4. GoodMemory(cells') /\ (loaded' => cells'.size >= runtimeCtx') /\ loaded' \in BOOLEAN
  <2>1. ContextSize(runtimeCtx') \in Nat /\ ContextSize(runtimeCtx') >= runtimeCtx'
    BY <1>3, ContextSizeCovers
  <2>2. cells' = NewMemory(IF ok THEN ContextSize(runtimeCtx') ELSE 0) /\ loaded' = ok
    BY DEF nativeLoadModel
  <2>. QED
    BY <2>1, <2>2, NewMemoryFacts
<1>5. cancelRequested' \in BOOLEAN
  BY <1>1 DEF nativeLoadModel, DirectTypes
<1>6. DirectTypes'
  BY <1>1, <1>2, <1>3, <1>4, <1>5 DEF DirectTypes
<1>7. DirectContext' /\ DirectPhases' /\ OneObjectOrNone'
  BY <1>1, <1>2, <1>4 DEF DirectContext, DirectPhases, OneObjectOrNone
<1>. QED
  BY <1>6, <1>7 DEF DirectInv

(* A request to cancel and the end of the time touch nothing else.         *)
LEMMA InterruptionKeeps ==
  ASSUME DirectInv, nativeCancel \/ TimePasses
  PROVE  DirectInv'
<1>1. UNCHANGED <<loaded, runtimeCtx, cells, phase, tokenCount, prefilled, position,
                  generated, output, result>>
  BY DEF nativeCancel, TimePasses
<1>2. cancelRequested' \in BOOLEAN /\ late' \in BOOLEAN
  BY DEF DirectInv, DirectTypes, nativeCancel, TimePasses
<1>3. DirectTypes'
  BY <1>1, <1>2 DEF DirectInv, DirectTypes
<1>4. DirectContext' /\ DirectPhases' /\ OneObjectOrNone'
  BY <1>1 DEF DirectInv, DirectContext, DirectPhases, OneObjectOrNone
<1>. QED
  BY <1>3, <1>4 DEF DirectInv

LEMMA InferBegins ==
  ASSUME DirectInv, NEW n \in DirectPromptSizes, nativeInfer(n)
  PROVE  DirectInv'
<1>. USE DirectConstants
<1>1. DirectTypes /\ DirectContext /\ phase = "idle"
  BY DEF DirectInv, nativeInfer
<1>2. CASE loaded
  <2>1. /\ phase' = "started" /\ result' = "none"
        /\ cancelRequested' = FALSE /\ late' = FALSE
        /\ cells' = Clear(cells) /\ tokenCount' = n
        /\ prefilled' = 0 /\ position' = 0 /\ generated' = 0 /\ output' = <<>>
        /\ UNCHANGED <<loaded, runtimeCtx>>
    BY <1>2 DEF nativeInfer
  <2>2. GoodMemory(cells') /\ cells'.size = cells.size
    BY <1>1, <2>1, ClearFacts DEF DirectTypes
  <2>3. output' \in Seq(Chars) /\ tokenCount' \in Nat /\ generated' \in 0 .. Predict
    BY <2>1
  <2>4. DirectTypes'
    BY <1>1, <2>1, <2>2, <2>3 DEF DirectTypes, Phases, Results
  <2>5. DirectContext' /\ DirectPhases' /\ OneObjectOrNone'
    BY <1>1, <1>2, <2>1, <2>2 DEF DirectContext, DirectPhases, OneObjectOrNone
  <2>. QED
    BY <2>4, <2>5 DEF DirectInv
<1>3. CASE ~loaded
  <2>1. /\ phase' = "idle" /\ result' = "modelNotLoaded"
        /\ UNCHANGED <<cells, tokenCount, prefilled, position, generated, output,
                       cancelRequested, late, loaded, runtimeCtx>>
    BY <1>3 DEF nativeInfer, Return
  <2>2. DirectTypes'
    BY <1>1, <2>1 DEF DirectTypes, Phases, Results
  <2>3. DirectContext' /\ DirectPhases' /\ OneObjectOrNone'
    BY <1>1, <2>1 DEF DirectContext, DirectPhases, OneObjectOrNone
  <2>. QED
    BY <2>2, <2>3 DEF DirectInv
<1>. QED
  BY <1>2, <1>3

(* An inference that returns without a text.                               *)
LEMMA ReturnsNothing ==
  ASSUME DirectInv, NEW v \in Results \ {"text"}, phase' = "idle", result' = v,
         GoodMemory(cells'), cells'.size = cells.size,
         prefilled' \in Nat, position' \in Nat, generated' \in 0 .. Predict,
         output' \in Seq(Chars), late' \in BOOLEAN,
         UNCHANGED <<loaded, runtimeCtx, tokenCount, cancelRequested>>
  PROVE  DirectInv'
<1>1. DirectTypes'
  BY DEF DirectInv, DirectTypes, Phases
<1>2. DirectContext' /\ DirectPhases' /\ OneObjectOrNone'
  BY DEF DirectInv, DirectContext, DirectPhases, OneObjectOrNone
<1>. QED
  BY <1>1, <1>2 DEF DirectInv

LEMMA InterruptKeeps ==
  ASSUME DirectInv, Interrupt
  PROVE  DirectInv'
<1>1. /\ phase' = "idle" /\ result' \in {"cancelled", "timeout"}
      /\ UNCHANGED <<loaded, runtimeCtx, cells, tokenCount, prefilled, position, generated,
                     output, cancelRequested, late>>
  BY DEF Interrupt, Return
<1>2. result' \in Results \ {"text"}
  BY <1>1 DEF Results
<1>. QED
  BY <1>1, <1>2, ReturnsNothing DEF DirectInv, DirectTypes

LEMMA ClearMemoryKeeps ==
  ASSUME DirectInv, ClearMemory
  PROVE  DirectInv'
<1>1. /\ phase = "started" /\ phase' = "reset" /\ cells' = Clear(cells)
      /\ UNCHANGED <<loaded, runtimeCtx, tokenCount, prefilled, position, generated, output,
                     result, cancelRequested, late>>
  BY DEF ClearMemory
<1>2. GoodMemory(cells') /\ cells'.size = cells.size /\ InOrder(cells', 0)
  BY <1>1, ClearFacts DEF DirectInv, DirectTypes
<1>3. DirectTypes'
  BY <1>1, <1>2 DEF DirectInv, DirectTypes, Phases
<1>4. DirectContext' /\ DirectPhases' /\ OneObjectOrNone'
  BY <1>1, <1>2 DEF DirectInv, DirectContext, DirectPhases, OneObjectOrNone
<1>. QED
  BY <1>3, <1>4 DEF DirectInv

LEMMA TokenizeKeeps ==
  ASSUME DirectInv, Tokenize
  PROVE  DirectInv'
<1>1. /\ phase = "reset"
      /\ UNCHANGED <<loaded, runtimeCtx, cells, tokenCount, prefilled, position, generated,
                     output, cancelRequested, late>>
  BY DEF Tokenize
<1>2. CASE phase' = "idle" /\ result' \in {"tokenizationFailed", "promptTooLarge"}
  <2>1. result' \in Results \ {"text"}
    BY <1>2 DEF Results
  <2>. QED
    BY <1>1, <1>2, <2>1, ReturnsNothing DEF DirectInv, DirectTypes
<1>3. CASE /\ 0 < tokenCount /\ tokenCount < runtimeCtx
           /\ phase' = "prefill" /\ UNCHANGED result
  <2>1. DirectTypes'
    BY <1>1, <1>3 DEF DirectInv, DirectTypes, Phases
  <2>2. DirectContext' /\ OneObjectOrNone'
    BY <1>1, <1>3 DEF DirectInv, DirectContext, OneObjectOrNone
  <2>3. InOrder(cells, 0) /\ prefilled = 0 /\ generated = 0 /\ output = <<>>
    BY <1>1 DEF DirectInv, DirectPhases
  <2>4. DirectPhases'
    BY <1>1, <1>3, <2>3 DEF DirectPhases
  <2>. QED
    BY <2>1, <2>2, <2>4 DEF DirectInv
<1>. QED
  BY <1>2, <1>3 DEF Tokenize, Return

LEMMA PrefillKeeps ==
  ASSUME DirectInv, Prefill
  PROVE  DirectInv'
<1>1. /\ phase = "prefill" /\ prefilled < tokenCount /\ late' \in BOOLEAN
      /\ UNCHANGED <<loaded, runtimeCtx, tokenCount, position, generated, output,
                     cancelRequested>>
  BY DEF Prefill
<1>2. /\ DirectTypes /\ DirectContext
      /\ InOrder(cells, prefilled) /\ generated = 0 /\ output = <<>>
      /\ 0 < tokenCount /\ tokenCount < runtimeCtx
  BY <1>1 DEF DirectInv, DirectPhases
<1>3. PICK o \in DecodeOutcomes(cells, prefilled, Chunk, "user", PrefillChunk) :
        /\ cells' = o.mem
        /\ \/ ~o.ok /\ Return("prefillDecodeFailed") /\ UNCHANGED prefilled
           \/ o.ok /\ late' /\ Return("timeout") /\ UNCHANGED prefilled
           \/ /\ o.ok /\ ~late'
              /\ prefilled' = prefilled + PrefillChunk
              /\ UNCHANGED <<phase, result>>
  BY DEF Prefill
<1>4. /\ Chunk \in Nat \ {0} /\ prefilled \in Nat /\ tokenCount \in Nat
      /\ prefilled + Chunk = IF prefilled + PrefillChunk < tokenCount
                             THEN prefilled + PrefillChunk ELSE tokenCount
  <2>1. tokenCount \in Nat /\ prefilled \in Nat
    BY <1>2 DEF DirectTypes
  <2>2. Chunk = IF PrefillChunk <= tokenCount - prefilled
                THEN PrefillChunk ELSE tokenCount - prefilled
    BY <2>1, MinOfTwo, DirectConstants DEF Chunk
  <2>. QED
    BY <1>1, <2>1, <2>2, DirectConstants
<1>5. /\ GoodMemory(o.mem) /\ o.mem.size = cells.size
      /\ o.ok => InOrder(o.mem, prefilled + Chunk)
  <2>1. /\ "user" \in Roles /\ GoodMemory(cells) /\ InOrder(cells, prefilled)
        /\ PrefillChunk \in Nat \ {0} /\ Chunk \in Nat \ {0} /\ prefilled \in Nat
    BY <1>2, <1>4, DirectConstants DEF Roles, DirectTypes
  <2>. QED
    BY <1>3, <2>1, DecodeInOrder
<1>6. CASE phase' = "idle" /\ result' \in {"prefillDecodeFailed", "timeout"} /\ UNCHANGED prefilled
  <2>1. result' \in Results \ {"text"}
    BY <1>6 DEF Results
  <2>. QED
    BY <1>1, <1>2, <1>3, <1>5, <1>6, <2>1, ReturnsNothing DEF DirectTypes
<1>7. CASE o.ok /\ prefilled' = prefilled + PrefillChunk /\ UNCHANGED <<phase, result>>
  <2>1. prefilled' \in Nat /\ GoodMemory(cells') /\ cells'.size = cells.size
    BY <1>3, <1>4, <1>5, <1>7, DirectConstants
  <2>2. DirectTypes'
    BY <1>1, <1>2, <1>7, <2>1 DEF DirectTypes
  <2>3. InOrder(cells', IF prefilled' < tokenCount' THEN prefilled' ELSE tokenCount')
    BY <1>1, <1>3, <1>4, <1>5, <1>7
  <2>4. DirectContext' /\ DirectPhases' /\ OneObjectOrNone'
    <3>1. result = "none"
      BY <1>1, <1>2 DEF DirectContext
    <3>. QED
      BY <1>1, <1>2, <1>7, <2>1, <2>3, <3>1
      DEF DirectContext, DirectPhases, OneObjectOrNone
  <2>. QED
    BY <2>2, <2>4 DEF DirectInv
<1>. QED
  BY <1>3, <1>6, <1>7 DEF Return

LEMMA PrefillDoneKeeps ==
  ASSUME DirectInv, PrefillDone
  PROVE  DirectInv'
<1>1. /\ phase = "prefill" /\ prefilled >= tokenCount
      /\ phase' = "generate" /\ position' = tokenCount
      /\ UNCHANGED <<loaded, runtimeCtx, cells, tokenCount, prefilled, generated, output,
                     result, cancelRequested, late>>
  BY DEF PrefillDone
<1>2. DirectTypes /\ DirectContext /\ result = "none"
  BY <1>1 DEF DirectInv, DirectContext
<1>3. InOrder(cells, tokenCount) /\ output = <<>> /\ tokenCount < runtimeCtx
  <2>1. ~(prefilled < tokenCount)
    BY <1>1, <1>2 DEF DirectTypes
  <2>. QED
    BY <1>1, <2>1 DEF DirectInv, DirectPhases
<1>4. DirectTypes'
  BY <1>1, <1>2 DEF DirectTypes, Phases
<1>5. tryExtractCompleteJsonObject(output') = <<>>
  BY <1>1, <1>3, NothingInEmpty
<1>6. DirectPhases'
  BY <1>1, <1>3, <1>5 DEF DirectPhases
<1>7. DirectContext' /\ OneObjectOrNone'
  BY <1>1, <1>2 DEF DirectContext, OneObjectOrNone
<1>. QED
  BY <1>4, <1>6, <1>7 DEF DirectInv

(* A complete object replaces the text and is what both scanners find.     *)
LEMMA ObjectReturned ==
  ASSUME DirectInv, NEW piece \in Pieces, Generate(piece),
         tryExtractCompleteJsonObject(output \o piece) # <<>>
  PROVE  DirectInv'
<1>. USE DirectConstants
<1>1. DirectTypes /\ DirectContext /\ piece \in Seq(Chars) /\ output \o piece \in Seq(Chars)
  BY DEF DirectInv, DirectTypes
<1>2. /\ output' = tryExtractCompleteJsonObject(output \o piece)[1]
      /\ phase' = "idle" /\ result' = "text"
      /\ UNCHANGED <<cells, position, generated, loaded, runtimeCtx, tokenCount, prefilled,
                     cancelRequested, late>>
  BY DEF Generate, Return
<1>3. /\ output' \in Seq(Chars)
      /\ tryExtractCompleteJsonObject(output') = <<output'>>
      /\ extractBalancedJsonObjects(output') = <<output'>>
  BY <1>1, <1>2, OneObjectForBoth
<1>4. DirectTypes'
  BY <1>1, <1>2, <1>3 DEF DirectTypes, Phases, Results
<1>5. OneObjectOrNone'
  BY <1>3 DEF OneObjectOrNone
<1>6. DirectContext' /\ DirectPhases'
  BY <1>1, <1>2 DEF DirectContext, DirectPhases
<1>. QED
  BY <1>4, <1>5, <1>6 DEF DirectInv

(* Otherwise the token is decoded, behind what the memory holds.           *)
LEMMA TokenDecoded ==
  ASSUME DirectInv, NEW piece \in Pieces, Generate(piece),
         tryExtractCompleteJsonObject(output \o piece) = <<>>
  PROVE  DirectInv'
<1>. USE DirectConstants
<1>1. /\ phase = "generate" /\ generated < Predict
      /\ output' = output \o piece /\ position' = position + 1
      /\ UNCHANGED <<loaded, runtimeCtx, tokenCount, prefilled, cancelRequested, late>>
  BY DEF Generate
<1>2. /\ DirectTypes /\ DirectContext /\ InOrder(cells, position) /\ result = "none"
  BY <1>1 DEF DirectInv, DirectPhases, DirectContext
<1>3. output' \in Seq(Chars)
  <2>1. output \in Seq(Chars) /\ piece \in Seq(Chars)
    BY <1>2 DEF DirectTypes
  <2>. QED
    BY <1>1, <2>1
<1>4. PICK o \in DecodeOutcomes(cells, position, 1, "assistant", 1) :
        /\ cells' = o.mem
        /\ \/ ~o.ok /\ Return("tokenDecodeFailed") /\ UNCHANGED generated
           \/ o.ok /\ generated' = generated + 1 /\ UNCHANGED <<phase, result>>
  BY DEF Generate
<1>5. position \in Nat /\ position' \in Nat /\ generated \in 0 .. Predict
  BY <1>1, <1>2 DEF DirectTypes
<1>6. /\ GoodMemory(o.mem) /\ o.mem.size = cells.size
      /\ o.ok => InOrder(o.mem, position + 1)
  <2>1. "assistant" \in Roles /\ GoodMemory(cells) /\ 1 \in Nat \ {0}
    BY <1>2 DEF Roles, DirectTypes
  <2>. QED
    BY <1>2, <1>4, <1>5, <2>1, DecodeInOrder
<1>7. CASE phase' = "idle" /\ result' = "tokenDecodeFailed" /\ UNCHANGED generated
  <2>1. result' \in Results \ {"text"}
    BY <1>7 DEF Results
  <2>2. prefilled' \in Nat /\ late' \in BOOLEAN
    BY <1>1, <1>2 DEF DirectTypes
  <2>. QED
    BY <1>1, <1>3, <1>4, <1>5, <1>6, <1>7, <2>1, <2>2, ReturnsNothing
<1>8. CASE o.ok /\ generated' = generated + 1 /\ UNCHANGED <<phase, result>>
  <2>1. generated' \in 0 .. Predict /\ generated' # 0
    BY <1>1, <1>5, <1>8
  <2>2. InOrder(cells', position') /\ GoodMemory(cells') /\ cells'.size = cells.size
    BY <1>1, <1>4, <1>6, <1>8
  <2>3. DirectTypes'
    BY <1>1, <1>2, <1>3, <1>5, <1>8, <2>1, <2>2 DEF DirectTypes
  <2>4. tryExtractCompleteJsonObject(output') = <<>>
    BY <1>1
  <2>5. DirectPhases'
    BY <1>1, <1>8, <2>1, <2>2, <2>4 DEF DirectPhases
  <2>6. DirectContext' /\ OneObjectOrNone'
    BY <1>1, <1>2, <1>8, <2>2 DEF DirectContext, OneObjectOrNone
  <2>. QED
    BY <2>3, <2>5, <2>6 DEF DirectInv
<1>. QED
  BY <1>4, <1>7, <1>8 DEF Return

(* The text that was cut holds no object, for either scanner.              *)
LEMMA EndOfTextKeeps ==
  ASSUME DirectInv, EndOfText
  PROVE  DirectInv'
<1>1. /\ phase = "generate" /\ phase' = "idle" /\ result' = "text"
      /\ UNCHANGED <<loaded, runtimeCtx, cells, tokenCount, prefilled, position, generated,
                     output, cancelRequested, late>>
  BY DEF EndOfText, Return
<1>2. DirectTypes /\ DirectContext /\ tryExtractCompleteJsonObject(output) = <<>>
  BY <1>1 DEF DirectInv, DirectPhases
<1>3. output \in Seq(Chars)
  BY <1>2 DEF DirectTypes
<1>4. extractBalancedJsonObjects(output) = <<>>
  BY <1>2, <1>3, NoObjectForBoth
<1>5. DirectTypes'
  BY <1>1, <1>2 DEF DirectTypes, Phases, Results
<1>6. OneObjectOrNone'
  BY <1>1, <1>2, <1>4 DEF OneObjectOrNone
<1>7. DirectContext' /\ DirectPhases'
  BY <1>1, <1>2 DEF DirectContext, DirectPhases
<1>. QED
  BY <1>5, <1>6, <1>7 DEF DirectInv

LEMMA DirectStep == DirectInv /\ [DirectNext]_directVars => DirectInv'
<1>. SUFFICES ASSUME DirectInv, [DirectNext]_directVars PROVE DirectInv'
  OBVIOUS
<1>1. CASE \E n \in DirectContexts, ok \in BOOLEAN : nativeLoadModel(n, ok)
  BY <1>1, LoadModelKeeps
<1>2. CASE \E n \in DirectPromptSizes : nativeInfer(n)
  BY <1>2, InferBegins
<1>3. CASE nativeCancel \/ TimePasses
  BY <1>3, InterruptionKeeps
<1>4. CASE Interrupt
  BY <1>4, InterruptKeeps
<1>5. CASE ClearMemory
  BY <1>5, ClearMemoryKeeps
<1>6. CASE Tokenize
  BY <1>6, TokenizeKeeps
<1>7. CASE Prefill
  BY <1>7, PrefillKeeps
<1>8. CASE PrefillDone
  BY <1>8, PrefillDoneKeeps
<1>9. CASE EndOfText
  BY <1>9, EndOfTextKeeps
<1>10. CASE \E piece \in Pieces : Generate(piece)
  BY <1>10, ObjectReturned, TokenDecoded
<1>11. CASE UNCHANGED directVars
  <2>1. DirectTypes'
    BY <1>11 DEF DirectInv, DirectTypes, directVars
  <2>2. DirectContext' /\ DirectPhases' /\ OneObjectOrNone'
    BY <1>11 DEF DirectInv, DirectContext, DirectPhases, OneObjectOrNone, directVars
  <2>. QED
    BY <2>1, <2>2 DEF DirectInv
<1>. QED
  BY <1>1, <1>2, <1>3, <1>4, <1>5, <1>6, <1>7, <1>8, <1>9, <1>10, <1>11
  DEF DirectNext, InferStep

(* The types and the agreement with the context follow.                    *)
LEMMA DirectInvMeans == DirectInv => DirectTypeOK /\ DirectInStep
<1>. SUFFICES ASSUME DirectInv PROVE DirectTypeOK /\ DirectInStep
  OBVIOUS
<1>1. DirectTypes /\ DirectContext /\ DirectPhases
  BY DEF DirectInv
<1>2. IsMemory(cells) /\ GoodMemory(cells)
  BY <1>1, GoodIsMemory DEF DirectTypes
<1>3. DirectTypeOK
  BY <1>1, <1>2 DEF DirectTypes, DirectTypeOK
<1>4. ASSUME phase = "prefill"
      PROVE  /\ Holds(cells, Min({prefilled, tokenCount}))
             /\ prefilled < tokenCount => CanDecode(cells, prefilled, Chunk)
  <2>1. prefilled \in Nat /\ tokenCount \in Nat /\ runtimeCtx \in Nat /\ cells.size \in Nat
    BY <1>1, <1>2 DEF DirectTypes, GoodMemory
  <2>2. Min({prefilled, tokenCount}) = IF prefilled <= tokenCount THEN prefilled ELSE tokenCount
    BY <2>1, MinOfTwo
  <2>3. /\ tokenCount < runtimeCtx /\ runtimeCtx <= cells.size
        /\ InOrder(cells, IF prefilled < tokenCount THEN prefilled ELSE tokenCount)
    BY <1>1, <1>4, <2>1 DEF DirectPhases, DirectContext
  <2>4. InOrder(cells, Min({prefilled, tokenCount})) /\ Min({prefilled, tokenCount}) \in Nat
    <3>1. (IF prefilled < tokenCount THEN prefilled ELSE tokenCount) =
            Min({prefilled, tokenCount})
      BY <2>1, <2>2
    <3>. QED
      BY <2>1, <2>2, <2>3, <3>1
  <2>5. Holds(cells, Min({prefilled, tokenCount}))
    BY <1>2, <2>4, InOrderHolds
  <2>6. ASSUME prefilled < tokenCount
        PROVE  CanDecode(cells, prefilled, Chunk)
    <3>1. Chunk = IF PrefillChunk <= tokenCount - prefilled
                  THEN PrefillChunk ELSE tokenCount - prefilled
      BY <2>1, MinOfTwo, DirectConstants DEF Chunk
    <3>2. Chunk \in Nat /\ prefilled + Chunk <= cells.size
      BY <2>1, <2>3, <2>6, <3>1, DirectConstants
    <3>3. InOrder(cells, prefilled)
      BY <2>3, <2>6
    <3>. QED
      BY <1>2, <2>1, <3>2, <3>3, InOrderCanDecode
  <2>. QED
    BY <2>5, <2>6
<1>5. ASSUME phase = "generate"
      PROVE  /\ loaded /\ Holds(cells, position)
             /\ generated = 0 => CanDecode(cells, position, 1)
  <2>1. position \in Nat /\ runtimeCtx \in Nat /\ cells.size \in Nat /\ loaded
    BY <1>1, <1>2, <1>5 DEF DirectTypes, GoodMemory, DirectContext
  <2>2. /\ InOrder(cells, position) /\ runtimeCtx <= cells.size
        /\ generated = 0 => position < runtimeCtx
    BY <1>1, <1>5, <2>1 DEF DirectPhases, DirectContext
  <2>3. Holds(cells, position)
    BY <1>2, <2>1, <2>2, InOrderHolds
  <2>4. ASSUME generated = 0
        PROVE  CanDecode(cells, position, 1)
    <3>1. position + 1 <= cells.size
      BY <2>1, <2>2, <2>4
    <3>. QED
      BY <1>2, <2>1, <2>2, <3>1, InOrderCanDecode
  <2>. QED
    BY <2>1, <2>3, <2>4
<1>6. DirectInStep
  BY <1>4, <1>5 DEF DirectInStep
<1>. QED
  BY <1>3, <1>6

(* Every reachable state of the direct bridge satisfies the invariant: an  *)
(* inference finds nothing of an earlier one in its memory, and a prompt   *)
(* that was let in fits.                                                   *)
THEOREM DirectInvariance == DirectSpec => []DirectInv
<1>1. DirectInit => DirectInv
  BY DirectInitial
<1>2. DirectInv /\ [DirectNext]_directVars => DirectInv'
  BY DirectStep
<1>. QED
  BY <1>1, <1>2, PTL DEF DirectSpec

(* nativeInfer and its context agree at every token: prefill and           *)
(* generation go on exactly where the memory ends, a prompt that passed    *)
(* the test for its size is decoded, and the first token of the answer has *)
(* room.                                                                   *)
THEOREM DirectStaysInStep == DirectSpec => []DirectInStep
BY DirectInvariance, DirectInvMeans, PTL

(* What nativeInfer returns is one object or holds none, and the two       *)
(* scanners agree on which, for tokens of any text and answers of any      *)
(* length.                                                                 *)
THEOREM ReturnsOneObjectOrNone == DirectSpec => []OneObjectOrNone
<1>1. DirectInv => OneObjectOrNone
  BY DEF DirectInv
<1>. QED
  BY <1>1, DirectInvariance, PTL

-----------------------------------------------------------------------------
(* The completion on iOS keeps its invariant.                              *)

LEMMA IosInitial == IosInit => IosInv
<1>. SUFFICES ASSUME IosInit PROVE IosInv
  OBVIOUS
<1>1. GoodMemory(kv) /\ kv.size = 0
  BY NewMemoryFacts DEF IosInit
<1>2. /\ promptTokens \in Nat /\ maxTokens \in Nat /\ nLen \in Nat
      /\ nCur \in 0 .. MaxCur /\ nDecode \in 0 .. 1 /\ aggregated \in Nat /\ kv.size <= MaxCur
  <2>1. MaxCur \in Nat
    BY IosConstants
  <2>2. 0 \in Nat /\ 0 \in 0 .. MaxCur /\ 0 \in 0 .. 1 /\ 0 <= MaxCur
    BY <2>1
  <2>. QED
    BY <1>1, <2>2, Zenon DEF IosInit
<1>3. IosTypes
  BY <1>1, <1>2, Zenon DEF IosTypes, IosInit
<1>. QED
  BY <1>3 DEF IosInv, IosPhases, IosInit

LEMMA CompleteJsonKeeps ==
  ASSUME IosInv, NEW path \in Models, NEW n \in IosPromptSizes, NEW max \in MaxTokens,
         completeJson(path, n, max)
  PROVE  IosInv'
<1>1. /\ task' = "clear" /\ promptTokens' = n /\ maxTokens' = max /\ currentModel' = path
      /\ kv' = IF path = currentModel THEN kv ELSE NewMemory(ContextSize(IosContext))
      /\ UNCHANGED <<nLen, nCur, nDecode, isDone, aggregated, evaluated>>
  BY DEF completeJson, ensureContext
<1>2. GoodMemory(kv') /\ kv'.size <= MaxCur
  <2>1. ContextSize(IosContext) \in Nat /\ ContextSize(IosContext) <= MaxCur
    BY IosConstants, ContextSizeCovers
  <2>2. CASE path = currentModel
    BY <1>1, <2>2 DEF IosInv, IosTypes
  <2>3. CASE path # currentModel
    BY <1>1, <2>1, <2>3, NewMemoryFacts
  <2>. QED
    BY <2>2, <2>3
<1>3. n \in Nat /\ max \in Nat
  BY IosConstants
<1>4. IosTypes'
  BY <1>1, <1>2, <1>3 DEF IosInv, IosTypes
<1>5. IosPhases'
  BY <1>1 DEF IosPhases
<1>. QED
  BY <1>4, <1>5 DEF IosInv

LEMMA ConfigureKeeps ==
  ASSUME IosInv, configure
  PROVE  IosInv'
<1>1. /\ task = "clear" /\ task' = "init" /\ kv' = Clear(kv) /\ isDone' = FALSE
      /\ nLen' = Max({MinLength, maxTokens})
      /\ UNCHANGED <<currentModel, promptTokens, maxTokens, nCur, nDecode, aggregated, evaluated>>
  BY DEF configure
<1>2. GoodMemory(kv') /\ kv'.size = kv.size /\ InOrder(kv', 0)
  BY <1>1, ClearFacts DEF IosInv, IosTypes
<1>3. nLen' \in Nat
  <2>1. MinLength \in Nat /\ maxTokens \in Nat
    BY IosConstants DEF IosInv, IosTypes
  <2>2. nLen' = IF MinLength >= maxTokens THEN MinLength ELSE maxTokens
    BY <1>1, <2>1, MaxOfTwo
  <2>. QED
    BY <2>1, <2>2
<1>4. IosTypes'
  BY <1>1, <1>2, <1>3 DEF IosInv, IosTypes
<1>5. IosPhases'
  BY <1>1, <1>2 DEF IosInv, IosPhases
<1>. QED
  BY <1>4, <1>5 DEF IosInv

LEMMA CompletionInitKeeps ==
  ASSUME IosInv, completionInit
  PROVE  IosInv'
<1>. DEFINE n == Min({promptTokens, BatchCapacity})
<1>1. /\ task = "init" /\ task' = "loop" /\ aggregated' = 0 /\ nCur' = n
      /\ UNCHANGED <<currentModel, promptTokens, maxTokens, nLen, nDecode, isDone>>
  BY DEF completionInit
<1>2. PICK o \in DecodeOutcomes(kv, 0, n, "user", UBatch) : kv' = o.mem /\ evaluated' = o.ok
  BY DEF completionInit
<1>3. GoodMemory(kv) /\ kv.size <= MaxCur /\ InOrder(kv, 0) /\ promptTokens \in IosPromptSizes
  BY <1>1 DEF IosInv, IosTypes, IosPhases
<1>4. n \in Nat \ {0} /\ n <= MaxCur
  <2>1. /\ promptTokens \in Nat \ {0} /\ promptTokens < MaxCur
        /\ BatchCapacity \in Nat \ {0} /\ MaxCur \in Nat
    BY <1>3, IosConstants
  <2>2. n = IF promptTokens <= BatchCapacity THEN promptTokens ELSE BatchCapacity
    BY <2>1, MinOfTwo
  <2>. QED
    BY <2>1, <2>2
<1>. HIDE DEF n
<1>5. /\ o.ok \in BOOLEAN /\ GoodMemory(o.mem) /\ o.mem.size = kv.size
      /\ o.ok => InOrder(o.mem, n)
  <2>1. "user" \in Roles /\ UBatch \in Nat \ {0} /\ 0 \in Nat /\ 0 + n = n
    BY <1>4, IosConstants DEF Roles
  <2>2. /\ o.ok \in BOOLEAN /\ GoodMemory(o.mem) /\ o.mem.size = kv.size
        /\ o.ok => InOrder(o.mem, 0 + n)
    BY <1>2, <1>3, <1>4, <2>1, DecodeInOrder
  <2>. QED
    BY <2>1, <2>2
<1>6. nCur' \in 0 .. MaxCur /\ aggregated' \in Nat
  BY <1>1, <1>4, IosConstants
<1>7. IosTypes'
  BY <1>1, <1>2, <1>3, <1>5, <1>6 DEF IosInv, IosTypes
<1>8. IosPhases'
  BY <1>1, <1>2, <1>5 DEF IosPhases
<1>. QED
  BY <1>7, <1>8 DEF IosInv

LEMMA CompletionLoopKeeps ==
  ASSUME IosInv, NEW eog \in BOOLEAN, NEW chars \in 0 .. 2, completionLoop(eog, chars)
  PROVE  IosInv'
<1>1. /\ task = "loop" /\ IosTypes /\ (evaluated => InOrder(kv, nCur))
      /\ UNCHANGED <<currentModel, promptTokens, maxTokens, nLen>>
  BY DEF completionLoop, IosInv, IosPhases
<1>2. /\ task' \in {"idle", "loop"} /\ isDone' \in BOOLEAN
      /\ aggregated' = 0 \/ aggregated' = aggregated + chars
  BY DEF completionLoop, Collect
<1>3. aggregated' \in Nat
  <2>1. aggregated \in Nat
    BY <1>1 DEF IosTypes
  <2>2. 0 \in Nat /\ aggregated + chars \in Nat
    BY <2>1
  <2>. QED
    BY <1>2, <2>2
<1>4. CASE eog \/ nCur = nLen
  <2>1. UNCHANGED <<nCur, nDecode, kv, evaluated>> /\ task' = "idle"
    BY <1>4 DEF completionLoop, Collect
  <2>2. IosTypes'
    BY <1>1, <1>2, <1>3, <2>1 DEF IosTypes
  <2>3. IosPhases'
    BY <2>1 DEF IosPhases
  <2>. QED
    BY <2>2, <2>3 DEF IosInv
<1>5. CASE ~(eog \/ nCur = nLen)
  <2>1. nDecode' = (nDecode + 1) % 2 /\ nCur' = Min({nCur + 1, MaxCur})
    BY <1>5 DEF completionLoop
  <2>2. PICK o \in DecodeOutcomes(kv, nCur, 1, "assistant", 1) :
          kv' = o.mem /\ evaluated' = (evaluated /\ o.ok)
    BY <1>5 DEF completionLoop
  <2>3. /\ nCur \in Nat /\ MaxCur \in Nat /\ nCur <= MaxCur
        /\ "assistant" \in Roles /\ 1 \in Nat \ {0} /\ GoodMemory(kv)
    <3>1. MaxCur \in Nat
      BY IosConstants
    <3>2. nCur \in 0 .. MaxCur /\ GoodMemory(kv)
      BY <1>1 DEF IosTypes
    <3>. QED
      BY <3>1, <3>2 DEF Roles
  <2>4. /\ o.ok \in BOOLEAN /\ GoodMemory(o.mem) /\ o.mem.size = kv.size
    BY <2>2, <2>3, DecodeGood
  <2>5. nCur' = IF nCur + 1 <= MaxCur THEN nCur + 1 ELSE MaxCur
    BY <2>1, <2>3, MinOfTwo
  <2>6. nCur' \in 0 .. MaxCur /\ nDecode' \in 0 .. 1
    <3>1. nDecode \in 0 .. 1
      BY <1>1 DEF IosTypes
    <3>2. (nDecode + 1) % 2 \in 0 .. 1
      BY <3>1
    <3>. QED
      BY <2>1, <2>3, <2>5, <3>2
  <2>7. evaluated' \in BOOLEAN
    BY <2>2
  <2>8. IosTypes'
    BY <1>1, <1>2, <1>3, <2>2, <2>4, <2>6, <2>7 DEF IosTypes
  <2>9. ASSUME evaluated'
        PROVE  InOrder(kv', nCur')
    <3>1. evaluated /\ o.ok
      BY <2>2, <2>9
    <3>2. InOrder(kv, nCur)
      BY <1>1, <3>1
    <3>3. InOrder(o.mem, nCur + 1)
      BY <2>2, <2>3, <3>1, <3>2, DecodeInOrder
    <3>4. nCur + 1 <= MaxCur
      <4>1. Holds(o.mem, nCur + 1) /\ nCur + 1 \in Nat
        BY <2>3, <2>4, <3>3, InOrderHolds
      <4>2. nCur + 1 <= kv.size
        BY <2>4, <4>1 DEF Holds, GoodMemory
      <4>3. kv.size <= MaxCur /\ kv.size \in Nat
        BY <1>1 DEF IosTypes, GoodMemory
      <4>. QED
        BY <2>3, <4>2, <4>3
    <3>. QED
      BY <2>2, <2>5, <3>3, <3>4
  <2>10. IosPhases'
    BY <1>2, <2>9 DEF IosPhases
  <2>. QED
    BY <2>8, <2>10 DEF IosInv
<1>. QED
  BY <1>4, <1>5

LEMMA IosStep == IosInv /\ [IosNext]_iosVars => IosInv'
<1>. SUFFICES ASSUME IosInv, [IosNext]_iosVars PROVE IosInv'
  OBVIOUS
<1>1. CASE \E path \in Models, n \in IosPromptSizes, max \in MaxTokens :
             completeJson(path, n, max)
  BY <1>1, CompleteJsonKeeps
<1>2. CASE configure
  BY <1>2, ConfigureKeeps
<1>3. CASE completionInit
  BY <1>3, CompletionInitKeeps
<1>4. CASE \E eog \in BOOLEAN, chars \in 0 .. 2 : completionLoop(eog, chars)
  BY <1>4, CompletionLoopKeeps
<1>5. CASE UNCHANGED iosVars
  BY <1>5 DEF IosInv, IosTypes, IosPhases, iosVars
<1>. QED
  BY <1>1, <1>2, <1>3, <1>4, <1>5 DEF IosNext, TaskStep

(* Every reachable state of the completion satisfies the invariant.        *)
THEOREM IosInvariance == IosSpec => []IosInv
<1>1. IosInit => IosInv
  BY IosInitial
<1>2. IosInv /\ [IosNext]_iosVars => IosInv'
  BY IosStep
<1>. QED
  BY <1>1, <1>2, PTL DEF IosSpec

LEMMA IosInvMeans == IosInv => IosTypeOK /\ IosCacheInStep
<1>. SUFFICES ASSUME IosInv PROVE IosTypeOK /\ IosCacheInStep
  OBVIOUS
<1>1. IosTypeOK
  BY GoodIsMemory DEF IosInv, IosTypes, IosTypeOK
<1>2. GoodMemory(kv) /\ nCur \in Nat
  <2>1. nCur \in 0 .. MaxCur /\ GoodMemory(kv)
    BY DEF IosInv, IosTypes
  <2>. QED
    BY <2>1
<1>3. IosCacheInStep
  BY <1>2, InOrderHolds DEF IosInv, IosPhases, IosCacheInStep
<1>. QED
  BY <1>1, <1>3

(* As long as every llama_decode succeeds the context holds the prompt and *)
(* the text up to n_cur, and nothing of an earlier completion.             *)
THEOREM IosStaysInStep == IosSpec => []IosCacheInStep
BY IosInvariance, IosInvMeans, PTL

-----------------------------------------------------------------------------
(* The three clients.                                                      *)

(* A behaviour of the composition is one of each client: a step of one     *)
(* leaves the state of the others alone.                                   *)
THEOREM ClientsBySelf == Spec => EngineSpec /\ DirectSpec /\ IosSpec
<1>1. Init => EngineInit /\ DirectInit /\ IosInit
  BY DEF Init
<1>2. [Next]_vars => [EngineNext]_chatVars /\ [DirectNext]_directVars /\ [IosNext]_iosVars
  BY DEF Next, Chat, Direct, Ios, vars
<1>. QED
  BY <1>1, <1>2, PTL DEF Spec, EngineSpec, DirectSpec, IosSpec

(* The types of the three.                                                 *)
THEOREM ClientsTypeCorrect == Spec => []TypeOK
<1>1. DirectInv => DirectTypeOK
  BY DirectInvMeans
<1>2. IosInv => IosTypeOK
  BY IosInvMeans
<1>3. EngineTypeOK /\ DirectTypeOK /\ IosTypeOK => TypeOK
  BY DEF TypeOK
<1>. QED
  BY <1>1, <1>2, <1>3, ClientsBySelf, ChatTypeCorrect, DirectInvariance, IosInvariance, PTL

(* The safety of the three, side by side: the chat session keeps in step   *)
(* with its context and keeps its system prompt, a loaded model is live    *)
(* and a fresh one answers; nativeInfer keeps in step and returns one      *)
(* object or none; the completion on iOS keeps in step.                    *)
THEOREM ClientsSafe ==
  Spec => [](/\ CacheInStep /\ SystemPromptStays /\ LoadedIsLive /\ FreshModelGenerates
             /\ DirectInStep /\ OneObjectOrNone
             /\ IosCacheInStep)
BY ClientsBySelf, CacheStaysInStep, SystemPromptKept, LoadedLive, FreshModelAnswers,
   DirectStaysInStep, ReturnsOneObjectOrNone, IosStaysInStep, PTL
=============================================================================
