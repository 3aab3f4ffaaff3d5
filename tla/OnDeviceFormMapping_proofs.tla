--------------------- MODULE OnDeviceFormMapping_proofs ----------------------
(***************************************************************************)
(* What mapTranscript promises, for every form, every grouping of its      *)
(* questions and every behaviour of the string functions.                  *)
(***************************************************************************)
EXTENDS OnDeviceFormMapping, FiniteSetTheorems, TLAPS

(* Nothing is merged before the merge starts.                              *)
BeforeMerge ==
  pc \in {"idle", "start", "chunks", "sanitize", "failed"} => field = 1

(* The merge has not touched the fields it has not reached.                *)
Untouched == \A f \in Fields : f >= field => answers[f] = None /\ from[f] = "none"

(* Duplicate protection, on the fields merged so far.                      *)
UniqueSoFar ==
  \A f, g \in Given(answers) :
    f < g /\ g \notin NameFields => Norm[answers[f]] # Norm[answers[g]]

(* The LLM's answer was taken, or there is a reason not to.                *)
KeptAt(f) ==
  LET text == ForField[f, llm[f]]
  IN  \/ answers[f] = text
      \/ <<f, text>> \notin WellFormed
      \/ f \notin NameFields /\ \E g \in Given(answers) :
                                  g < f /\ Norm[answers[g]] = Norm[text]

KeptSoFar == \A f \in Given(llm) : f < field => KeptAt(f)

(* An answer said to come from the LLM does.                               *)
FromLlm == \A f \in Fields : from[f] = "LLM" => llm[f] # None

(* A call has not begun its loop when it looks for the engine.             *)
FirstChunk == pc = "start" => chunk = 1

(* Once the groups are through (and during their loop, after the first),   *)
(* an empty reply has a reason.                                            *)
ReasonKnown ==
  /\ pc = "chunks" /\ chunk > 1 /\ llm = NoReply => reason # "none"
  /\ pc \in {"sanitize", "merge"} /\ llm = NoReply => reason # "none"

(* The result of the merged return is what the merge computed.             *)
ResultIsMerge ==
  result.path = "merged" =>
    /\ pc = "done"
    /\ field = NumFields + 1
    /\ result.answers = answers
    /\ result.reason = EffectiveReason
    /\ llm = NoReply => reason # "none"
    /\ result.llmReturnedAnswers = (llm # NoReply)

(* The catch block names its exception.                                    *)
FallbackHasReason == result.path = "fallback" => result.reason # "none"

MInv ==
  /\ TypeOK
  /\ BeforeMerge
  /\ Untouched
  /\ UniqueSoFar
  /\ KeptSoFar
  /\ FromLlm
  /\ FirstChunk
  /\ ReasonKnown
  /\ ResultIsMerge
  /\ FallbackHasReason

-----------------------------------------------------------------------------
(* buildQuestionGroups returns at least one group: the loop over the       *)
(* groups cannot end without a reply or a reason.                          *)
LEMMA SomeGroup == NumGroups \in Nat /\ NumGroups >= 1
<1> DEFINE Others == Fields \ NameFields
<1>1. IsFiniteSet(Fields)
  BY MappingConstants, FS_Interval DEF Fields
<1>2. IsFiniteSet(Others) /\ Cardinality(Others) \in Nat
  BY <1>1, FS_Subset, FS_CardinalityType
<1>3. NameFields = {} => Others # {}
  <2>1. 1 \in Fields
    BY MappingConstants DEF Fields
  <2> QED BY <2>1
<1>4. Cardinality(Others) = 0 => Others = {}
  BY <1>2, FS_EmptySet
<1> HIDE DEF Others
<1>5. NumGroups = IF NumFields <= SinglePassThreshold THEN 1
                  ELSE (IF NameFields = {} THEN 0 ELSE 1) + Cardinality(Others)
  BY DEF NumGroups, Others
<1> QED BY <1>2, <1>3, <1>4, <1>5

(* putAll keeps the map typed and, unless it adds nothing, non-empty.      *)
LEMMA PutAllType ==
  ASSUME NEW old \in Replies, NEW new \in Replies
  PROVE  /\ PutAll(old, new) \in Replies
         /\ new # NoReply => PutAll(old, new) # NoReply
<1>1. PutAll(old, new) \in Replies
  BY DEF PutAll, Replies
<1>2. ASSUME new # NoReply PROVE PutAll(old, new) # NoReply
  <2>1. PICK f \in Fields : new[f] # None
    BY <1>2 DEF NoReply, Replies
  <2>2. PutAll(old, new)[f] # None
    BY <2>1 DEF PutAll
  <2> QED BY <2>2 DEF NoReply
<1> QED BY <1>1, <1>2

(* An empty map is a map of answers.                                       *)
LEMMA NoReplyType == NoReply \in Replies
BY DEF NoReply, Replies

(* An accepted candidate is a text that passed isUsableFieldAnswer.        *)
LEMMA PickType ==
  ASSUME TypeOK, NEW f \in Fields,
         NEW heuristic \in HeuristicAnswers, NEW keyword \in KeywordAnswers,
         NEW picked, picked = Pick(f, heuristic, keyword)
  PROVE  /\ picked.source \in {"none", "LLM", "HEURISTIC", "FALLBACK"}
         /\ picked.text \in Texts \union {None}
         /\ picked.text # None => Usable(f, picked.text)
         /\ Candidate(f, llm[f]) => picked.text = ForField[f, llm[f]]
         /\ picked.source = "LLM" => llm[f] # None
         /\ picked.text = None => picked.source = "none"
<1>1. llm[f] \in Texts \union {None}
  BY DEF TypeOK, Replies
<1>2. \A t \in Texts : ForField[f, t] \in Texts /\ ForField[f, t] # None
  BY MappingConstants
<1>3. CASE Candidate(f, llm[f])
  <2>1. picked.source = "LLM" /\ picked.text = ForField[f, llm[f]]
    BY <1>3 DEF Pick, Picked
  <2>2. llm[f] \in Texts /\ Usable(f, ForField[f, llm[f]])
    BY <1>1, <1>3 DEF Candidate
  <2> QED BY <1>2, <2>1, <2>2, MappingConstants
<1>4. CASE ~Candidate(f, llm[f]) /\ Candidate(f, heuristic)
  <2>1. picked.source = "HEURISTIC" /\ picked.text = ForField[f, heuristic]
    BY <1>4 DEF Pick, Picked
  <2>2. heuristic \in Texts /\ Usable(f, ForField[f, heuristic])
    BY <1>4 DEF Candidate, HeuristicAnswers
  <2> QED BY <1>2, <1>4, <2>1, <2>2
<1>5. CASE ~Candidate(f, llm[f]) /\ ~Candidate(f, heuristic) /\ Candidate(f, keyword)
  <2>1. picked.source = "FALLBACK" /\ picked.text = ForField[f, keyword]
    BY <1>5 DEF Pick, Picked
  <2>2. keyword \in Texts /\ Usable(f, ForField[f, keyword])
    BY <1>5 DEF Candidate, KeywordAnswers
  <2> QED BY <1>2, <1>5, <2>1, <2>2
<1>6. CASE ~Candidate(f, llm[f]) /\ ~Candidate(f, heuristic) /\ ~Candidate(f, keyword)
  <2>1. picked.source = "none" /\ picked.text = None
    BY <1>6 DEF Pick
  <2> QED BY <1>6, <2>1
<1> QED BY <1>3, <1>4, <1>5, <1>6
-----------------------------------------------------------------------------
(* The inductive invariant.                                                *)
LEMMA InitMInv == Init => MInv
<1> SUFFICES ASSUME Init PROVE MInv
  OBVIOUS
<1> USE DEF Init
<1>1. TypeOK
  <2>1. field \in 1..(NumFields + 1)
    BY MappingConstants
  <2>2. result \in Results
    BY NoReplyType DEF NoResult, Results, Reasons
  <2> QED BY <2>1, <2>2, NoReplyType DEF TypeOK, Reasons
<1>2. Given(answers) = {} /\ Given(llm) = {}
  BY DEF Given, NoReply
<1>3. Untouched /\ FromLlm
  BY DEF Untouched, FromLlm, NoReply
<1>4. UniqueSoFar /\ KeptSoFar
  BY <1>2 DEF UniqueSoFar, KeptSoFar
<1>5. BeforeMerge /\ ReasonKnown /\ ResultIsMerge /\ FallbackHasReason /\ FirstChunk
  BY DEF FirstChunk, BeforeMerge, ReasonKnown, ResultIsMerge, FallbackHasReason, NoResult
<1> QED BY <1>1, <1>3, <1>4, <1>5 DEF MInv

(* A step that leaves the merge's locals alone keeps what is known of it.  *)
LEMMA MergeUnchanged ==
  ASSUME UNCHANGED <<field, answers, from, llm>>,
         Untouched, UniqueSoFar, KeptSoFar, FromLlm
  PROVE  (Untouched /\ UniqueSoFar /\ KeptSoFar /\ FromLlm)'
<1>1. Untouched' /\ FromLlm'
  BY DEF Untouched, FromLlm
<1>2. UniqueSoFar'
  BY DEF UniqueSoFar, Given
<1>3. KeptSoFar'
  BY DEF KeptSoFar, KeptAt, Given
<1> QED BY <1>1, <1>2, <1>3

(* Before the merge starts, the LLM's answers may change freely.           *)
LEMMA BeforeMergeFree ==
  ASSUME MInv, field = 1, UNCHANGED <<field, answers, from>>
  PROVE  (Untouched /\ UniqueSoFar /\ KeptSoFar /\ FromLlm)'
<1>1. Untouched'
  BY DEF MInv, Untouched
<1>2. UniqueSoFar'
  BY DEF MInv, UniqueSoFar, Given
<1>3. \A f \in Fields : f >= field /\ ~(f < field)
  BY DEF Fields
<1>4. KeptSoFar'
  BY <1>3 DEF KeptSoFar, Given
<1>5. FromLlm'
  BY <1>3 DEF MInv, FromLlm, Untouched
<1> QED BY <1>1, <1>2, <1>4, <1>5

(* mergeAnswersPerField, one field.                                        *)
LEMMA MergeFieldMInv ==
  ASSUME MInv, NEW heuristic \in HeuristicAnswers, NEW keyword \in KeywordAnswers,
         MergeField(heuristic, keyword)
  PROVE  MInv'
<1> DEFINE picked == Pick(field, heuristic, keyword)
<1>1. /\ pc = "merge" /\ pc' = "merge"
      /\ field \in Fields
      /\ field \in Nat
      /\ field' = field + 1
      /\ answers' = [answers EXCEPT ![field] = picked.text]
      /\ from' = [from EXCEPT ![field] = picked.source]
      /\ UNCHANGED <<chunk, llm, reason, result>>
  BY MappingConstants DEF MInv, TypeOK, Fields, MergeField
<1>2. TypeOK
  BY DEF MInv
<1>3. /\ picked.source \in {"none", "LLM", "HEURISTIC", "FALLBACK"}
      /\ picked.text \in Texts \union {None}
      /\ picked.text # None => Usable(field, picked.text)
      /\ Candidate(field, llm[field]) => picked.text = ForField[field, llm[field]]
      /\ picked.source = "LLM" => llm[field] # None
      /\ picked.text = None => picked.source = "none"
  BY <1>1, <1>2, PickType
<1> HIDE DEF picked
<1>4. answers \in [Fields -> Texts \union {None}] /\ DOMAIN from = Fields
  BY <1>2 DEF TypeOK, Replies
<1>5. /\ answers'[field] = picked.text
      /\ from'[field] = picked.source
      /\ \A f \in Fields : f # field => answers'[f] = answers[f] /\ from'[f] = from[f]
  BY <1>1, <1>4
<1>6. Fields \subseteq Nat
  BY DEF Fields
<1>7. \A f \in Given(answers) : f < field
  BY <1>1, <1>6 DEF MInv, Untouched, Given
<1>8. TypeOK'
  <2>1. answers' \in Replies
    BY <1>1, <1>3, <1>4 DEF Replies
  <2>2. from' \in [Fields -> {"none", "LLM", "HEURISTIC", "FALLBACK"}]
    BY <1>1, <1>2, <1>3 DEF TypeOK
  <2>3. field' \in 1..(NumFields + 1)
    BY <1>1, MappingConstants DEF Fields
  <2> QED BY <1>1, <1>2, <2>1, <2>2, <2>3 DEF TypeOK
<1>9. Untouched'
  BY <1>1, <1>5, <1>6 DEF MInv, Untouched
<1>10. UniqueSoFar'
  <2> SUFFICES ASSUME NEW f \in Given(answers'), NEW g \in Given(answers'),
                      f < g, g \notin NameFields
               PROVE  Norm[answers'[f]] # Norm[answers'[g]]
    BY DEF UniqueSoFar, Given
  <2>1. f \in Fields /\ g \in Fields /\ answers'[f] # None /\ answers'[g] # None
    BY DEF Given
  <2>2. g <= field
    BY <1>1, <1>5, <1>6, <1>7, <2>1 DEF Given
  <2>3. f # field
    BY <1>1, <1>6, <2>1, <2>2
  <2>4. f \in Given(answers) /\ answers'[f] = answers[f]
    BY <1>5, <2>1, <2>3 DEF Given
  <2>5. CASE g = field
    BY <1>3, <1>5, <2>1, <2>4, <2>5 DEF Usable, Used
  <2>6. CASE g # field
    <3>1. g \in Given(answers) /\ answers'[g] = answers[g]
      BY <1>5, <2>1, <2>6 DEF Given
    <3> QED BY <2>4, <3>1 DEF MInv, UniqueSoFar
  <2> QED BY <2>5, <2>6
<1>11. KeptSoFar'
  <2> SUFFICES ASSUME NEW f \in Given(llm), f < field + 1
               PROVE  KeptAt(f)'
    BY <1>1 DEF KeptSoFar, Given
  <2>1. f \in Fields /\ llm[f] # None
    BY DEF Given
  <2>2. \A g \in Given(answers) : g \in Given(answers)' /\ answers'[g] = answers[g] /\ g \in Fields
    BY <1>1, <1>5, <1>6, <1>7 DEF Given
  <2>3. CASE f = field
    <3> DEFINE text == ForField[f, llm[f]]
    <3>1. CASE Candidate(f, llm[f])
      BY <1>1, <1>3, <1>5, <2>3, <3>1 DEF KeptAt
    <3>2. CASE ~Candidate(f, llm[f])
      <4>1. ~Usable(f, text)
        BY <2>1, <3>2 DEF Candidate
      <4>2. <<f, text>> \notin WellFormed \/ (f \notin NameFields /\ Norm[text] \in Used)
        BY <4>1 DEF Usable
      <4>3. CASE <<f, text>> \notin WellFormed
        BY <1>1, <4>3 DEF KeptAt
      <4>4. CASE f \notin NameFields /\ Norm[text] \in Used
        <5>1. PICK g \in Given(answers) : Norm[answers[g]] = Norm[text]
          BY <4>4 DEF Used
        <5>2. g < f
          BY <1>7, <2>3
        <5> QED BY <1>1, <2>2, <4>4, <5>1, <5>2 DEF KeptAt
      <4> QED BY <4>2, <4>3, <4>4
    <3> QED BY <3>1, <3>2
  <2>4. CASE f # field
    <3>1. f < field
      BY <1>1, <1>6, <2>1, <2>4
    <3>2. KeptAt(f)
      BY <3>1 DEF MInv, KeptSoFar
    <3> QED BY <1>1, <1>5, <2>1, <2>2, <2>4, <3>2 DEF KeptAt
  <2> QED BY <2>3, <2>4
<1>12. FromLlm'
  BY <1>1, <1>3, <1>5 DEF MInv, FromLlm
<1>13. BeforeMerge' /\ ReasonKnown' /\ ResultIsMerge' /\ FallbackHasReason' /\ FirstChunk'
  BY <1>1 DEF MInv, FirstChunk, BeforeMerge, ReasonKnown, ResultIsMerge, FallbackHasReason
<1> QED BY <1>8, <1>9, <1>10, <1>11, <1>12, <1>13 DEF MInv
(* A call starts from the initial locals.                                  *)
LEMMA MapTranscriptMInv == MInv /\ MapTranscript => MInv'
<1> SUFFICES ASSUME MapTranscript PROVE MInv'
  OBVIOUS
<1> USE DEF MapTranscript
<1>1. TypeOK'
  <2>1. field' \in 1..(NumFields + 1)
    BY MappingConstants
  <2>2. result' \in Results
    BY NoReplyType DEF NoResult, Results, Reasons
  <2> QED BY <2>1, <2>2, NoReplyType DEF TypeOK, Reasons
<1>2. Given(answers)' = {} /\ Given(llm)' = {}
  BY DEF Given, NoReply
<1>3. Untouched' /\ FromLlm'
  BY DEF Untouched, FromLlm, NoReply
<1>4. UniqueSoFar' /\ KeptSoFar'
  BY <1>2 DEF UniqueSoFar, KeptSoFar
<1>5. BeforeMerge' /\ ReasonKnown' /\ ResultIsMerge' /\ FallbackHasReason' /\ FirstChunk'
  BY DEF FirstChunk, BeforeMerge, ReasonKnown, ResultIsMerge, FallbackHasReason, NoResult
<1> QED BY <1>1, <1>3, <1>4, <1>5 DEF MInv

(* An empty transcript returns before anything is asked or merged.         *)
LEMMA MapBlankMInv ==
  ASSUME MInv, NEW strategy \in {"HEURISTIC_FALLBACK", "UNKNOWN"}, MapBlank(strategy)
  PROVE  MInv'
<1> USE DEF MapBlank, locals
<1>1. TypeOK'
  <2>1. result' \in Results
    BY NoReplyType DEF NoResult, Results, Reasons
  <2> QED BY <2>1 DEF MInv, TypeOK
<1>2. (Untouched /\ UniqueSoFar /\ KeptSoFar /\ FromLlm)'
  BY MergeUnchanged DEF MInv
<1>3. BeforeMerge' /\ ReasonKnown' /\ ResultIsMerge' /\ FallbackHasReason' /\ FirstChunk'
  BY DEF FirstChunk, BeforeMerge, ReasonKnown, ResultIsMerge, FallbackHasReason, NoResult
<1> QED BY <1>1, <1>2, <1>3 DEF MInv

(* Without an engine the loop is skipped, and the reason is noted.         *)
LEMMA ResolveEngineMInv ==
  ASSUME MInv, NEW found \in BOOLEAN, ResolveEngine(found)
  PROVE  MInv'
<1> USE DEF ResolveEngine
<1>1. TypeOK'
  BY DEF MInv, TypeOK, Reasons
<1>2. (Untouched /\ UniqueSoFar /\ KeptSoFar /\ FromLlm)'
  BY MergeUnchanged DEF MInv
<1>3. BeforeMerge' /\ ResultIsMerge' /\ FallbackHasReason' /\ FirstChunk'
  BY DEF MInv, FirstChunk, BeforeMerge, ResultIsMerge, FallbackHasReason
<1>4. chunk = 1 => ReasonKnown'
  BY DEF MInv, ReasonKnown
<1>5. chunk = 1
  BY DEF MInv, FirstChunk
<1> QED BY <1>1, <1>2, <1>3, <1>4, <1>5 DEF MInv, FirstChunk

(* The loop over the question groups.                                      *)
LEMMA ChunkMInv == MInv /\ Chunk => MInv'
<1> SUFFICES ASSUME MInv, Chunk PROVE MInv'
  OBVIOUS
<1>1. /\ NextChunk
      /\ pc' \in {"chunks", "failed"}
      /\ llm' \in Replies
      /\ reason' \in Reasons
      /\ llm' = NoReply /\ pc' = "chunks" => reason' # "none"
  <2>1. llm \in Replies /\ reason \in Reasons
    BY DEF MInv, TypeOK
  <2>2. CASE ChunkFails
    BY <2>1, <2>2 DEF ChunkFails, NextChunk, Reasons
  <2>3. CASE ChunkEmpty
    BY <2>1, <2>3 DEF ChunkEmpty, NextChunk, Reasons
  <2>4. CASE \E extracted \in Replies : ChunkAnswers(extracted)
    <3>1. PICK extracted \in Replies : ChunkAnswers(extracted)
      BY <2>4
    <3>2. llm' \in Replies /\ llm' # NoReply
      BY <2>1, <3>1, PutAllType DEF ChunkAnswers
    <3> QED BY <2>1, <3>1, <3>2 DEF ChunkAnswers, NextChunk
  <2>5. CASE ChunkMalformed
    BY <2>1, <2>5 DEF ChunkMalformed, NextChunk
  <2> QED BY <2>2, <2>3, <2>4, <2>5 DEF Chunk
<1>2. TypeOK'
  BY <1>1 DEF MInv, TypeOK, NextChunk
<1>3. field = 1
  BY <1>1 DEF MInv, BeforeMerge, NextChunk
<1>4. (Untouched /\ UniqueSoFar /\ KeptSoFar /\ FromLlm)'
  BY <1>1, <1>3, BeforeMergeFree DEF NextChunk
<1>5. BeforeMerge' /\ ResultIsMerge' /\ FallbackHasReason' /\ FirstChunk'
  BY <1>1 DEF MInv, BeforeMerge, ResultIsMerge, FallbackHasReason, FirstChunk, NextChunk
<1>6. ReasonKnown'
  BY <1>1 DEF ReasonKnown
<1> QED BY <1>2, <1>4, <1>5, <1>6 DEF MInv

(* The loop had a first group, so an empty reply has a reason by now.      *)
LEMMA ChunksDoneMInv == MInv /\ ChunksDone => MInv'
<1> SUFFICES ASSUME MInv, ChunksDone PROVE MInv'
  OBVIOUS
<1> USE DEF ChunksDone, locals
<1>1. TypeOK'
  BY DEF MInv, TypeOK
<1>2. (Untouched /\ UniqueSoFar /\ KeptSoFar /\ FromLlm)'
  BY MergeUnchanged DEF MInv
<1>3. BeforeMerge' /\ ResultIsMerge' /\ FallbackHasReason' /\ FirstChunk'
  BY DEF MInv, BeforeMerge, ResultIsMerge, FallbackHasReason, FirstChunk
<1>4. chunk > 1
  BY SomeGroup DEF MInv, TypeOK
<1>5. ReasonKnown'
  BY <1>4 DEF MInv, ReasonKnown
<1> QED BY <1>1, <1>2, <1>3, <1>5 DEF MInv

(* sanitizeLlmAnswers discards everything only with a reason.              *)
LEMMA SanitizeMInv == MInv /\ SanitizeLlmAnswers => MInv'
<1> SUFFICES ASSUME MInv, SanitizeLlmAnswers PROVE MInv'
  OBVIOUS
<1> USE DEF SanitizeLlmAnswers
<1>1. TypeOK'
  <2>1. Sanitize(llm) \in Replies
    BY NoReplyType DEF MInv, TypeOK, Sanitize
  <2> QED BY <2>1 DEF MInv, TypeOK, Reasons
<1>2. field = 1
  BY DEF MInv, BeforeMerge
<1>3. (Untouched /\ UniqueSoFar /\ KeptSoFar /\ FromLlm)'
  BY <1>2, BeforeMergeFree
<1>4. BeforeMerge' /\ ResultIsMerge' /\ FallbackHasReason' /\ FirstChunk'
  BY DEF MInv, BeforeMerge, ResultIsMerge, FallbackHasReason, FirstChunk
<1>5. ReasonKnown'
  BY DEF MInv, ReasonKnown
<1> QED BY <1>1, <1>3, <1>4, <1>5 DEF MInv

(* What is returned after the merge is what the merge computed.            *)
LEMMA ReturnMergedMInv == MInv /\ ReturnMerged => MInv'
<1> SUFFICES ASSUME MInv, ReturnMerged PROVE MInv'
  OBVIOUS
<1> USE DEF ReturnMerged, locals
<1>1. Strategy \in {"ON_DEVICE_LLM", "MIXED", "HEURISTIC_FALLBACK", "UNKNOWN"}
  BY DEF Strategy
<1>2. EffectiveReason \in Reasons
  BY DEF MInv, TypeOK, EffectiveReason, Reasons
<1>3. TypeOK'
  <2>1. result' \in Results
    BY <1>1, <1>2 DEF MInv, TypeOK, Results
  <2> QED BY <2>1 DEF MInv, TypeOK
<1>4. (Untouched /\ UniqueSoFar /\ KeptSoFar /\ FromLlm)'
  BY MergeUnchanged DEF MInv
<1>5. ResultIsMerge'
  <2>1. field = NumFields + 1
    BY MappingConstants DEF MInv, TypeOK
  <2>2. EffectiveReason' = EffectiveReason
    BY DEF EffectiveReason, Strategy, UsedSources, Given
  <2>3. llm = NoReply => reason # "none"
    BY DEF MInv, ReasonKnown
  <2> QED BY <2>1, <2>2, <2>3 DEF ResultIsMerge
<1>6. BeforeMerge' /\ ReasonKnown' /\ FallbackHasReason' /\ FirstChunk'
  BY DEF BeforeMerge, ReasonKnown, FallbackHasReason, FirstChunk
<1> QED BY <1>3, <1>4, <1>5, <1>6 DEF MInv

(* The catch block returns keyword answers or an error, with a reason.     *)
LEMMA ReturnFallbackMInv ==
  ASSUME MInv, NEW found \in Replies, ReturnFallback(found)
  PROVE  MInv'
<1> USE DEF ReturnFallback, locals
<1>1. result' \in Results /\ result'.path = "fallback" /\ result'.reason = "error"
  BY NoReplyType DEF NoResult, Results, Reasons
<1>2. TypeOK'
  BY <1>1 DEF MInv, TypeOK
<1>3. (Untouched /\ UniqueSoFar /\ KeptSoFar /\ FromLlm)'
  BY MergeUnchanged DEF MInv
<1>4. BeforeMerge' /\ ReasonKnown' /\ ResultIsMerge' /\ FallbackHasReason' /\ FirstChunk'
  BY <1>1 DEF BeforeMerge, ReasonKnown, ResultIsMerge, FallbackHasReason, FirstChunk
<1> QED BY <1>2, <1>3, <1>4 DEF MInv

(* The invariant is about the variables only.                              *)
LEMMA StutterMInv == MInv /\ UNCHANGED vars => MInv'
<1> SUFFICES ASSUME MInv, UNCHANGED vars PROVE MInv'
  OBVIOUS
<1> USE DEF vars, locals
<1>1. TypeOK'
  BY DEF MInv, TypeOK
<1>2. (Untouched /\ UniqueSoFar /\ KeptSoFar /\ FromLlm)'
  BY MergeUnchanged DEF MInv
<1>3. EffectiveReason' = EffectiveReason
  BY DEF EffectiveReason, Strategy, UsedSources, Given
<1>4. BeforeMerge' /\ ReasonKnown' /\ ResultIsMerge' /\ FallbackHasReason' /\ FirstChunk'
  BY <1>3 DEF MInv, BeforeMerge, ReasonKnown, ResultIsMerge, FallbackHasReason, FirstChunk
<1> QED BY <1>1, <1>2, <1>4 DEF MInv

(* Every step of mapTranscript keeps the invariant.                        *)
LEMMA NextMInv == MInv /\ [Next]_vars => MInv'
<1> SUFFICES ASSUME MInv, [Next]_vars PROVE MInv'
  OBVIOUS
<1>1. CASE MapTranscript
  BY <1>1, MapTranscriptMInv
<1>2. CASE \E strategy \in {"HEURISTIC_FALLBACK", "UNKNOWN"} : MapBlank(strategy)
  BY <1>2, MapBlankMInv
<1>3. CASE \E found \in BOOLEAN : ResolveEngine(found)
  BY <1>3, ResolveEngineMInv
<1>4. CASE Chunk
  BY <1>4, ChunkMInv
<1>5. CASE ChunksDone
  BY <1>5, ChunksDoneMInv
<1>6. CASE SanitizeLlmAnswers
  BY <1>6, SanitizeMInv
<1>7. CASE \E heuristic \in HeuristicAnswers, keyword \in KeywordAnswers :
             MergeField(heuristic, keyword)
  BY <1>7, MergeFieldMInv
<1>8. CASE ReturnMerged
  BY <1>8, ReturnMergedMInv
<1>9. CASE \E found \in Replies : ReturnFallback(found)
  BY <1>9, ReturnFallbackMInv
<1>10. CASE UNCHANGED vars
  BY <1>10, StutterMInv
<1> QED
  BY <1>1, <1>2, <1>3, <1>4, <1>5, <1>6, <1>7, <1>8, <1>9, <1>10 DEF Next, Step

(* The invariant holds throughout.                                         *)
LEMMA AlwaysMInv == Spec => []MInv
BY InitMInv, NextMInv, PTL DEF Spec

-----------------------------------------------------------------------------
(* mapTranscript's locals and result keep their types.                     *)
THEOREM MappingTypeCorrect == Spec => []TypeOK
<1>1. MInv => TypeOK
  BY DEF MInv
<1> QED BY <1>1, AlwaysMInv, PTL

(* mergeAnswersPerField never repeats an answer in a field that is not a   *)
(* name, whatever the three sources offer.                                 *)
THEOREM MergeIsUnique == Spec => []MergedAnswersUnique
<1>1. MInv => MergedAnswersUnique
  BY DEF MInv, ResultIsMerge, UniqueSoFar, MergedAnswersUnique
<1> QED BY <1>1, AlwaysMInv, PTL

(* A well-formed answer of the LLM is only ever displaced by an equal      *)
(* answer of an earlier field.                                             *)
THEOREM LlmComesFirst == Spec => []LlmAnswerKept
<1>1. MInv => LlmAnswerKept
  <2> SUFFICES ASSUME MInv, result.path = "merged", NEW f \in Given(llm)
               PROVE  KeptAt(f) /\ result.answers = answers
    BY DEF LlmAnswerKept, KeptAt
  <2>1. field = NumFields + 1 /\ result.answers = answers
    BY DEF MInv, ResultIsMerge
  <2>2. f < field
    BY <2>1, MappingConstants DEF Given, Fields
  <2> QED BY <2>1, <2>2 DEF MInv, KeptSoFar
<1> QED BY <1>1, AlwaysMInv, PTL

(* The reason the form shows is only given when no answer is the LLM's.    *)
THEOREM ReasonIsTrue == Spec => []ReasonMeansNoLlm
<1>1. MInv => ReasonMeansNoLlm
  <2> SUFFICES ASSUME MInv, result.reason # "none", result.path = "merged",
                      NEW f \in Given(answers)
               PROVE  from[f] # "LLM"
    BY DEF MInv, ResultIsMerge, ReasonMeansNoLlm
  <2>1. EffectiveReason # "none"
    BY DEF MInv, ResultIsMerge
  <2>2. "LLM" \notin UsedSources
    BY <2>1 DEF EffectiveReason, Strategy
  <2> QED BY <2>2 DEF UsedSources
<1> QED BY <1>1, AlwaysMInv, PTL

(* Every mapping the LLM contributed nothing to says why.                  *)
THEOREM FallbackIsExplained == Spec => []NoSilentFallback
<1>1. MInv => NoSilentFallback
  <2> SUFFICES ASSUME MInv, result.path = "merged", ~result.llmReturnedAnswers
               PROVE  result.reason # "none"
    BY DEF MInv, FallbackHasReason, NoSilentFallback
  <2>1. llm = NoReply /\ reason # "none" /\ result.reason = EffectiveReason
    BY DEF MInv, ResultIsMerge
  <2>2. \A f \in Fields : from[f] # "LLM"
    BY <2>1 DEF MInv, FromLlm, NoReply
  <2>3. "LLM" \notin UsedSources
    BY <2>2 DEF UsedSources, Given
  <2>4. Strategy \notin {"ON_DEVICE_LLM", "MIXED"}
    BY <2>3 DEF Strategy
  <2> QED BY <2>1, <2>4 DEF EffectiveReason
<1> QED BY <1>1, AlwaysMInv, PTL
=============================================================================
