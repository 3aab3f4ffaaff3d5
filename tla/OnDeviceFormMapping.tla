------------------------ MODULE OnDeviceFormMapping -------------------------
(***************************************************************************)
(* mapTranscript of the on-device repository (Android): one LLM call per   *)
(* group of questions, then a merge of the LLM's answers with two          *)
(* heuristics, field by field, and a keyword fallback for everything that  *)
(* throws on the way.                                                      *)
(*                                                                         *)
(* A field is its position in definitionProvider.questions.  A text stands *)
(* for an answer; what the string functions make of it is given by the     *)
(* constants Norm, ForField and WellFormed.  The heuristic and the keyword *)
(* candidate of a field are looked at once, when the merge reaches the     *)
(* field: they are chosen there.  Prompts, the cut of long transcripts and *)
(* logs are left out.                                                      *)
(***************************************************************************)
EXTENDS Naturals, FiniteSets

CONSTANTS
  NumFields,            \* questions of the form
  NameFields,           \* those isNameField holds for
  SinglePassThreshold,  \* SMALL_FORM_SINGLE_PASS_THRESHOLD
  Texts, None,          \* answers; no answer
  Norms, NoNorm,        \* normalised answers; the empty one
  Norm,                 \* normalizeAnswerValue
  ForField,             \* normalizeCandidateForField
  WellFormed            \* <<field, text>> that pass isUsableFieldAnswer's other tests

Fields == 1..NumFields

ASSUME MappingConstants ==
  /\ NumFields \in Nat \ {0}
  /\ NameFields \subseteq Fields
  /\ SinglePassThreshold \in Nat
  /\ None \notin Texts
  /\ NoNorm \in Norms
  /\ Norm \in [Texts -> Norms]
  /\ ForField \in [Fields \X Texts -> Texts]
  /\ WellFormed \subseteq {p \in Fields \X Texts : Norm[p[2]] # NoNorm}

Replies == [Fields -> Texts \union {None}]   \* a Map<String, String>

NoReply == [f \in Fields |-> None]

Reasons == {"none", "noEngine", "call", "schema", "discarded", "error"}

VARIABLES
  pc,        \* "idle", "start", "chunks", "sanitize", "merge", "failed", "done"
  chunk,     \* the group whose turn it is
  llm,       \* groupedAnswers, later sanitizedLlmAnswers
  reason,    \* llmFailureReason
  field,     \* the field the merge has reached
  answers,   \* result of the merge
  from,      \* the CandidateSource of each answer
  result     \* what mapTranscript returned

locals == <<chunk, llm, reason, field, answers, from>>
vars == <<pc, locals, result>>

Results ==
  [status : {"none", "ok", "error"},
   path : {"none", "blank", "merged", "fallback"},   \* the return taken
   answers : Replies,
   strategy : {"ON_DEVICE_LLM", "MIXED", "HEURISTIC_FALLBACK", "UNKNOWN"},
   reason : Reasons,
   llmReturnedAnswers : BOOLEAN]

NoResult ==
  [status |-> "none", path |-> "none", answers |-> NoReply, strategy |-> "UNKNOWN",
   reason |-> "none", llmReturnedAnswers |-> FALSE]

-----------------------------------------------------------------------------
(* buildQuestionGroups: all questions at once in a small form; otherwise   *)
(* the names together and every other question alone.                      *)
NumGroups ==
  IF NumFields <= SinglePassThreshold
  THEN 1
  ELSE (IF NameFields = {} THEN 0 ELSE 1) + Cardinality(Fields \ NameFields)

(* groupedAnswers.putAll(extracted): a later group may answer any field.   *)
PutAll(old, new) == [f \in Fields |-> IF new[f] = None THEN old[f] ELSE new[f]]

Given(reply) == {f \in Fields : reply[f] # None}

(* The normalised values that are not blank.                               *)
Meanings(reply) == {Norm[reply[f]] : f \in Given(reply)} \ {NoNorm}

(* sanitizeLlmAnswers: all the same in two fields or more is no answer.    *)
Sanitize(reply) ==
  IF /\ \E m \in Norms : Meanings(reply) = {m}
     /\ \E f, g \in Given(reply) :
          f # g /\ Norm[reply[f]] # NoNorm /\ Norm[reply[g]] # NoNorm
  THEN NoReply ELSE reply

(* What extractHeuristicAnswers and the keyword repository may find for a  *)
(* field.                                                                  *)
HeuristicAnswers == Texts \union {None}
KeywordAnswers == Texts \union {None}

Used == {Norm[answers[f]] : f \in Given(answers)}

Init ==
  /\ pc = "idle"
  /\ chunk = 1
  /\ llm = NoReply
  /\ reason = "none"
  /\ field = 1
  /\ answers = NoReply
  /\ from = [f \in Fields |-> "none"]
  /\ result = NoResult

(* A call starts with fresh locals; the repository keeps nothing.          *)
MapTranscript ==
  /\ pc \in {"idle", "done"}
  /\ pc' = "start"
  /\ chunk' = 1
  /\ llm' = NoReply
  /\ reason' = "none"
  /\ field' = 1
  /\ answers' = NoReply
  /\ from' = [f \in Fields |-> "none"]
  /\ result' = NoResult

(* No text at all: the keyword repository finds nothing in it, or throws.  *)
MapBlank(strategy) ==
  /\ pc = "start"
  /\ result' = [NoResult EXCEPT !.status = "ok", !.path = "blank", !.strategy = strategy]
  /\ pc' = "done"
  /\ UNCHANGED locals

-----------------------------------------------------------------------------
(* The loop over the question groups.                                      *)

ResolveEngine(found) ==
  /\ pc = "start"
  /\ IF found
     THEN pc' = "chunks" /\ reason' = reason
     ELSE pc' = "sanitize" /\ reason' = "noEngine"
  /\ UNCHANGED <<chunk, llm, field, answers, from, result>>

NextChunk ==
  /\ pc = "chunks"
  /\ chunk <= NumGroups
  /\ chunk' = chunk + 1
  /\ UNCHANGED <<field, answers, from, result>>

(* completeJson threw.                                                     *)
ChunkFails ==
  /\ NextChunk
  /\ reason' = "call"
  /\ UNCHANGED <<pc, llm>>

(* Nothing could be extracted; an earlier reason is kept.                  *)
ChunkEmpty ==
  /\ NextChunk
  /\ reason' = IF reason = "none" THEN "schema" ELSE reason
  /\ UNCHANGED <<pc, llm>>

ChunkAnswers(extracted) ==
  /\ NextChunk
  /\ extracted # NoReply
  /\ llm' = PutAll(llm, extracted)
  /\ UNCHANGED <<pc, reason>>

(* A reply whose "answers" is no object makes parseAnswersCandidate throw: *)
(* the whole mapping is given up.                                          *)
ChunkMalformed ==
  /\ NextChunk
  /\ pc' = "failed"
  /\ UNCHANGED <<llm, reason>>

(* Slip: the loop goes on until some group was answered.                   *)
ChunksDoneIfAnswered ==
  /\ pc = "chunks"
  /\ chunk > NumGroups
  /\ llm # NoReply
  /\ pc' = "sanitize"
  /\ UNCHANGED <<locals, result>>

ChunksDone ==
  /\ pc = "chunks"
  /\ chunk > NumGroups
  /\ pc' = "sanitize"
  /\ UNCHANGED <<locals, result>>

(* Slip: no reason is given for discarding everything.                     *)
SanitizeUnexplained ==
  /\ pc = "sanitize"
  /\ llm' = Sanitize(llm)
  /\ pc' = "merge"
  /\ UNCHANGED <<chunk, reason, field, answers, from, result>>

SanitizeLlmAnswers ==
  /\ pc = "sanitize"
  /\ llm' = Sanitize(llm)
  /\ reason' = IF llm # NoReply /\ llm' = NoReply /\ reason = "none"
               THEN "discarded" ELSE reason
  /\ pc' = "merge"
  /\ UNCHANGED <<chunk, field, answers, from, result>>

-----------------------------------------------------------------------------
(* mergeAnswersPerField, one iteration per field.                          *)

(* Slip: a name is not recorded among the used answers.                    *)
UsableExceptNames(f, text) ==
  /\ <<f, text>> \in WellFormed
  /\ f \in NameFields \/ \A g \in Given(answers) \ NameFields : Norm[answers[g]] # Norm[text]

(* isUsableFieldAnswer: a name may repeat an earlier answer.               *)
Usable(f, text) ==
  /\ <<f, text>> \in WellFormed
  /\ f \in NameFields \/ Norm[text] \notin Used

Candidate(f, text) == text # None /\ Usable(f, ForField[f, text])

Picked(f, source, text) == [source |-> source, text |-> ForField[f, text]]

(* Slip: the heuristics come first.                                        *)
PickHeuristicFirst(f, heuristic, keyword) ==
  IF Candidate(f, heuristic) THEN Picked(f, "HEURISTIC", heuristic)
  ELSE IF Candidate(f, llm[f]) THEN Picked(f, "LLM", llm[f])
  ELSE IF Candidate(f, keyword) THEN Picked(f, "FALLBACK", keyword)
  ELSE [source |-> "none", text |-> None]

(* The first usable candidate: LLM, heuristic, keyword fallback.           *)
Pick(f, heuristic, keyword) ==
  IF Candidate(f, llm[f]) THEN Picked(f, "LLM", llm[f])
  ELSE IF Candidate(f, heuristic) THEN Picked(f, "HEURISTIC", heuristic)
  ELSE IF Candidate(f, keyword) THEN Picked(f, "FALLBACK", keyword)
  ELSE [source |-> "none", text |-> None]

(* Slip: every other field is skipped.                                     *)
MergeFieldSkipping(heuristic, keyword) ==
  /\ pc = "merge"
  /\ field <= NumFields
  /\ LET picked == Pick(field, heuristic, keyword)
     IN  /\ answers' = [answers EXCEPT ![field] = picked.text]
         /\ from' = [from EXCEPT ![field] = picked.source]
  /\ field' = field + 2
  /\ UNCHANGED <<pc, chunk, llm, reason, result>>

MergeField(heuristic, keyword) ==
  /\ pc = "merge"
  /\ field <= NumFields
  /\ LET picked == Pick(field, heuristic, keyword)
     IN  /\ answers' = [answers EXCEPT ![field] = picked.text]
         /\ from' = [from EXCEPT ![field] = picked.source]
  /\ field' = field + 1
  /\ UNCHANGED <<pc, chunk, llm, reason, result>>

UsedSources == {from[f] : f \in Given(answers)}

Strategy ==
  IF UsedSources = {"LLM"} THEN "ON_DEVICE_LLM"
  ELSE IF "LLM" \in UsedSources THEN "MIXED"
  ELSE IF UsedSources # {} THEN "HEURISTIC_FALLBACK"
  ELSE "UNKNOWN"

(* Slip: the reason of some group is reported although others answered.    *)
AnyReason == reason

(* The reason is dropped when the LLM contributed.                         *)
EffectiveReason == IF Strategy \in {"ON_DEVICE_LLM", "MIXED"} THEN "none" ELSE reason

ReturnMerged ==
  /\ pc = "merge"
  /\ field > NumFields
  /\ result' = [status |-> "ok", path |-> "merged", answers |-> answers, strategy |-> Strategy,
                reason |-> EffectiveReason, llmReturnedAnswers |-> llm # NoReply]
  /\ pc' = "done"
  /\ UNCHANGED locals

(* Something threw: the keyword repository's answers, as they are, or an   *)
(* error if it has none (or failed).                                       *)
ReturnFallback(found) ==
  /\ pc = "failed"
  /\ result' = IF found = NoReply
               THEN [NoResult EXCEPT !.status = "error", !.path = "fallback", !.reason = "error"]
               ELSE [NoResult EXCEPT !.status = "ok", !.path = "fallback", !.answers = found,
                                     !.strategy = "HEURISTIC_FALLBACK", !.reason = "error"]
  /\ pc' = "done"
  /\ UNCHANGED locals

-----------------------------------------------------------------------------
Chunk ==
  \/ ChunkFails
  \/ ChunkEmpty
  \/ \E extracted \in Replies : ChunkAnswers(extracted)
  \/ ChunkMalformed

Step ==
  \/ \E strategy \in {"HEURISTIC_FALLBACK", "UNKNOWN"} : MapBlank(strategy)
  \/ \E found \in BOOLEAN : ResolveEngine(found)
  \/ Chunk
  \/ ChunksDone
  \/ SanitizeLlmAnswers
  \/ \E heuristic \in HeuristicAnswers, keyword \in KeywordAnswers :
       MergeField(heuristic, keyword)
  \/ ReturnMerged
  \/ \E found \in Replies : ReturnFallback(found)

Next == MapTranscript \/ Step

(* The mapping runs on; a call into the engine returns (DirectLlamaEngine, *)
(* CallsReturn).                                                           *)
Spec == Init /\ [][Next]_vars
FairSpec == Spec /\ WF_vars(Step)
-----------------------------------------------------------------------------
(* Types of the locals and of the result.                                  *)
TypeOK ==
  /\ pc \in {"idle", "start", "chunks", "sanitize", "merge", "failed", "done"}
  /\ chunk \in Nat
  /\ llm \in Replies
  /\ reason \in Reasons
  /\ field \in 1..(NumFields + 1)
  /\ answers \in Replies
  /\ from \in [Fields -> {"none", "LLM", "HEURISTIC", "FALLBACK"}]
  /\ result \in Results

(* The merge's duplicate protection: a field that is not a name never      *)
(* repeats what an earlier field says, whichever of the three sources the  *)
(* two answers came from.                                                  *)
MergedAnswersUnique ==
  result.path = "merged" =>
    \A f, g \in Given(result.answers) :
      f < g /\ g \notin NameFields => Norm[result.answers[f]] # Norm[result.answers[g]]

(* The LLM comes first: an answer of the LLM that survived sanitizing is   *)
(* in the result unless it is malformed or repeats an earlier field.       *)
LlmAnswerKept ==
  result.path = "merged" =>
    \A f \in Given(llm) :
      LET text == ForField[f, llm[f]]
      IN  \/ result.answers[f] = text
          \/ <<f, text>> \notin WellFormed
          \/ f \notin NameFields /\ \E g \in Given(result.answers) :
                                      g < f /\ Norm[result.answers[g]] = Norm[text]

(* "LLM-Mapping nicht moeglich: ..." (FormViewModel) is true: when a       *)
(* reason is returned, no answer came from the LLM, although single groups *)
(* may have been answered.                                                 *)
ReasonMeansNoLlm ==
  result.reason # "none" /\ result.path = "merged" =>
    \A f \in Given(result.answers) : from[f] # "LLM"

(* No silent fallback: a mapping without any usable reply of the LLM, in   *)
(* whatever mix its groups failed, says why.                               *)
NoSilentFallback ==
  result.path \in {"merged", "fallback"} /\ ~result.llmReturnedAnswers
    => result.reason # "none"

(* mapTranscript always returns.                                           *)
MappingReturns == pc = "start" ~> pc = "done"

(* Doku.md, "Besonderheiten": "Duplikat-Schutz (vermeidet identische Werte *)
(* in mehreren Feldern)".  No two fields but names get the same answer.    *)
UniqueAnswers ==
  \A f, g \in Given(result.answers) \ NameFields :
    f # g => Norm[result.answers[f]] # Norm[result.answers[g]]
=============================================================================
