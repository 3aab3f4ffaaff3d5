---------------------------- MODULE FormViewModel ----------------------------
(***************************************************************************)
(* FormViewModel: the form's answers, the mapping of transcripts onto      *)
(* them, the automation mode, the orthography switch, submission, and the  *)
(* warm-up and self-test of the on-device LLM.                             *)
(*                                                                         *)
(* Threads.  Every public method and every continuation after withContext  *)
(* runs on the main thread (viewModelScope, Dispatchers.Main.immediate):   *)
(* one action each.  Between them a coroutine is on Dispatchers.Default:   *)
(* there it picks the repository from the mode of THAT moment and runs it. *)
(*                                                                         *)
(* Data.  A transcript stands for its text, its segments and its speaker   *)
(* blocks; an answer is Blank, UserText, or the transcript it was taken    *)
(* from.  Error messages are flags.  isSubmitting is raised and cleared    *)
(* inside one call of submitForm and submitError is never set, so neither  *)
(* is a field here; logs are left out.                                     *)
(***************************************************************************)
EXTENDS Naturals

CONSTANTS
  Questions,         \* ids of definitionProvider.questions
  Required,          \* those with required = true
  Transcripts,       \* TranscriptionResponses that may arrive
  NoTranscript,      \* null, and an empty list of speaker blocks
  Blank, UserText,   \* "" and a text typed by the user
  SupportsOnDevice,  \* onDeviceMappingRepository != null
  ModelConfigured,   \* a model file is found (isOnDeviceLlmModelConfigured)
  Slots,             \* mapping coroutines that may be in flight at once
  MaxTests,          \* self-tests in flight at once
  MaxWarmups         \* warm-ups in flight at once

Modes == {"CLOUD", "ON_DEVICE"}

Answers == Transcripts \union {Blank, UserText}

ASSUME FormConstants ==
  /\ Required \subseteq Questions
  /\ NoTranscript \notin Transcripts
  /\ Blank \notin Transcripts \union {UserText}
  /\ UserText \notin Transcripts
  /\ SupportsOnDevice \in BOOLEAN
  /\ ModelConfigured \in BOOLEAN
  /\ MaxTests \in Nat
  /\ MaxWarmups \in Nat

VARIABLES
  ui,              \* FormUiState
  lastTranscript,  \* the transcript re-mapped on a mode or switch change
  repoOrtho,       \* orthographyCorrectionEnabled of the on-device repository
  mappings,        \* the mapping coroutine in each slot
  llmTests,        \* self-tests in flight
  warmups,         \* warm-ups in flight
  modelLoaded, modelLoading, engineCalls   \* the engine, see LlmModel

engineVars == <<modelLoaded, modelLoading, engineCalls>>
vars == <<ui, lastTranscript, repoOrtho, mappings, llmTests, warmups, engineVars>>

Engine == INSTANCE LlmModel

UiStates ==
  [entries : [Questions -> Answers],
   speakerBlocks : Transcripts \union {NoTranscript},
   isMappingLoading : BOOLEAN,
   mappingError : BOOLEAN,
   mappingSourceError : BOOLEAN,
   automationMode : Modes,
   modelReady : BOOLEAN,      \* isOnDeviceLlmModelReady
   modelLoading : BOOLEAN,    \* isOnDeviceLlmModelLoading
   isLlmTestRunning : BOOLEAN,
   llmTestSuccess : {"none", "ok", "failed"},
   ortho : BOOLEAN,           \* onDeviceOrthographyCorrectionEnabled
   isSubmitted : BOOLEAN]

(* A mapping coroutine: "dispatched" to Dispatchers.Default with the mode  *)
(* it saw on the main thread, then "running" in the repository it picked.  *)
Idle == [phase |-> "idle", transcript |-> NoTranscript, mode |-> "CLOUD", repo |-> "CLOUD"]

Jobs ==
  [phase : {"idle", "dispatched", "running"},
   transcript : Transcripts \union {NoTranscript},
   mode : Modes,
   repo : Modes]

InFlight == {j \in Slots : mappings[j].phase # "idle"}

IsValid(u) == \A q \in Required : u.entries[q] # Blank

-----------------------------------------------------------------------------
(* Pieces of the handlers, as functions of the UI state (it.copy(...)).    *)

Refreshed(u) ==
  [u EXCEPT !.modelReady = ModelConfigured /\ modelLoaded,
            !.modelLoading = modelLoading]

(* Slip: isMappingLoading is not raised.                                   *)
MappingStartedUnmarked(u) ==
  [u EXCEPT !.mappingError = FALSE, !.mappingSourceError = FALSE, !.isSubmitted = FALSE]

MappingStarted(u) ==
  [u EXCEPT !.isMappingLoading = TRUE,
            !.mappingError = FALSE,
            !.mappingSourceError = FALSE,
            !.isSubmitted = FALSE]

(* Slip: a question that got no answer is overwritten with null.           *)
PrefilledWithNulls(entries, filled, t) ==
  [q \in Questions |-> IF q \in filled THEN t ELSE NoTranscript]

(* fieldAnswers are written over the entries they answer; a question with  *)
(* no (or a blank) answer keeps its entry.                                 *)
Prefilled(entries, filled, t) ==
  [q \in Questions |-> IF q \in filled THEN t ELSE entries[q]]

(* warmupOnDeviceModelIfNeeded: launched only for a configured model that  *)
(* is not loaded.                                                          *)
WarmupNeeded == SupportsOnDevice /\ ModelConfigured /\ ~modelLoaded

(* The orthography flag of the on-device repository after a switch to mode. *)
SyncedOrtho(mode) == IF mode = "ON_DEVICE" THEN ui.ortho ELSE repoOrtho

(* Slip: no guard.                                                         *)
NeverRefuses(u) == FALSE

(* A transcript is refused while a mapping is in flight.                   *)
Refuses(u) == u.isMappingLoading

(* applyTranscript(t) called with UI state u.  lastTranscript is assigned  *)
(* after the refusal.                                                      *)
Apply(u, t) ==
  IF Refuses(u)
  THEN /\ ui' = u
       /\ UNCHANGED <<lastTranscript, mappings>>
  ELSE /\ lastTranscript' = t
       /\ ui' = MappingStarted(IF u.automationMode = "ON_DEVICE" THEN Refreshed(u) ELSE u)
       /\ \E j \in Slots \ InFlight :
            mappings' = [mappings EXCEPT ![j] =
              [phase |-> "dispatched", transcript |-> t,
               mode |-> u.automationMode, repo |-> "CLOUD"]]

(* Slip: the last transcript is not mapped again.                          *)
ReapplyNothing(u) ==
  /\ ui' = u
  /\ UNCHANGED <<lastTranscript, mappings>>

(* lastTranscript?.let { applyTranscript(it) }                             *)
Reapply(u) ==
  IF lastTranscript = NoTranscript
  THEN /\ ui' = u
       /\ UNCHANGED <<lastTranscript, mappings>>
  ELSE Apply(u, lastTranscript)

-----------------------------------------------------------------------------
(* The constructor refreshes the model status and launches a first warm-up. *)
InitialUi ==
  [entries |-> [q \in Questions |-> Blank],
   speakerBlocks |-> NoTranscript,
   isMappingLoading |-> FALSE,
   mappingError |-> FALSE,
   mappingSourceError |-> FALSE,
   automationMode |-> "CLOUD",
   modelReady |-> FALSE,
   modelLoading |-> FALSE,
   isLlmTestRunning |-> FALSE,
   llmTestSuccess |-> "none",
   ortho |-> TRUE,
   isSubmitted |-> FALSE]

Init ==
  /\ ui = [InitialUi EXCEPT !.modelLoading = SupportsOnDevice /\ ModelConfigured]
  /\ lastTranscript = NoTranscript
  /\ repoOrtho = TRUE
  /\ mappings = [j \in Slots |-> Idle]
  /\ llmTests = 0
  /\ modelLoaded = FALSE
  /\ modelLoading = FALSE
  /\ warmups = IF SupportsOnDevice /\ ModelConfigured THEN 1 ELSE 0
  /\ engineCalls = warmups

ApplyTranscript(t) ==
  /\ Apply(ui, t)
  /\ UNCHANGED <<repoOrtho, llmTests, warmups, engineVars>>

(* Dispatchers.Default: activeRepository() reads the mode of this moment.  *)
(* A mapping enters the engine even when no model file is found (its load  *)
(* then fails); one without an engine is like one that never loads.        *)
PickRepository(j) ==
  /\ mappings[j].phase = "dispatched"
  /\ LET repo == IF ui.automationMode = "ON_DEVICE" /\ SupportsOnDevice
                 THEN "ON_DEVICE" ELSE "CLOUD"
     IN  /\ mappings' = [mappings EXCEPT ![j].phase = "running", ![j].repo = repo]
         /\ IF repo = "ON_DEVICE" THEN Engine!EnterEngine ELSE UNCHANGED engineVars
  /\ UNCHANGED <<ui, lastTranscript, repoOrtho, llmTests, warmups>>

(* The coroutine of slot j is back on the main thread.                     *)
EndMapping(j) ==
  /\ mappings[j].phase = "running"
  /\ mappings' = [mappings EXCEPT ![j] = Idle]
  /\ IF mappings[j].repo = "ON_DEVICE" THEN Engine!LeaveEngine ELSE UNCHANGED engineVars
  /\ UNCHANGED <<lastTranscript, repoOrtho, llmTests, warmups>>

(* Success: the repository answered the questions in filled.  degraded: an *)
(* on-device result that came from heuristics, with a reason why the LLM   *)
(* was not used; it is reported only if the mode seen at the START was     *)
(* ON_DEVICE.                                                              *)
MappingSucceeds(j, filled, degraded) ==
  /\ EndMapping(j)
  /\ degraded => mappings[j].repo = "ON_DEVICE"
  /\ ui' = [ui EXCEPT
       !.isMappingLoading = FALSE,
       !.mappingError = FALSE,
       !.mappingSourceError = (mappings[j].mode = "ON_DEVICE" /\ degraded),
       !.speakerBlocks = mappings[j].transcript,
       !.entries = Prefilled(ui.entries, filled, mappings[j].transcript)]

(* Slip: the error path forgets isMappingLoading.                          *)
MappingFailsLoading(j) ==
  /\ EndMapping(j)
  /\ ui' = [ui EXCEPT !.mappingError = TRUE, !.mappingSourceError = FALSE]

MappingFails(j) ==
  /\ EndMapping(j)
  /\ ui' = [ui EXCEPT !.isMappingLoading = FALSE,
                      !.mappingError = TRUE,
                      !.mappingSourceError = FALSE]

SetAutomationMode(mode) ==
  /\ ui.automationMode # mode
  /\ mode = "ON_DEVICE" => SupportsOnDevice
  /\ LET onDevice == mode = "ON_DEVICE"
         warm == onDevice /\ WarmupNeeded
         refreshed == IF onDevice THEN Refreshed(ui) ELSE ui
         warming == IF warm THEN [refreshed EXCEPT !.modelLoading = TRUE] ELSE refreshed
     IN  /\ warm => warmups < MaxWarmups
         /\ warmups' = IF warm THEN warmups + 1 ELSE warmups
         /\ IF warm THEN Engine!EnterEngine ELSE UNCHANGED engineVars
         /\ repoOrtho' = SyncedOrtho(mode)
         /\ Reapply([warming EXCEPT !.automationMode = mode,
                                    !.mappingError = FALSE,
                                    !.mappingSourceError = FALSE,
                                    !.isLlmTestRunning = FALSE,
                                    !.llmTestSuccess = "none"])
  /\ UNCHANGED llmTests

(* Slip: an edit leaves the form marked as submitted.                      *)
UpdateAnswerSubmitted(q, value) ==
  /\ ui' = [ui EXCEPT !.entries[q] = value]
  /\ UNCHANGED <<lastTranscript, repoOrtho, mappings, llmTests, warmups, engineVars>>

UpdateAnswer(q, value) ==
  /\ ui' = [ui EXCEPT !.entries[q] = value, !.isSubmitted = FALSE]
  /\ UNCHANGED <<lastTranscript, repoOrtho, mappings, llmTests, warmups, engineVars>>

SubmitForm ==
  /\ IsValid(ui)
  /\ ui' = [ui EXCEPT !.isSubmitted = TRUE]
  /\ UNCHANGED <<lastTranscript, repoOrtho, mappings, llmTests, warmups, engineVars>>

SetOrthography(enabled) ==
  /\ repoOrtho' = IF SupportsOnDevice THEN enabled ELSE repoOrtho
  /\ LET u == [ui EXCEPT !.ortho = enabled,
                         !.mappingError = FALSE,
                         !.mappingSourceError = FALSE]
     IN  IF ui.automationMode = "ON_DEVICE"
         THEN Reapply(u)
         ELSE ui' = u /\ UNCHANGED <<lastTranscript, mappings>>
  /\ UNCHANGED <<llmTests, warmups, engineVars>>

RunLlmTest ==
  /\ SupportsOnDevice
  /\ ui.automationMode = "ON_DEVICE"
  /\ ~ui.isLlmTestRunning
  /\ llmTests < MaxTests
  /\ llmTests' = llmTests + 1
  /\ IF ModelConfigured THEN Engine!EnterEngine ELSE UNCHANGED engineVars
  /\ ui' = [ui EXCEPT !.isLlmTestRunning = TRUE, !.llmTestSuccess = "none"]
  /\ UNCHANGED <<lastTranscript, repoOrtho, mappings, warmups>>

(* Slip: isLlmTestRunning is cleared only on success.                      *)
EndLlmTestOnSuccess(outcome) ==
  /\ llmTests > 0
  /\ llmTests' = llmTests - 1
  /\ IF ModelConfigured THEN Engine!LeaveEngine
                        ELSE outcome = "failed" /\ UNCHANGED engineVars
  /\ ui' = [ui EXCEPT !.isLlmTestRunning = (outcome = "failed"), !.llmTestSuccess = outcome]
  /\ UNCHANGED <<lastTranscript, repoOrtho, mappings, warmups>>

(* Without a model file the self-test reports an error and never enters    *)
(* the engine.                                                             *)
EndLlmTest(outcome) ==
  /\ llmTests > 0
  /\ llmTests' = llmTests - 1
  /\ IF ModelConfigured THEN Engine!LeaveEngine
                        ELSE outcome = "failed" /\ UNCHANGED engineVars
  /\ ui' = [ui EXCEPT !.isLlmTestRunning = FALSE, !.llmTestSuccess = outcome]
  /\ UNCHANGED <<lastTranscript, repoOrtho, mappings, warmups>>

EndWarmup ==
  /\ warmups > 0
  /\ warmups' = warmups - 1
  /\ Engine!LeaveEngine
  /\ ui' = Refreshed(ui)
  /\ UNCHANGED <<lastTranscript, repoOrtho, mappings, llmTests>>

(* What other calls do inside the engine; a load needs the model file.     *)
EngineStep ==
  /\ Engine!EngineStep
  /\ modelLoaded' => ModelConfigured
  /\ UNCHANGED <<ui, lastTranscript, repoOrtho, mappings, llmTests, warmups>>

(* reset() is public but no screen calls it; in-flight coroutines go on.   *)
Reset ==
  /\ ui' = [InitialUi EXCEPT !.modelReady = (ModelConfigured /\ modelLoaded)]
  /\ lastTranscript' = NoTranscript
  /\ UNCHANGED <<repoOrtho, mappings, llmTests, warmups, engineVars>>

-----------------------------------------------------------------------------
(* FormScreen shows the orthography switch only in on-device mode.         *)
OrthographySwitchVisible == SupportsOnDevice /\ ui.automationMode = "ON_DEVICE"

MappingEnds(j) ==
  \/ \E filled \in SUBSET Questions, degraded \in BOOLEAN : MappingSucceeds(j, filled, degraded)
  \/ MappingFails(j)

UserStep ==
  \/ \E mode \in Modes : SetAutomationMode(mode)
  \/ \E q \in Questions, value \in {Blank, UserText} : UpdateAnswer(q, value)
  \/ SubmitForm
  \/ \E enabled \in BOOLEAN : OrthographySwitchVisible /\ SetOrthography(enabled)
  \/ RunLlmTest

BackgroundStep ==
  \/ \E j \in Slots : PickRepository(j)
  \/ \E j \in Slots : MappingEnds(j)
  \/ \E outcome \in {"ok", "failed"} : EndLlmTest(outcome)
  \/ EndWarmup
  \/ EngineStep

Next ==
  \/ \E t \in Transcripts : ApplyTranscript(t)
  \/ UserStep
  \/ BackgroundStep

LoadEnds ==
  /\ Engine!EndLoad
  /\ UNCHANGED <<ui, lastTranscript, repoOrtho, mappings, llmTests, warmups>>

(* Every call into a repository or the engine returns: the HTTP engines    *)
(* and the native inference have time limits, and a load ends.  A call     *)
(* that is the only one inside the engine cannot return during its load;   *)
(* it loads at most once per question group, so it is not held off for     *)
(* ever: strong fairness.  Nothing is assumed of the user.                 *)
Fairness ==
  /\ \A j \in Slots : WF_vars(PickRepository(j)) /\ SF_vars(MappingEnds(j))
  /\ SF_vars(\E outcome \in {"ok", "failed"} : EndLlmTest(outcome))
  /\ SF_vars(EndWarmup)
  /\ WF_vars(LoadEnds)

Spec == Init /\ [][Next]_vars
FairSpec == Spec /\ Fairness

(* reset() may be called at any time; nothing calls it yet.                *)
ResetSpec == Init /\ [][Next \/ Reset]_vars
SpecWithReset == ResetSpec /\ Fairness
-----------------------------------------------------------------------------
(* Types of the UI state, the coroutines and the engine's flags.           *)
TypeOK ==
  /\ ui \in UiStates
  /\ lastTranscript \in Transcripts \union {NoTranscript}
  /\ repoOrtho \in BOOLEAN
  /\ mappings \in [Slots -> Jobs]
  /\ llmTests \in Nat
  /\ warmups \in Nat
  /\ modelLoaded \in BOOLEAN
  /\ modelLoading \in BOOLEAN
  /\ engineCalls \in Nat

(* isMappingLoading is a real lock: it is set exactly while a mapping      *)
(* coroutine is in flight, and two never are, whatever the user switches   *)
(* in between (FormUiState: "Wird gesetzt, waehrend das Transkript auf     *)
(* Felder gemappt wird").                                                  *)
SingleFlight ==
  /\ ui.isMappingLoading <=> InFlight # {}
  /\ \A i, j \in InFlight : i = j

(* The transcript being mapped is the one a mode or switch change would    *)
(* map again: a refused transcript leaves no trace in lastTranscript.      *)
AcceptedIsMapped ==
  \A j \in InFlight : mappings[j].transcript = lastTranscript

(* The form implements MappingService: mappings one at a time, each ending *)
(* with its own transcript shown or with an error that only the next       *)
(* mapping clears.                                                         *)
Mapping == INSTANCE MappingService WITH
  status <- IF ui.isMappingLoading THEN "busy" ELSE IF ui.mappingError THEN "failed" ELSE "idle",
  accepted <- lastTranscript,
  shown <- ui.speakerBlocks,
  mode <- ui.automationMode

ImplementsMappingService == Mapping!ServiceSpec

(* A form marked as submitted has every required answer, although mappings *)
(* and edits may follow the submission.                                    *)
SubmittedIsComplete == ui.isSubmitted => IsValid(ui)

(* While the orthography switch is on screen it shows the flag the         *)
(* on-device repository will read, also after resets and mode changes.     *)
OrthographyInSync == OrthographySwitchVisible => repoOrtho = ui.ortho

(* "LLM Test laeuft..." is never shown without a self-test in flight, even *)
(* after mode switches have let several self-tests overlap.                *)
RunningTestIsInFlight == ui.isLlmTestRunning => llmTests > 0

(* Every accepted transcript settles: its own mapping is shown or an error *)
(* is, whatever the user does meanwhile.                                   *)
AcceptedSettles ==
  \A t \in Transcripts :
    (ui.isMappingLoading /\ lastTranscript = t)
      ~> (~ui.isMappingLoading /\ (ui.speakerBlocks = t \/ ui.mappingError))

(* The self-test button becomes usable again.                              *)
LlmTestSettles == ui.isLlmTestRunning ~> ~ui.isLlmTestRunning

(* Doku.md, "UI und Editierbarkeit": "Nutzer kann erkannte Werte editieren *)
(* und Aenderungen persistieren".  What the user typed changes only when   *)
(* the user changes it.                                                    *)
EditsPersist ==
  [][\A q \in Questions :
       ui.entries[q] = UserText /\ ui'.entries[q] # UserText
         => \E value \in Answers : UpdateAnswer(q, value)]_vars
=============================================================================
