# A TLA+ model of the audio-to-form app

The app (Kotlin Multiplatform, `src/composeApp`) records speech or takes an
audio file, transcribes it, maps the transcript onto the fields of a form and
lets the user correct and submit the form. Transcription and mapping run in the
cloud (OpenAI) or on the device (whisper.cpp, llama.cpp). The repository has no
tests of its own; `src/Doku.md`, `src/.github/copilot-instructions.md` and the
comments say what the parts are meant to do.

This directory models the parts that carry state and run concurrently, checks
them with TLC on small instances, and proves the most important results with
TLAPS for all instances.

## Inventory

| Component | State | Operations | Hard because |
|---|---|---|---|
| `FormViewModel`, `FormScreen` | `FormUiState`, `lastTranscript` | `applyTranscript`, `setAutomationMode`, `setOnDeviceOrthographyCorrectionEnabled`, `updateAnswer`, `submitForm`, self-test, warm-up, `reset` | the handlers run on the main thread but every mapping, self-test and warm-up suspends on `Dispatchers.Default`; the only lock is a UI flag |
| `AppViewModel` | none of its own | callbacks recording → transcription → form; the mode is passed on | callbacks run on the invoker's thread (IO for a finished recording) |
| `TranscriptionViewModel` | `TranscriptionUiState`, mode | `transcribe`, `setAutomationMode`, (`reset`, without a caller) | `isLoading` is checked on the caller's thread and set later, on the main thread |
| `RecordingViewModel`, `RecordingRepositoryImpl`, `AndroidAudioRecorder` | `RecordingUiState`, path, `MediaRecorder?` | tap, permission, file picker | each tap is an IO task; `recorder` is an unsynchronised field; one file for every take |
| `DirectLlamaOnDeviceLlmEngine`, `DirectLlamaBridge`, direct functions of `ai_chat.cpp` | flags, mutex, `initialized`, native globals | warm-up, `completeJson`, recovery | double-checked load, recovery after a timeout, inference outside the mutex |
| `OnDeviceLlmFormMappingRepository` (Android) with `OnDeviceKeywordFormMappingRepository` | locals of a call, orthography flag | `mapTranscript`, self-test, warm-up | several LLM calls of which any may fail, three sources merged, exceptions caught at different levels |
| `AiFormMappingRepository`, `OpenAiTranscriptionRepository` | none | one HTTP request each | a request may fail |
| `OnDeviceWhisperTranscriptionRepository` (Android), `LibWhisper` | whisper context | transcribe | native context on its own executor, decoding of audio |
| `InferenceEngineImpl`, chat functions of `ai_chat.cpp` | lifecycle state, cancel flag, native positions, KV cache | load, system and user prompt, generation, bench, `cleanUp`, `destroy` | prompts go in batch by batch, a full context is shifted in the middle of it; `cleanUp` and `destroy` come from other threads |
| `nativeInfer`, JSON scanners (C++ and Kotlin) | KV cache, position, output, cancel flag | one inference, token by token | cancel, timeout or a failed decode at any token; two scanners that must agree |
| iOS: `LibLlama.swift`, `IOSLlamaBridge` | llama context, `n_cur`, `n_len` | `completeJson` | failed decodes are passed over, the end is tested by equality |
| iOS: `OnDeviceLlmFormMappingRepository.ios`, whisper bridge, recorder, pickers | bridge state | the same operations through Swift | shared error message |
| `TranscriptToFormMapper` | none | speaker blocks of segments | pure function |
| `LlamaCppOnDeviceLlmEngine` | an `InferenceEngineImpl` | never instantiated | - |

Interaction: `AppViewModel` sets `onRecordingFinished`, `onFileSelected`,
`onTranscriptionResult` and `onAutomationModeChanged`. The form calls the
repositories; the on-device repository calls the engine; the engine calls the
bridge; the bridge's native functions share globals in `ai_chat.cpp`.

What makes them correct, in a sentence each: mappings never overlap and each
accepted transcript ends shown or failed; flags and spinners on screen stand for
something that is running and go away; a recording that is announced is
complete and the microphone is off when the button says so; the engine's
`isModelLoaded` can be trusted whatever loads and recoveries come between, and
nothing leaks; the merge of answers repeats none, prefers the LLM, and says why
the LLM was not used; the positions the native code keeps and the cells of the
KV cache never get out of step, an inference returns one JSON object or none,
and every token loop ends. `PROJECT.json` lists the hazards behind these, each at its
line.

## Modules

| Module | Models | Role |
|---|---|---|
| `MappingService` | what the form promises the app | abstract specification |
| `LlmModel` | what the engine promises its callers | abstract specification |
| `FormViewModel` | `FormViewModel.kt`, `FormUiState.kt`, what `FormScreen` enables | uses `LlmModel` as its engine, implements `MappingService` |
| `RecordingViewModel` | view model, repository, Android recorder | component |
| `TranscriptionViewModel` | view model, the outcome of a transcription | component |
| `AppViewModel` | the callbacks | composes the two components above with `MappingService` |
| `DirectLlamaEngine` | engine, bridge, native globals | implements `LlmModel` |
| `OnDeviceFormMapping` | `mapTranscript` of the Android repository | component |
| `KvCache` | what llama.cpp's KV cache and `llama_decode` do for one sequence | operators, used by the next four |
| `ChatSession` | the chat functions and globals of `ai_chat.cpp` | component |
| `InferenceEngine` | `InferenceEngineImpl.kt` | on top of `ChatSession` |
| `JsonScanner` | `try_extract_complete_json_object`, `extractBalancedJsonObjects` | operators |
| `DirectInference` | `nativeLoadModel`, `nativeInfer`, `nativeCancel` | component, uses `JsonScanner` |
| `IosLlamaContext` | `completeJson` and the actor `LlamaContext` | component |
| `MCLlamaClients` | the three components above side by side | a behaviour is one of the three |
| `MC*` | model values and small sets for TLC | |
| `KvCache_proofs`, `JsonScanner_proofs` | lemmas about the operators | |
| `*_proofs` | theorems about the component; `LlamaClients_proofs`: direct inference, iOS and the composition | |

The two abstract specifications tie the layers together: the form is checked
against any engine that behaves like `LlmModel`, the app against any form that
behaves like `MappingService`, and the real engine and the real form are shown
to behave so, by TLC (properties `ImplementsLlmModel`,
`ImplementsMappingService`) and by proof.

Definitions marked `Slip:` are faulty variants of the definition that follows
them (a dropped guard, a forgotten reset). They are used by no specification;
each one, put in the place of the original, makes a property fail, which shows
that the property depends on that line of the code.

### How state and actions correspond to the code

*FormViewModel.* `ui` is `FormUiState` without messages; `mappings`, `llmTests`
and `warmups` are the coroutines in flight. A handler or a continuation on the
main thread is one action. A mapping has three: `Apply` (up to `withContext`),
`PickRepository` (on `Dispatchers.Default`, where the mode is read a second
time) and `MappingSucceeds`/`MappingFails` (back on the main thread). An answer
is blank, typed by the user, or the transcript it came from. `Reset` is in
`SpecWithReset` only, since nothing calls it.

*RecordingViewModel.* A tap takes a free task slot; the steps of a start
(`NativeStart`, `AssignRecorder`, `ShowStarted`) and of a stop (`ReadRecorder`,
`NativeStop`, `ClearRecorder`, `ShowStopped`, `NotifyFinished`) interleave with
those of another tap. `capturing` and `file` stand for the platform's
`MediaRecorder` and the file system.

*TranscriptionViewModel.* `TranscribeOnMain` starts in place (main dispatcher,
immediate), `TranscribeOnIO` queues; both check `isLoading` first. A start picks
the use case, then the file is read, then there is a result.

*DirectLlamaEngine.* A call is a process with a program counter; each read or
write of `modelLoaded`, `modelLoading`, the mutex, `initialized` or a native
global is a step. Long native functions have a step at their start and one at
their end. An inference ends with a result or error, by a cancel request, or by
a timeout, which leads to the recovery. An inference whose model is freed under
it is undefined in the code; here it continues, and a crash of the process would
simply end the behaviour.

*OnDeviceFormMapping.* One LLM call per question group, each with four outcomes:
it throws, nothing can be extracted, it answers some fields, or its JSON makes
the parser throw, which abandons the mapping. Then sanitizing, then one
`MergeField` per field with any heuristic and keyword candidate. The string
functions are constants (`Norm`, `ForField`, `WellFormed`), so the results hold
whatever the regular expressions do. The orthography flag only changes prompts
and is modelled in `FormViewModel`.

*KvCache.* A memory is a number of cells and the set of tokens held, each with
its position and the role of its message; which cell holds a token cannot be
observed, since `find_slot` takes free cells wherever they are. `DecodeOutcomes`
is `llama_decode`: refused (positions not consecutive, no cells), done, or
failed in one of its parts, whose positions are then taken out again. The code
mapped is the copy in `src/iosApp/llama.cpp`, against which `ai_chat.cpp` is
built as well.

*ChatSession, InferenceEngine.* Every round of `decode_tokens_in_batches` and of
the generation loop is a step, so that `cleanUp` and `destroy` can be called in
between; the dispatcher runs one operation at a time in the order of the calls.
`torn` is a history variable: a prompt has been shifted under its own batches.
A call in a state where the code throws changes nothing and is left out, except
`cleanUp`, which raises the cancel flag before it throws.

*DirectInference.* `phase` is the place in `nativeInfer` between two looks at the
cancel flag and the clock. `late` may become true at any time, also during a
decode. The text of a token is a sequence of characters as the scanners see
them: a brace, a quote, a backslash or something else.

*IosLlamaContext.* The steps the `Task` awaits; a token adds 0, 1 or 2
characters. `evaluated` is a history variable: no decode of this completion has
failed.

## Runs

| Run | Checks | Instance |
|---|---|---|
| `form` | types; mappings are single-flight; the mapped transcript is the accepted one; refinement of `MappingService`; every accepted transcript settles | 2 questions (one required), 2 transcripts, 2 mapping slots, no model file |
| `form_llm` | the test spinner stands for a test in flight; submitted means complete; the test spinner goes away | model file, 2 self-tests at once, 1 warm-up, `reset()` at any time, 1 question, 1 transcript |
| `form_edits` (violated) | edits persist | 1 question, 1 transcript |
| `app` | types; stop ends the recording; what is announced is complete; spinner real, never beside an error, and goes away; starts follow the mode | one tap at a time, 2 takes, 1 upload, 2 transcription coroutines |
| `app_taps` (violated) | stop ends the recording | two taps in flight |
| `app_dropped` (violated) | the transcript shown is the one mapped | one transcription at a time |
| `engine` | types; flags usable; no stray model; no model on a freed backend; loading flag real; refinement of `LlmModel`; every call returns | 3 calls |
| `engine_native` (violated) | one call at a time in the native code | 3 calls |
| `mapping` | types; merged answers unique; LLM answers kept; reason only without LLM answers; no silent fallback; `mapTranscript` returns | 3 fields, one group per field, 3 texts of which two mean the same |
| `mapping_duplicates` (violated) | no duplicates at all | 3 fields in one group |

| `llama` | types; cache in step with the positions (chat, direct, iOS); the system prompt survives; loaded means allocated; a fresh model answers; one JSON object or none; answers, `cleanUp`/`destroy`, inferences and completions end | contexts of 4 to 8 cells, batches of 2; chat: limit 6, prompts of 1 to 7 tokens; direct: prompts of 0 to 6 tokens, 4 generated tokens of 7 kinds; iOS: 2 models, prompts of 1 to 7 tokens |
| `chat_shift` (violated) | proper positions after a shift inside a prompt | chat alone, context of 8 cells, prompts of 1 and 3 tokens |

Why these bounds are enough for what is asked: two mapping slots let a second
mapping start if any handler forgets the lock (the proof then covers any
number); two takes are enough for one to overwrite the other; two transcription
coroutines let a queued start pass an isLoading check that is stale; three calls
are a loader, an inference that times out and a third one in the window between
them; three texts and three fields let a value repeat with and without a field
that may repeat, and let the cut to a field turn one text into another.
In `llama` the sizes keep the order they have in the code (batch < headroom
limit < context, prompts below, at and above each limit): a conversation
reaches the limit after two or three messages, is shifted, and reaches it again;
contexts smaller than the limit, which `configureRuntime` allows, are among them.
A prompt that fills `n_ctx` exactly and one token less, an n_ctx that is a
multiple of the padding and one that is not, an object with an escaped quote
and a nested one, and a text cut inside each occur.

`MaxTakes`, `MaxTests` and `MaxWarmups`, the slot sets and `MaxCur` (n_cur of
iOS is not counted beyond it; the loop has passed every `n_len` there) are the
only bounds; all are in guards.

`app` checks one tap at a time because `app_taps` shows what happens otherwise.
`StopEndsRecording` there also survives starts and stops that throw.

### Disagreements with the documentation

- *Edits are overwritten* (`form_edits`): a late mapping result, or a mode or
  orthography switch that maps the last transcript again, replaces typed text.
  `Doku.md:89` says edits can be persisted.
- *A transcript is dropped* (`app_dropped`): `applyTranscript` returns while a
  mapping runs. The transcription screen shows the new transcript, the form
  never gets it. The flow in `AppViewModel.kt:23` says it does.
- *Two quick taps* (`app_taps`): both see `isRecording = false`; the second
  recorder replaces the first, which goes on capturing after the stop.
- *Native code is entered twice* (`engine_native`): inference does not take the
  mutex. `InferenceEngineImpl.kt:31`, the other wrapper of the same native code,
  says that code needs a single thread.
- *Duplicates in the fallback* (`mapping_duplicates`): answers returned from the
  `catch` do not pass the merge. `Doku.md:83` promises duplicate protection.

- *A shift inside a prompt* (`chat_shift`): `decode_tokens_in_batches` shifts
  the context and goes on with positions computed from the start of the prompt.
  Tokens of earlier batches stay where they were, a gap opens, and the next
  generated token is refused; a shift at the first batch has the prompt itself
  refused. The comments at `ai_chat.cpp:427` and `:433` promise a batch that
  fits and proper positions. `CacheInStep` shows that nothing else gets the two
  out of step: shifts during generation, failed decodes and aborted answers do
  not.

Seen while modelling, without a run: the comment at `ai_chat.cpp:900` says the
prompt is not decoded token by token, `DIRECT_PREFILL_CHUNK` is 1; a stop
position at or beyond the shift limit is never reached (`GenerationEnds` has to
exclude it), so such an answer ends with an end-of-text token or by cancelling;
`LibLlama` compares `n_cur` with `n_len` for equality, so with a prompt longer
than `n_len` only an end-of-text token or enough text ends the loop
(`IosCompletionEnds` has to exclude it); an engine that failed on a user prompt
stays in `ProcessingUserPrompt` and only `destroy` gets it out.

## Fairness

Nothing is assumed of the user. Dispatchers run what is queued (weak fairness of
starts, picks and reads). A repository or engine call returns: HTTP engines have
default time limits, `nativeInfer` has its own, a load is one pass over a file.
In `DirectLlamaEngine` fairness is strong for a call that waits, since the
coroutine `Mutex` serves waiters in turn and the monitor is held only for an
initialisation. In `FormViewModel` a call that is the only one inside the engine
cannot leave during its load, but loads at most once per question group, hence
strong fairness of leaving. That `LoadEnds` is fair follows from `CallsReturn`
of the engine. In `MCLlamaClients` native calls return, and `cleanUp` and `destroy` have strong
fairness because the dispatcher is a queue: what is called later waits behind
them. Neither a request to cancel nor the end of a timeout is fair, and no token
has to be an end-of-text token. Liveness is checked by TLC only.

## Proofs

Every invariant, action property and refinement that a passing run checks is
also a theorem, for every value of the constants that satisfies the modules'
named assumptions (`FormConstants`, `EngineConstants`, `MappingConstants`,
`AppConstants`, `ChatConstants`, `EngineInputs`, `DirectConstants`,
`IosConstants`, `PadAssumption`). The theorems are about the specifications without
fairness, which the fair ones imply.

*FormViewModel_proofs.* The inductive invariant `IInv` is `TypeOK`,
`SingleFlight`, `AcceptedIsMapped`, `JobTranscripts` (a job in flight carries a
transcript) and `ErrorHasTranscript` (an error belongs to an accepted
transcript). `SingleFlight` alone is not inductive for the refinement: when a
mapping ends, `MappingService` needs the job's transcript to be the accepted
one, and when the mode is switched after an error the service must offer again,
so there must be a transcript to offer. From `IInv` follow `TypeCorrect`,
`MappingIsSingleFlight`, `MappedIsAccepted` and, step by step,
`FormImplementsService`. With `reset()` at any time (`ResetSpec`) the lock is
lost: the flag is cleared while coroutines are in flight. What is left, `Kept`
(types and `JobTranscripts`), is enough for `SubmittedComplete`, `SwitchInSync`
and `RunningTestReal`, which are therefore proved for `ResetSpec`;
`ResetCovers` says that this includes `Spec` and `SpecWithReset`. The run
`form_llm` has one mapping slot, the theorems any number, so they also cover
the mappings that overlap after a reset. `SwitchInSync` (the orthography switch
and the repository's flag agree while the switch is visible) is proved only: no
run repeats it.

*DirectLlamaEngine_proofs.* `EInv` says who holds the mutex and the monitor at
each place (`MutexHeld`, `MonitorHeld`), what the holder knows during a load and
a recovery (`LoadKnows`, `RecoveryKnows`), that `initialized` implies a running
backend except in the middle of `shutdown()` (`BackendUp`), and who knows of a
resident model (`ModelKnown`). The mutex is what the argument rests on: an
inference outside it never writes `modelLoaded` or the model, and it can
initialise the bridge again but not shut it down. Results: `EngineTypeCorrect`,
`LoadedUsable`, `NoModelLeaks`, `ModelOnBackend`, `LoadingReal`, `EngineImplementsModel`, for any
finite set of calls.

*OnDeviceFormMapping_proofs.* `MInv` states uniqueness and the LLM's priority on
the fields merged so far, that fields ahead are untouched (so "used answers" are
exactly those of earlier fields), that an answer marked as the LLM's is backed
by one, and that an empty reply has a reason once the loop is through. The last
point needs the lemma `SomeGroup`: `buildQuestionGroups` never returns an empty
list. Results: `MappingTypeCorrect`, `MergeIsUnique`, `LlmComesFirst`,
`ReasonIsTrue`, `FallbackIsExplained`.

*AppViewModel_proofs.* `AppInv` adds to the types and the two spinner
properties that the transcriber's mode is the one the form's mode asks for
(`ModeFollows`), which `StartsWhereModeSays` needs when a queued start runs
after a switch. It holds for any number of taps and transcriptions at once. The
two theorems about the recorder, `MicrophoneOffWhenStopped` and
`AnnouncedComplete`, assume `OneTapAtATime` (one task slot): this is the
condition that the run `app` checks under and the run `app_taps` shows to be
necessary. Their invariant `TapInv` says, for each phase of a tap, what the
button shows, which take is captured, which one the recorder's field refers to
and what the file holds, and that the three agree between two taps.

*KvCache_proofs.* Facts about the operators every client uses: what clearing,
storing, `seq_rm`, `seq_add`, a shift and each outcome of `llama_decode` keep.
`GoodMemory` (finitely many tokens, no more than cells) and `InOrder(m, n)` (one
token at each position before `n` and no other) are what the clients' invariants
are made of. `InOrder` is `Holds`, which the checked properties use, without the
count of the tokens; `InOrderHolds` proves the count, and `InOrderCanDecode` that
the next batch is accepted while cells are free.

*InferenceEngine_proofs.* `EngineInv` has a lifecycle part (`OneOperation`: which
operation can be under way in which state; `StatesMean`: what a state says of
backend, model and context; `NothingCounted`) and a cache part, for each place
between two batches: while the system prompt is decoded (`SystemDecoded`) the
memory holds what was decoded of it, while a user prompt is decoded
(`UserDecoded`) it holds the conversation and the batches before, and between
operations (`Settled`) exactly the positions before `current_position`. The
claims about positions end where `torn` says a prompt was shifted under its own
batches (`chat_shift`); the claim about the system prompt does not. Results:
`CacheStaysInStep`, `SystemPromptKept`, `LoadedLive`, `FreshModelAnswers`,
`ChatTypeCorrect`, for contexts, batches, headroom and prompts of any size.

*JsonScanner_proofs.* What the two loops compute on a text of any length. The
loops are recursive functions on the positions; induction over the positions is
done with a lemma about sets of naturals (`UpTo`: a set that holds 0 and, with a
position, the next one holds every position), proved from the least element of
a set of naturals. The invariants: the scanners are in the same state as long as
the native one has found nothing (`NoObjectForBoth`); and, scanning the object
the native one cut out of the text, both repeat the states they had over that
part of the text (`OneObjectForBoth`).

*LlamaClients_proofs.* `DirectInv` and `IosInv` say what the memory holds in each
phase of `nativeInfer` and of a completion on iOS, without assuming anything of
what the previous call left there. `DirectInv` also says that nothing complete
has been found in the output so far; with the two scanner theorems this gives
`ReturnsOneObjectOrNone`. `ClientsBySelf` shows that a behaviour of the
composition `MCLlamaClients!Spec`, which the run `llama` checks, is a behaviour
of each client, and `ClientsTypeCorrect` and `ClientsSafe` carry all results
over. `IosConstants` asks that `MaxCur`, beyond which `n_cur` is not counted, is
not smaller than the context: it is a bound of the model and not of the code.

Only model-checked: liveness (`AcceptedSettles`, `LlmTestSettles`,
`TranscriptionSettles`, `CallsReturn`, `MappingReturns`, `GenerationEnds`,
`CloseReturns`, `InferReturns`, `IosCompletionEnds`), because fairness and
ENABLED are beyond the proof system.

## Not modelled

- iOS form mapping repository (the Android one in another form), iOS whisper
  bridge, recorder and pickers, Android picker and permission dialog (platform
  I/O, inputs here).
- HTTP requests, prompts, regular expressions, audio decoding: only their
  outcomes. Speaker blocks (`TranscriptToFormMapper`) are a pure function.
- `LlamaCppOnDeviceLlmEngine`: never instantiated. It sets the system prompt
  twice per load, which the engine refuses the second time.
- Two engines at once: `InferenceEngineImpl.getInstance` does not look at
  `instance` again inside `synchronized`, so two first calls at the same time
  would make two engines on the same native globals. `InferenceEngine` has one
  engine at a time, a new one after `destroy`.
- UI layout, design system, configuration.
- llama.cpp and whisper.cpp apart from the KV cache. They are vendored and make
  up more than 99 % of the repository's C and C++ lines (tensor kernels, GPU
  backends, model formats, tools); none of it is this program's own logic, and a
  share of those lines says nothing about how much of the app is modelled.

## Plan

Done, in this order: form and its abstract service; engine and its abstract
model; recording, transcription and their composition; the on-device mapping;
proofs of form, engine and mapping; the KV cache and the three token loops on
it; the JSON scanners; proofs of the token loops, the scanners, the app, and of
the form with `reset()`.

Next:

1. Which parts of `ProperPositions` survive a torn prompt: how far
   `current_position` can fall behind the cache, and that the next prompt or
   generated token is refused rather than stored at a wrong position.
2. What a second tap can do at worst: that at most the recordings whose
   reference was overwritten stay on.
3. Speaker blocks against a reference definition, and the whisper context of
   `LibWhisper`.
