----------------------- MODULE TranscriptionViewModel -----------------------
(***************************************************************************)
(* TranscriptionViewModel: turns an audio file into a transcript.          *)
(*                                                                         *)
(* transcribe() checks isLoading on the CALLER's thread.  Called on the    *)
(* main thread (a confirmed upload) its coroutine starts in place; called  *)
(* on an IO thread (a finished recording) the coroutine is queued for the  *)
(* main thread and starts later, without a second check.  The use case is  *)
(* chosen when it starts; the file is read after that, on                  *)
(* Dispatchers.Default.                                                    *)
(*                                                                         *)
(* A transcript is named by the audio it was made from.  Logs are left     *)
(* out, and so is reset(), which nothing calls.                            *)
(***************************************************************************)
CONSTANTS
  TranscriptionJobs,               \* coroutines that may be in flight at once
  Paths,                           \* audio files
  Audio,                           \* what a file may hold
  NoAudio,                         \* no segments yet; an unreadable file
  SupportsOnDeviceTranscription    \* transcribeOnDeviceAudio != null

VARIABLES
  transcription,      \* TranscriptionUiState
  transcriptionMode,  \* automationMode
  jobs                \* the coroutine in each slot

transcriptionVars == <<transcription, transcriptionMode, jobs>>

NoJob == [phase |-> "idle", path |-> NoAudio, audio |-> NoAudio, useCase |-> "CLOUD"]

TranscriptionTypeOK ==
  /\ transcription \in [isLoading : BOOLEAN, segments : Audio \union {NoAudio}, error : BOOLEAN]
  /\ transcriptionMode \in {"CLOUD", "ON_DEVICE"}
  /\ jobs \in [TranscriptionJobs ->
       [phase : {"idle", "queued", "started", "read"},
        path : Paths \union {NoAudio},
        audio : Audio \union {NoAudio},
        useCase : {"CLOUD", "ON_DEVICE"}]]

TranscriptionInit ==
  /\ transcription = [isLoading |-> FALSE, segments |-> NoAudio, error |-> FALSE]
  /\ transcriptionMode = "CLOUD"
  /\ jobs = [j \in TranscriptionJobs |-> NoJob]

FreeJobs == {j \in TranscriptionJobs : jobs[j].phase = "idle"}

Started == {j \in TranscriptionJobs : jobs[j].phase \in {"started", "read"}}

(* Slip: the error of the last transcription stays.                        *)
StartKeepingError(j, path) ==
  /\ transcription' = [transcription EXCEPT !.isLoading = TRUE]
  /\ jobs' = [jobs EXCEPT ![j] =
       [phase |-> "started", path |-> path, audio |-> NoAudio,
        useCase |-> IF transcriptionMode = "ON_DEVICE" /\ SupportsOnDeviceTranscription
                    THEN "ON_DEVICE" ELSE "CLOUD"]]
  /\ UNCHANGED transcriptionMode

(* The coroutine's first part, up to withContext.                          *)
Start(j, path) ==
  /\ transcription' = [transcription EXCEPT !.isLoading = TRUE, !.error = FALSE]
  /\ jobs' = [jobs EXCEPT ![j] =
       [phase |-> "started", path |-> path, audio |-> NoAudio,
        useCase |-> IF transcriptionMode = "ON_DEVICE" /\ SupportsOnDeviceTranscription
                    THEN "ON_DEVICE" ELSE "CLOUD"]]
  /\ UNCHANGED transcriptionMode

TranscribeOnMain(path) ==
  IF transcription.isLoading
  THEN UNCHANGED transcriptionVars
  ELSE \E j \in FreeJobs : Start(j, path)

TranscribeOnIO(path) ==
  IF transcription.isLoading
  THEN UNCHANGED transcriptionVars
  ELSE /\ \E j \in FreeJobs :
            jobs' = [jobs EXCEPT ![j] = [NoJob EXCEPT !.phase = "queued", !.path = path]]
       /\ UNCHANGED <<transcription, transcriptionMode>>

StartQueued(j) ==
  /\ jobs[j].phase = "queued"
  /\ Start(j, jobs[j].path)

(* The repository reads the file: audio is what it holds at that moment.   *)
ReadFile(j, audio) ==
  /\ jobs[j].phase = "started"
  /\ jobs' = [jobs EXCEPT ![j].phase = "read", ![j].audio = audio]
  /\ UNCHANGED <<transcription, transcriptionMode>>

(* Slip: isLoading is not cleared.                                         *)
TranscriptionSucceedsLoading(j) ==
  /\ jobs[j].phase = "read"
  /\ jobs[j].audio # NoAudio
  /\ transcription' = [transcription EXCEPT !.segments = jobs[j].audio]
  /\ jobs' = [jobs EXCEPT ![j] = NoJob]
  /\ UNCHANGED transcriptionMode

(* Success does not touch error.                                           *)
TranscriptionSucceeds(j) ==
  /\ jobs[j].phase = "read"
  /\ jobs[j].audio # NoAudio
  /\ transcription' = [transcription EXCEPT !.isLoading = FALSE, !.segments = jobs[j].audio]
  /\ jobs' = [jobs EXCEPT ![j] = NoJob]
  /\ UNCHANGED transcriptionMode

(* Slip: isLoading is not cleared.                                         *)
TranscriptionFailsLoading(j) ==
  /\ jobs[j].phase = "read"
  /\ transcription' = [transcription EXCEPT !.error = TRUE]
  /\ jobs' = [jobs EXCEPT ![j] = NoJob]
  /\ UNCHANGED transcriptionMode

TranscriptionFails(j) ==
  /\ jobs[j].phase = "read"
  /\ transcription' = [transcription EXCEPT !.isLoading = FALSE, !.error = TRUE]
  /\ jobs' = [jobs EXCEPT ![j] = NoJob]
  /\ UNCHANGED transcriptionMode

(* Slip: a change to on-device mode during a transcription is lost.        *)
SetTranscriptionModeWhenIdle(mode) ==
  /\ transcriptionMode' = IF transcription.isLoading THEN transcriptionMode ELSE mode
  /\ UNCHANGED <<transcription, jobs>>

SetTranscriptionMode(mode) ==
  /\ transcriptionMode' = mode
  /\ UNCHANGED <<transcription, jobs>>
=============================================================================
