---------------------------- MODULE AppViewModel ----------------------------
(***************************************************************************)
(* AppViewModel: the recorder, the transcriber and the form, wired by      *)
(* callbacks.  A finished recording or a confirmed upload is transcribed,  *)
(* a transcript is offered to the form, and the transcriber follows the    *)
(* form's mode.  A callback runs inside the step that invokes it.  The     *)
(* form is MappingService, which FormViewModel implements.                 *)
(***************************************************************************)
EXTENDS Naturals

CONSTANTS
  Tasks, MaxTakes, Uploads, NoUpload,                \* RecordingViewModel
  TranscriptionJobs, SupportsOnDeviceTranscription,  \* TranscriptionViewModel
  SupportsOnDevice,                                  \* the form's on-device repository
  RecordingFile,                                     \* the path of every recording
  NoAudio

VARIABLES
  recording, tasks, recorder, capturing, takes, file,
  transcription, transcriptionMode, jobs,
  status, accepted, shown, mode

Audio == (1..MaxTakes) \union Uploads

ASSUME AppConstants ==
  /\ MaxTakes \in Nat
  /\ NoUpload \notin Uploads
  /\ RecordingFile \notin Uploads
  /\ NoAudio \notin Audio \union {RecordingFile}
  /\ SupportsOnDevice \in BOOLEAN
  /\ SupportsOnDeviceTranscription \in BOOLEAN

Recorder == INSTANCE RecordingViewModel
Transcriber == INSTANCE TranscriptionViewModel WITH Paths <- Uploads \union {RecordingFile}
Form == INSTANCE MappingService WITH Transcripts <- Audio, NoTranscript <- NoAudio

recordingVars == <<recording, tasks, recorder, capturing, takes, file>>
transcriptionVars == <<transcription, transcriptionMode, jobs>>
formVars == <<status, accepted, shown, mode>>
vars == <<recordingVars, transcriptionVars, formVars>>

Init ==
  /\ Recorder!RecordingInit
  /\ Transcriber!TranscriptionInit
  /\ Form!ServiceInit

-----------------------------------------------------------------------------
(* The callbacks.                                                          *)

OnRecordingFinished(k) ==
  /\ Recorder!NotifyFinished(k)
  /\ Transcriber!TranscribeOnIO(RecordingFile)
  /\ UNCHANGED formVars

OnFileConfirmed ==
  /\ Recorder!ConfirmUploadedFile
  /\ Transcriber!TranscribeOnMain(recording.uploaded)
  /\ UNCHANGED formVars

OnTranscriptionResult(j) ==
  /\ Transcriber!TranscriptionSucceeds(j)
  /\ Form!Accept(jobs[j].audio)
  /\ UNCHANGED recordingVars

TranscriptionModeFor(m) ==
  IF m = "ON_DEVICE" /\ SupportsOnDeviceTranscription THEN m ELSE "CLOUD"

OnAutomationModeChanged(m) ==
  /\ Form!SwitchMode(m)
  /\ Transcriber!SetTranscriptionMode(TranscriptionModeFor(m))
  /\ UNCHANGED recordingVars

-----------------------------------------------------------------------------
(* The components' own steps.                                              *)

RecorderStep ==
  /\ Recorder!RecordingUserStep \/ \E k \in Tasks : Recorder!TaskStep(k)
  /\ UNCHANGED <<transcriptionVars, formVars>>

StartQueued(j) ==
  /\ Transcriber!StartQueued(j)
  /\ UNCHANGED <<recordingVars, formVars>>

(* Slip: an incomplete recording is read like a complete one.              *)
HeldByUnchecked(path) == IF path # RecordingFile THEN path ELSE file

(* A recording that is still being written cannot be decoded.              *)
HeldBy(path) ==
  IF path # RecordingFile THEN path ELSE IF file = 0 THEN NoAudio ELSE file

ReadFile(j) ==
  /\ Transcriber!ReadFile(j, HeldBy(jobs[j].path))
  /\ UNCHANGED <<recordingVars, formVars>>

TranscriptionFails(j) ==
  /\ Transcriber!TranscriptionFails(j)
  /\ UNCHANGED <<recordingVars, formVars>>

MappingEnds ==
  /\ Form!Complete \/ Form!Fail
  /\ UNCHANGED <<recordingVars, transcriptionVars>>

Remap ==
  /\ Form!Remap
  /\ UNCHANGED <<recordingVars, transcriptionVars>>

TranscriptionEnds(j) == OnTranscriptionResult(j) \/ TranscriptionFails(j)

Next ==
  \/ RecorderStep
  \/ \E k \in Tasks : OnRecordingFinished(k)
  \/ OnFileConfirmed
  \/ \E j \in TranscriptionJobs : StartQueued(j) \/ ReadFile(j) \/ TranscriptionEnds(j)
  \/ \E m \in {"CLOUD", "ON_DEVICE"} : OnAutomationModeChanged(m)
  \/ MappingEnds
  \/ Remap

(* The dispatchers run what is queued; a transcription and a mapping end,  *)
(* with a result or an error (HTTP and inference have time limits).        *)
(* Nothing is assumed of the user.                                         *)
Fairness ==
  /\ \A j \in TranscriptionJobs :
       WF_vars(StartQueued(j)) /\ WF_vars(ReadFile(j)) /\ WF_vars(TranscriptionEnds(j))
  /\ WF_vars(MappingEnds)

Spec == Init /\ [][Next]_vars /\ Fairness
-----------------------------------------------------------------------------
(* Types of the three components' states.                                  *)
TypeOK ==
  /\ Recorder!RecordingTypeOK
  /\ Transcriber!TranscriptionTypeOK
  /\ status \in {"idle", "busy", "failed"}
  /\ accepted \in Audio \union {NoAudio}
  /\ shown \in Audio \union {NoAudio}
  /\ mode \in {"CLOUD", "ON_DEVICE"}

(* The microphone is on only while the button says so.  With one tap at a  *)
(* time (one task slot) this survives failing starts and stops.            *)
(* RecordingRepository: stopRecording "Beendet die laufende Aufnahme und   *)
(* gibt den fertigen Dateipfad zurueck".                                   *)
StopEndsRecording ==
  Recorder!Busy = {} /\ ~recording.isRecording => capturing = {}

(* What onRecordingFinished announces is there: the recording file holds   *)
(* the latest take, complete.                                              *)
AnnouncedIsComplete ==
  \A k \in Tasks : tasks[k].phase = "notify" => file = takes

(* The transcription spinner stands for a transcription that is running,   *)
(* also when two overlap and the first to end clears isLoading.            *)
SpinnerIsReal == transcription.isLoading => Transcriber!Started # {}

(* Spinner and error message are never both set, whatever the order in     *)
(* which overlapping transcriptions start and end (TranscriptionScreen     *)
(* shows one of them).                                                     *)
SpinnerOrError == ~(transcription.isLoading /\ transcription.error)

(* In on-device mode no transcription is started in the cloud, and in      *)
(* cloud mode none on the device, if both are available: the recordings    *)
(* that are queued when the mode changes follow the new mode.              *)
StartsFollowMode ==
  [][\A j \in TranscriptionJobs :
       j \notin Transcriber!Started /\ j \in Transcriber!Started'
         => jobs'[j].useCase = TranscriptionModeFor(mode)]_vars

(* The transcription spinner always goes away.                             *)
TranscriptionSettles == transcription.isLoading ~> ~transcription.isLoading

(* AppViewModel, Ablauf: "3. Transkriptions-Ergebnis -> applyTranscript ->  *)
(* GPT-4o-mini ordnet Transkript-Inhalte den Formularfeldern zu".  Once    *)
(* nothing is running, the transcript on screen is the one the form was    *)
(* filled from, or that failed to map.                                     *)
ShownIsMapped ==
  status # "busy" /\ Recorder!Busy = {} /\ Transcriber!FreeJobs = TranscriptionJobs
    => accepted = transcription.segments
=============================================================================
