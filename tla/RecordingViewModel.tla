------------------------- MODULE RecordingViewModel -------------------------
(***************************************************************************)
(* RecordingViewModel with its repository and the Android recorder.        *)
(*                                                                         *)
(* A tap on the record button runs on the main thread: it looks at         *)
(* isRecording and launches a start or a stop task on Dispatchers.IO.  The *)
(* tasks of two taps may run at the same time; their reads and writes of   *)
(* AndroidAudioRecorder.recorder and of the UI state interleave.           *)
(*                                                                         *)
(* A MediaRecorder is named by the take it captures.  Every take goes to   *)
(* the one recording file (PlatformFileProvider), so the paths are left    *)
(* out; file is the take it holds once complete, 0 if none.  An uploaded   *)
(* file has a path of its own.                                             *)
(***************************************************************************)
EXTENDS Naturals

CONSTANTS
  Tasks,      \* IO tasks that may be in flight at once
  MaxTakes,   \* bound on the takes started
  Uploads,    \* files the user may pick
  NoUpload    \* uploadedFilePath = null

VARIABLES
  recording,   \* RecordingUiState
  tasks,       \* the IO task in each slot
  recorder,    \* AndroidAudioRecorder.recorder, 0 for null
  capturing,   \* MediaRecorders that are capturing (external)
  takes,       \* takes started so far
  file         \* the complete take in the recording file (external)

recordingVars == <<recording, tasks, recorder, capturing, takes, file>>

NoTask == [phase |-> "idle", take |-> 0]

Busy == {k \in Tasks : tasks[k].phase # "idle"}

RecordingTypeOK ==
  /\ recording \in
       [isRecording : BOOLEAN, isPermissionGranted : BOOLEAN,
        uploaded : Uploads \union {NoUpload}, isLoadingFile : BOOLEAN,
        shouldOpenFilePicker : BOOLEAN, error : BOOLEAN]
  /\ tasks \in [Tasks ->
       [phase : {"idle", "start", "assign", "started", "stop", "stopping", "clear", "stopped", "notify"},
        take : 0..MaxTakes]]
  /\ recorder \in 0..MaxTakes
  /\ capturing \subseteq 1..MaxTakes
  /\ takes \in 0..MaxTakes
  /\ file \in 0..MaxTakes

RecordingInit ==
  /\ recording =
       [isRecording |-> FALSE, isPermissionGranted |-> FALSE, uploaded |-> NoUpload,
        isLoadingFile |-> FALSE, shouldOpenFilePicker |-> FALSE, error |-> FALSE]
  /\ tasks = [k \in Tasks |-> NoTask]
  /\ recorder = 0
  /\ capturing = {}
  /\ takes = 0
  /\ file = 0

PermissionGranted ==
  /\ recording' = [recording EXCEPT !.isPermissionGranted = TRUE, !.error = FALSE]
  /\ UNCHANGED <<tasks, recorder, capturing, takes, file>>

(* The system asks once; a permission granted before is not denied later.  *)
PermissionDenied ==
  /\ ~recording.isPermissionGranted
  /\ recording' = [recording EXCEPT !.isPermissionGranted = FALSE, !.error = TRUE]
  /\ UNCHANGED <<tasks, recorder, capturing, takes, file>>

(* toggleRecording, by the button that RecordingScreen enables.            *)
ToggleRecording(k) ==
  /\ recording.isPermissionGranted
  /\ tasks[k].phase = "idle"
  /\ tasks' = [tasks EXCEPT ![k].phase = IF recording.isRecording THEN "stop" ELSE "start"]
  /\ UNCHANGED <<recording, recorder, capturing, takes, file>>

-----------------------------------------------------------------------------
(* startRecording                                                          *)

NativeStart(k) ==
  /\ tasks[k].phase = "start"
  /\ takes < MaxTakes
  /\ takes' = takes + 1
  /\ tasks' = [tasks EXCEPT ![k] = [phase |-> "assign", take |-> takes']]
  /\ capturing' = capturing \union {takes'}
  /\ file' = 0
  /\ UNCHANGED <<recording, recorder>>

(* prepare() or start() threw: recorder is not assigned.                   *)
NativeStartFails(k) ==
  /\ tasks[k].phase = "start"
  /\ tasks' = [tasks EXCEPT ![k] = NoTask]
  /\ recording' = [recording EXCEPT !.error = TRUE]
  /\ UNCHANGED <<recorder, capturing, takes, file>>

AssignRecorder(k) ==
  /\ tasks[k].phase = "assign"
  /\ recorder' = tasks[k].take
  /\ tasks' = [tasks EXCEPT ![k].phase = "started"]
  /\ UNCHANGED <<recording, capturing, takes, file>>

(* Slip: isRecording is not raised.                                        *)
ShowStartedUnmarked(k) ==
  /\ tasks[k].phase = "started"
  /\ recording' = [recording EXCEPT !.error = FALSE]
  /\ tasks' = [tasks EXCEPT ![k] = NoTask]
  /\ UNCHANGED <<recorder, capturing, takes, file>>

ShowStarted(k) ==
  /\ tasks[k].phase = "started"
  /\ recording' = [recording EXCEPT !.isRecording = TRUE, !.error = FALSE]
  /\ tasks' = [tasks EXCEPT ![k] = NoTask]
  /\ UNCHANGED <<recorder, capturing, takes, file>>

-----------------------------------------------------------------------------
(* stopRecording.  recorder?.apply { ... } reads the field once; a null    *)
(* recorder is not an error.                                               *)

(* Slip: the recorder is dropped without stop() and release().             *)
ReadRecorderWithoutStop(k) ==
  /\ tasks[k].phase = "stop"
  /\ tasks' = [tasks EXCEPT ![k] = [phase |-> "clear", take |-> recorder]]
  /\ UNCHANGED <<recording, recorder, capturing, takes, file>>

ReadRecorder(k) ==
  /\ tasks[k].phase = "stop"
  /\ tasks' = [tasks EXCEPT ![k] =
       [phase |-> IF recorder = 0 THEN "clear" ELSE "stopping", take |-> recorder]]
  /\ UNCHANGED <<recording, recorder, capturing, takes, file>>

(* stop() and release(); the file is complete unless another recorder is   *)
(* still writing it.                                                       *)
NativeStop(k) ==
  /\ tasks[k].phase = "stopping"
  /\ tasks[k].take \in capturing
  /\ capturing' = capturing \ {tasks[k].take}
  /\ file' = IF capturing' = {} THEN tasks[k].take ELSE 0
  /\ tasks' = [tasks EXCEPT ![k].phase = "clear"]
  /\ UNCHANGED <<recording, recorder, takes>>

(* stop() threw (nothing captured yet, or released by the task of another  *)
(* tap): release() and the assignment of null are skipped.                 *)
NativeStopThrows(k) ==
  /\ tasks[k].phase = "stopping"
  /\ capturing' = capturing \ {tasks[k].take}
  /\ recording' = [recording EXCEPT !.isRecording = FALSE, !.error = TRUE]
  /\ tasks' = [tasks EXCEPT ![k] = NoTask]
  /\ UNCHANGED <<recorder, takes, file>>

ClearRecorder(k) ==
  /\ tasks[k].phase = "clear"
  /\ recorder' = 0
  /\ tasks' = [tasks EXCEPT ![k].phase = "stopped"]
  /\ UNCHANGED <<recording, capturing, takes, file>>

ShowStopped(k) ==
  /\ tasks[k].phase = "stopped"
  /\ recording' = [recording EXCEPT !.isRecording = FALSE]
  /\ tasks' = [tasks EXCEPT ![k].phase = "notify"]
  /\ UNCHANGED <<recorder, capturing, takes, file>>

(* onRecordingFinished(path), still on the IO thread.                      *)
NotifyFinished(k) ==
  /\ tasks[k].phase = "notify"
  /\ tasks' = [tasks EXCEPT ![k] = NoTask]
  /\ UNCHANGED <<recording, recorder, capturing, takes, file>>

-----------------------------------------------------------------------------
(* The file picker.  RecordingScreen opens it while shouldOpenFilePicker   *)
(* is set and answers with a file or with an error (a cancelled choice     *)
(* too), then calls onFilePickerClosed.                                    *)

StartFileSelection ==
  /\ ~recording.isRecording
  /\ recording.uploaded = NoUpload
  /\ ~recording.isLoadingFile
  /\ recording' = [recording EXCEPT !.shouldOpenFilePicker = TRUE, !.isLoadingFile = TRUE,
                                    !.error = FALSE]
  /\ UNCHANGED <<tasks, recorder, capturing, takes, file>>

FileSelected(u) ==
  /\ recording.shouldOpenFilePicker
  /\ recording' = [recording EXCEPT !.uploaded = u, !.isLoadingFile = FALSE,
                                    !.shouldOpenFilePicker = FALSE]
  /\ UNCHANGED <<tasks, recorder, capturing, takes, file>>

FilePickerError ==
  /\ recording.shouldOpenFilePicker
  /\ recording' = [recording EXCEPT !.isLoadingFile = FALSE, !.shouldOpenFilePicker = FALSE,
                                    !.error = TRUE]
  /\ UNCHANGED <<tasks, recorder, capturing, takes, file>>

(* confirmUploadedFileSelection only calls onFileSelected(uploaded).       *)
ConfirmUploadedFile ==
  /\ recording.uploaded # NoUpload
  /\ UNCHANGED recordingVars

ClearUploadedFile ==
  /\ recording.uploaded # NoUpload
  /\ recording' = [recording EXCEPT !.uploaded = NoUpload, !.isLoadingFile = FALSE,
                                    !.shouldOpenFilePicker = FALSE]
  /\ UNCHANGED <<tasks, recorder, capturing, takes, file>>

-----------------------------------------------------------------------------
(* The steps of the task in slot k, the notification excepted.             *)
TaskStep(k) ==
  \/ NativeStart(k) \/ NativeStartFails(k) \/ AssignRecorder(k) \/ ShowStarted(k)
  \/ ReadRecorder(k) \/ NativeStop(k) \/ NativeStopThrows(k)
  \/ ClearRecorder(k) \/ ShowStopped(k)

RecordingUserStep ==
  \/ PermissionGranted
  \/ PermissionDenied
  \/ \E k \in Tasks : ToggleRecording(k)
  \/ StartFileSelection
  \/ \E u \in Uploads : FileSelected(u)
  \/ FilePickerError
  \/ ClearUploadedFile
=============================================================================
