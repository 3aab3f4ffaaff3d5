------------------------- MODULE AppViewModel_proofs -------------------------
(***************************************************************************)
(* The wired components keep their types, the transcription spinner tells  *)
(* the truth and the transcriber follows the form's mode, for any number   *)
(* of taps, transcriptions and takes; and with one tap at a time the       *)
(* microphone is off when the button says so and what is announced is      *)
(* complete.                                                               *)
(***************************************************************************)
EXTENDS AppViewModel, TLAPS

(* The transcriber's mode is the one the form's mode asks for.             *)
ModeFollows == transcriptionMode = TranscriptionModeFor(mode)

AppInv == TypeOK /\ SpinnerIsReal /\ SpinnerOrError /\ ModeFollows

-----------------------------------------------------------------------------
(* One tap at a time.                                                      *)

(* The last take is being captured, by the recorder in the field.          *)
Capturing == takes > 0 /\ capturing = {takes}

(* What the task t stands for in each of its phases.                       *)
PhaseMeans(t) ==
  /\ t.phase = "start" => ~recording.isRecording /\ capturing = {}
  /\ t.phase = "assign" => ~recording.isRecording /\ Capturing /\ t.take = takes
  /\ t.phase = "started" => ~recording.isRecording /\ Capturing /\ recorder = takes
  /\ t.phase = "stop" => recording.isRecording /\ Capturing /\ recorder = takes
  /\ t.phase = "stopping" =>
       recording.isRecording /\ Capturing /\ recorder = takes /\ t.take = takes
  /\ t.phase \in {"clear", "stopped"} =>
       recording.isRecording /\ capturing = {} /\ file = takes
  /\ t.phase = "notify" => ~recording.isRecording /\ capturing = {} /\ file = takes

(* Between two taps the button, the microphone and the field agree.        *)
Quiet ==
  IF recording.isRecording THEN Capturing /\ recorder = takes ELSE capturing = {}

TapInv ==
  /\ \A k \in Tasks : PhaseMeans(tasks[k])
  /\ (\A k \in Tasks : tasks[k].phase = "idle") => Quiet

-----------------------------------------------------------------------------
(* Types of the recorder.                                                  *)

LEMMA UserStepTypes ==
  ASSUME Recorder!RecordingTypeOK, Recorder!RecordingUserStep
  PROVE  Recorder!RecordingTypeOK'
<1>. USE DEF Recorder!RecordingTypeOK
<1>1. CASE Recorder!PermissionGranted
  BY <1>1 DEF Recorder!PermissionGranted
<1>2. CASE Recorder!PermissionDenied
  BY <1>2 DEF Recorder!PermissionDenied
<1>3. CASE \E k \in Tasks : Recorder!ToggleRecording(k)
  BY <1>3 DEF Recorder!ToggleRecording
<1>4. CASE Recorder!StartFileSelection
  BY <1>4 DEF Recorder!StartFileSelection
<1>5. CASE \E u \in Uploads : Recorder!FileSelected(u)
  BY <1>5 DEF Recorder!FileSelected
<1>6. CASE Recorder!FilePickerError
  BY <1>6 DEF Recorder!FilePickerError
<1>7. CASE Recorder!ClearUploadedFile
  BY <1>7 DEF Recorder!ClearUploadedFile
<1>. QED
  BY <1>1, <1>2, <1>3, <1>4, <1>5, <1>6, <1>7 DEF Recorder!RecordingUserStep

LEMMA TaskStepTypes ==
  ASSUME Recorder!RecordingTypeOK, NEW k \in Tasks, Recorder!TaskStep(k)
  PROVE  Recorder!RecordingTypeOK'
<1>0. Recorder!NoTask \in
        [phase : {"idle", "start", "assign", "started", "stop", "stopping", "clear", "stopped",
                  "notify"},
         take : 0 .. MaxTakes]
  <2>1. 0 \in 0 .. MaxTakes
    BY AppConstants
  <2>. QED
    BY <2>1 DEF Recorder!NoTask
<1>. USE <1>0, AppConstants DEF Recorder!RecordingTypeOK
<1>1. CASE Recorder!NativeStart(k)
  BY <1>1 DEF Recorder!NativeStart
<1>2. CASE Recorder!NativeStartFails(k)
  BY <1>2 DEF Recorder!NativeStartFails
<1>3. CASE Recorder!AssignRecorder(k)
  BY <1>3 DEF Recorder!AssignRecorder
<1>4. CASE Recorder!ShowStarted(k)
  BY <1>4 DEF Recorder!ShowStarted
<1>5. CASE Recorder!ReadRecorder(k)
  BY <1>5 DEF Recorder!ReadRecorder
<1>6. CASE Recorder!NativeStop(k)
  BY <1>6 DEF Recorder!NativeStop
<1>7. CASE Recorder!NativeStopThrows(k)
  BY <1>7 DEF Recorder!NativeStopThrows
<1>8. CASE Recorder!ClearRecorder(k)
  BY <1>8 DEF Recorder!ClearRecorder
<1>9. CASE Recorder!ShowStopped(k)
  BY <1>9 DEF Recorder!ShowStopped
<1>. QED
  BY <1>1, <1>2, <1>3, <1>4, <1>5, <1>6, <1>7, <1>8, <1>9 DEF Recorder!TaskStep

LEMMA NotifyTypes ==
  ASSUME Recorder!RecordingTypeOK, NEW k \in Tasks, Recorder!NotifyFinished(k)
  PROVE  Recorder!RecordingTypeOK'
<1>1. 0 \in 0 .. MaxTakes
  BY AppConstants
<1>2. Recorder!NoTask \in
        [phase : {"idle", "start", "assign", "started", "stop", "stopping", "clear", "stopped",
                  "notify"},
         take : 0 .. MaxTakes]
  BY <1>1 DEF Recorder!NoTask
<1>. QED
  BY <1>2 DEF Recorder!RecordingTypeOK, Recorder!NotifyFinished

-----------------------------------------------------------------------------
(* The transcriber: its types, and what it shows.                          *)

TranscriberInv == Transcriber!TranscriptionTypeOK /\ SpinnerIsReal /\ SpinnerOrError

(* A transcription starts.                                                 *)
LEMMA StartKeeps ==
  ASSUME TranscriberInv, NEW j \in TranscriptionJobs, NEW path \in Uploads \union {RecordingFile} \union {NoAudio},
         Transcriber!Start(j, path)
  PROVE  /\ TranscriberInv'
         /\ jobs'[j].useCase =
              IF transcriptionMode = "ON_DEVICE" /\ SupportsOnDeviceTranscription
              THEN "ON_DEVICE" ELSE "CLOUD"
         /\ \A i \in TranscriptionJobs : i # j => jobs'[i] = jobs[i]
         /\ transcriptionMode' = transcriptionMode
<1>. DEFINE use == IF transcriptionMode = "ON_DEVICE" /\ SupportsOnDeviceTranscription
                   THEN "ON_DEVICE" ELSE "CLOUD"
            job == [phase |-> "started", path |-> path, audio |-> NoAudio, useCase |-> use]
<1>1. use \in {"CLOUD", "ON_DEVICE"}
  OBVIOUS
<1>2. /\ transcription' = [transcription EXCEPT !.isLoading = TRUE, !.error = FALSE]
      /\ jobs' = [jobs EXCEPT ![j] = job]
      /\ transcriptionMode' = transcriptionMode
  BY DEF Transcriber!Start
<1>. HIDE DEF use
<1>3. Transcriber!TranscriptionTypeOK
  BY DEF TranscriberInv
<1>4. Transcriber!TranscriptionTypeOK'
  BY <1>1, <1>2, <1>3 DEF Transcriber!TranscriptionTypeOK
<1>5. jobs'[j] = job /\ \A i \in TranscriptionJobs : i # j => jobs'[i] = jobs[i]
  BY <1>2, <1>3 DEF Transcriber!TranscriptionTypeOK
<1>6. SpinnerIsReal'
  BY <1>5 DEF SpinnerIsReal, Transcriber!Started
<1>7. SpinnerOrError'
  BY <1>2, <1>3 DEF SpinnerOrError, Transcriber!TranscriptionTypeOK
<1>. QED
  BY <1>2, <1>4, <1>5, <1>6, <1>7 DEF TranscriberInv, use

(* A transcription is queued.                                              *)
LEMMA QueueKeeps ==
  ASSUME TranscriberInv, Transcriber!TranscribeOnIO(RecordingFile)
  PROVE  /\ TranscriberInv'
         /\ Transcriber!Started' = Transcriber!Started
         /\ transcriptionMode' = transcriptionMode
<1>1. CASE UNCHANGED <<transcription, transcriptionMode, jobs>>
  BY <1>1 DEF TranscriberInv, Transcriber!TranscriptionTypeOK, SpinnerIsReal, SpinnerOrError,
              Transcriber!Started
<1>2. ASSUME NEW j \in TranscriptionJobs, jobs[j].phase = "idle",
             jobs' = [jobs EXCEPT ![j] = [Transcriber!NoJob EXCEPT !.phase = "queued",
                                                                   !.path = RecordingFile]],
             UNCHANGED <<transcription, transcriptionMode>>
      PROVE  /\ TranscriberInv'
             /\ Transcriber!Started' = Transcriber!Started
             /\ transcriptionMode' = transcriptionMode
  <2>. DEFINE job == [Transcriber!NoJob EXCEPT !.phase = "queued", !.path = RecordingFile]
  <2>0. /\ job \in [phase : {"idle", "queued", "started", "read"},
                    path : Uploads \union {RecordingFile} \union {NoAudio},
                    audio : Audio \union {NoAudio},
                    useCase : {"CLOUD", "ON_DEVICE"}]
        /\ job.phase = "queued"
    <3>1. Transcriber!NoJob \in
            [phase : {"idle", "queued", "started", "read"},
             path : Uploads \union {RecordingFile} \union {NoAudio},
             audio : Audio \union {NoAudio},
             useCase : {"CLOUD", "ON_DEVICE"}]
      BY DEF Transcriber!NoJob
    <3>. QED
      BY <3>1
  <2>. HIDE DEF job
  <2>1. jobs' = [jobs EXCEPT ![j] = job]
    BY <1>2 DEF job
  <2>2. Transcriber!TranscriptionTypeOK
    BY DEF TranscriberInv
  <2>3. Transcriber!TranscriptionTypeOK'
    <3>. DEFINE J == [phase : {"idle", "queued", "started", "read"},
                      path : Uploads \union {RecordingFile} \union {NoAudio},
                      audio : Audio \union {NoAudio},
                      useCase : {"CLOUD", "ON_DEVICE"}]
    <3>1. jobs \in [TranscriptionJobs -> J] /\ job \in J
      BY <2>0, <2>2 DEF Transcriber!TranscriptionTypeOK
    <3>. HIDE DEF J
    <3>2. jobs' \in [TranscriptionJobs -> J]
      BY <2>1, <3>1
    <3>. QED
      BY <1>2, <2>2, <3>2 DEF Transcriber!TranscriptionTypeOK, J
  <2>4. jobs'[j].phase = "queued" /\ \A i \in TranscriptionJobs : i # j => jobs'[i] = jobs[i]
    BY <2>0, <2>1, <2>2 DEF Transcriber!TranscriptionTypeOK
  <2>5. Transcriber!Started' = Transcriber!Started
    BY <1>2, <2>4 DEF Transcriber!Started
  <2>6. SpinnerIsReal' /\ SpinnerOrError'
    BY <1>2, <2>5 DEF TranscriberInv, SpinnerIsReal, SpinnerOrError
  <2>. QED
    BY <1>2, <2>3, <2>5, <2>6 DEF TranscriberInv
<1>. QED
  BY <1>1, <1>2 DEF Transcriber!TranscribeOnIO, Transcriber!FreeJobs, Transcriber!transcriptionVars

(* The file is read.                                                       *)
LEMMA ReadKeeps ==
  ASSUME TranscriberInv, NEW j \in TranscriptionJobs, NEW a \in Audio \union {NoAudio},
         Transcriber!ReadFile(j, a)
  PROVE  /\ TranscriberInv'
         /\ Transcriber!Started' = Transcriber!Started
         /\ transcriptionMode' = transcriptionMode
<1>1. /\ jobs[j].phase = "started"
      /\ jobs' = [jobs EXCEPT ![j].phase = "read", ![j].audio = a]
      /\ UNCHANGED <<transcription, transcriptionMode>>
  BY DEF Transcriber!ReadFile
<1>2. Transcriber!TranscriptionTypeOK
  BY DEF TranscriberInv
<1>3. Transcriber!TranscriptionTypeOK'
  BY <1>1, <1>2 DEF Transcriber!TranscriptionTypeOK
<1>4. jobs'[j].phase = "read" /\ \A i \in TranscriptionJobs : i # j => jobs'[i] = jobs[i]
  BY <1>1, <1>2 DEF Transcriber!TranscriptionTypeOK
<1>5. Transcriber!Started' = Transcriber!Started
  BY <1>1, <1>4 DEF Transcriber!Started
<1>6. SpinnerIsReal' /\ SpinnerOrError'
  BY <1>1, <1>5 DEF TranscriberInv, SpinnerIsReal, SpinnerOrError
<1>. QED
  BY <1>1, <1>3, <1>5, <1>6 DEF TranscriberInv

(* A transcription ends; the spinner goes off although another may run.    *)
LEMMA EndKeeps ==
  ASSUME TranscriberInv, NEW j \in TranscriptionJobs,
         Transcriber!TranscriptionSucceeds(j) \/ Transcriber!TranscriptionFails(j)
  PROVE  /\ TranscriberInv'
         /\ Transcriber!Started' \subseteq Transcriber!Started
         /\ transcriptionMode' = transcriptionMode
<1>1. /\ jobs' = [jobs EXCEPT ![j] = Transcriber!NoJob]
      /\ transcriptionMode' = transcriptionMode
  BY DEF Transcriber!TranscriptionSucceeds, Transcriber!TranscriptionFails
<1>2. Transcriber!TranscriptionTypeOK
  BY DEF TranscriberInv
<1>3. /\ transcription' \in
           [isLoading : BOOLEAN, segments : Audio \union {NoAudio}, error : BOOLEAN]
      /\ transcription'.isLoading = FALSE
  BY <1>2 DEF Transcriber!TranscriptionTypeOK, Transcriber!TranscriptionSucceeds,
              Transcriber!TranscriptionFails
<1>4. Transcriber!TranscriptionTypeOK'
  BY <1>1, <1>2, <1>3 DEF Transcriber!TranscriptionTypeOK, Transcriber!NoJob
<1>5. jobs'[j].phase = "idle" /\ \A i \in TranscriptionJobs : i # j => jobs'[i] = jobs[i]
  BY <1>1, <1>2 DEF Transcriber!TranscriptionTypeOK, Transcriber!NoJob
<1>6. Transcriber!Started' \subseteq Transcriber!Started
  BY <1>5 DEF Transcriber!Started
<1>7. SpinnerIsReal' /\ SpinnerOrError'
  BY <1>3 DEF SpinnerIsReal, SpinnerOrError
<1>. QED
  BY <1>1, <1>4, <1>6, <1>7 DEF TranscriberInv

(* Nothing happens to the transcriber, its mode apart.                     *)
LEMMA TranscriberUntouched ==
  ASSUME TranscriberInv, UNCHANGED <<transcription, jobs>>,
         transcriptionMode' \in {"CLOUD", "ON_DEVICE"}
  PROVE  TranscriberInv' /\ Transcriber!Started' = Transcriber!Started
BY DEF TranscriberInv, Transcriber!TranscriptionTypeOK, SpinnerIsReal, SpinnerOrError,
       Transcriber!Started

-----------------------------------------------------------------------------
(* The form, as far as its types go.                                       *)

FormTypes ==
  /\ status \in {"idle", "busy", "failed"}
  /\ accepted \in Audio \union {NoAudio}
  /\ shown \in Audio \union {NoAudio}
  /\ mode \in {"CLOUD", "ON_DEVICE"}

LEMMA FormStepTypes ==
  ASSUME FormTypes, NEW a \in Audio \union {NoAudio}, NEW m \in {"CLOUD", "ON_DEVICE"},
         \/ Form!Accept(a) \/ Form!Complete \/ Form!Fail \/ Form!SwitchMode(m) \/ Form!Remap
         \/ UNCHANGED formVars
  PROVE  FormTypes'
BY DEF FormTypes, Form!Accept, Form!Complete, Form!Fail, Form!SwitchMode, Form!Remap,
       Form!Offer, Form!OfferAgain, formVars

-----------------------------------------------------------------------------
(* The app.                                                                *)

LEMMA AppInvParts ==
  AppInv <=> Recorder!RecordingTypeOK /\ TranscriberInv /\ FormTypes /\ ModeFollows
BY DEF AppInv, TypeOK, TranscriberInv, FormTypes

LEMMA AppInitial == Init => AppInv
<1>. SUFFICES ASSUME Init PROVE AppInv
  OBVIOUS
<1>1. Recorder!RecordingTypeOK
  <2>1. 0 \in 0 .. MaxTakes
    BY AppConstants
  <2>2. Recorder!NoTask \in
          [phase : {"idle", "start", "assign", "started", "stop", "stopping", "clear",
                    "stopped", "notify"},
           take : 0 .. MaxTakes]
    BY <2>1 DEF Recorder!NoTask
  <2>3. tasks \in [Tasks ->
          [phase : {"idle", "start", "assign", "started", "stop", "stopping", "clear",
                    "stopped", "notify"},
           take : 0 .. MaxTakes]]
    BY <2>2 DEF Init, Recorder!RecordingInit
  <2>4. recording \in
          [isRecording : BOOLEAN, isPermissionGranted : BOOLEAN,
           uploaded : Uploads \union {NoUpload}, isLoadingFile : BOOLEAN,
           shouldOpenFilePicker : BOOLEAN, error : BOOLEAN]
    BY DEF Init, Recorder!RecordingInit
  <2>5. recorder \in 0 .. MaxTakes /\ takes \in 0 .. MaxTakes /\ file \in 0 .. MaxTakes
    BY <2>1, Zenon DEF Init, Recorder!RecordingInit
  <2>. QED
    BY <2>3, <2>4, <2>5 DEF Init, Recorder!RecordingInit, Recorder!RecordingTypeOK
<1>2. TranscriberInv
  BY DEF Init, Transcriber!TranscriptionInit, TranscriberInv, Transcriber!TranscriptionTypeOK,
         Transcriber!NoJob, SpinnerIsReal, SpinnerOrError
<1>3. FormTypes /\ ModeFollows
  BY DEF Init, Form!ServiceInit, Transcriber!TranscriptionInit, FormTypes, ModeFollows,
         TranscriptionModeFor
<1>. QED
  BY <1>1, <1>2, <1>3, AppInvParts

(* What a file holds is audio, or cannot be read.                          *)
LEMMA HeldIsAudio ==
  ASSUME AppInv, NEW j \in TranscriptionJobs
  PROVE  HeldBy(jobs[j].path) \in Audio \union {NoAudio}
<1>1. jobs[j].path \in Uploads \union {RecordingFile} \union {NoAudio}
  BY DEF AppInv, TypeOK, Transcriber!TranscriptionTypeOK
<1>2. file \in 0 .. MaxTakes
  BY DEF AppInv, TypeOK, Recorder!RecordingTypeOK
<1>3. file # 0 => file \in 1 .. MaxTakes
  BY <1>2, AppConstants
<1>. QED
  BY <1>1, <1>3 DEF HeldBy, Audio

(* A step keeps the invariant, and a transcription it starts is made where *)
(* the mode says.                                                          *)
StartedRight ==
  \A j \in TranscriptionJobs :
    j \notin Transcriber!Started /\ j \in Transcriber!Started'
      => jobs'[j].useCase = TranscriptionModeFor(mode)

(* A transcription that starts is made where the mode says.                *)
LEMMA StartRight ==
  ASSUME AppInv, NEW j \in TranscriptionJobs, NEW path \in Uploads \union {RecordingFile} \union {NoAudio},
         Transcriber!Start(j, path), UNCHANGED formVars
  PROVE  TranscriberInv' /\ ModeFollows' /\ StartedRight
<1>1. TranscriberInv /\ ModeFollows /\ FormTypes
  BY AppInvParts
<1>2. /\ TranscriberInv'
      /\ jobs'[j].useCase =
           IF transcriptionMode = "ON_DEVICE" /\ SupportsOnDeviceTranscription
           THEN "ON_DEVICE" ELSE "CLOUD"
      /\ \A i \in TranscriptionJobs : i # j => jobs'[i] = jobs[i]
      /\ transcriptionMode' = transcriptionMode
  BY <1>1, StartKeeps
<1>3. jobs'[j].useCase = TranscriptionModeFor(mode)
  BY <1>1, <1>2 DEF ModeFollows, TranscriptionModeFor, FormTypes
<1>4. StartedRight
  BY <1>2, <1>3 DEF StartedRight, Transcriber!Started
<1>5. ModeFollows'
  BY <1>1, <1>2 DEF ModeFollows, TranscriptionModeFor, formVars
<1>. QED
  BY <1>2, <1>4, <1>5

LEMMA AppStep == AppInv /\ [Next]_vars => AppInv' /\ StartedRight
<1>. SUFFICES ASSUME AppInv, [Next]_vars PROVE AppInv' /\ StartedRight
  OBVIOUS
<1>0. Recorder!RecordingTypeOK /\ TranscriberInv /\ FormTypes /\ ModeFollows
  BY AppInvParts
<1>. USE <1>0
<1>a. ASSUME Recorder!RecordingTypeOK', TranscriberInv', FormTypes', ModeFollows'
      PROVE  AppInv'
  BY <1>a DEF AppInv, TypeOK, TranscriberInv, FormTypes
<1>b. ASSUME Transcriber!Started' \subseteq Transcriber!Started
      PROVE  StartedRight
  BY <1>b DEF StartedRight
<1>c. ASSUME UNCHANGED transcriptionVars
      PROVE  /\ TranscriberInv' /\ Transcriber!Started' = Transcriber!Started
             /\ transcriptionMode' = transcriptionMode
  BY <1>c DEF transcriptionVars, TranscriberInv, Transcriber!TranscriptionTypeOK, SpinnerIsReal,
              SpinnerOrError, Transcriber!Started
<1>d. ASSUME UNCHANGED recordingVars
      PROVE  Recorder!RecordingTypeOK'
  BY <1>d DEF recordingVars, Recorder!RecordingTypeOK
<1>e. ASSUME mode' = mode, transcriptionMode' = transcriptionMode
      PROVE  ModeFollows'
  BY <1>e DEF ModeFollows, TranscriptionModeFor
<1>1. CASE RecorderStep
  <2>1. UNCHANGED <<transcriptionVars, formVars>>
    BY <1>1 DEF RecorderStep
  <2>2. Recorder!RecordingTypeOK'
    BY <1>1, UserStepTypes, TaskStepTypes DEF RecorderStep
  <2>3. FormTypes' /\ mode' = mode
    BY <2>1 DEF FormTypes, formVars
  <2>. QED
    BY <2>1, <2>2, <2>3, <1>a, <1>b, <1>c, <1>e
<1>2. ASSUME NEW k \in Tasks, OnRecordingFinished(k)
      PROVE  AppInv' /\ StartedRight
  <2>1. UNCHANGED formVars
    BY <1>2 DEF OnRecordingFinished
  <2>2. Recorder!RecordingTypeOK'
    BY <1>2, NotifyTypes DEF OnRecordingFinished
  <2>3. /\ TranscriberInv' /\ Transcriber!Started' = Transcriber!Started
        /\ transcriptionMode' = transcriptionMode
    BY <1>2, QueueKeeps DEF OnRecordingFinished
  <2>4. FormTypes' /\ mode' = mode
    BY <2>1 DEF FormTypes, formVars
  <2>. QED
    BY <2>2, <2>3, <2>4, <1>a, <1>b, <1>e
<1>3. CASE OnFileConfirmed
  <2>1. UNCHANGED formVars /\ UNCHANGED recordingVars
    BY <1>3 DEF OnFileConfirmed, Recorder!ConfirmUploadedFile, Recorder!recordingVars,
                recordingVars
  <2>2. recording.uploaded \in Uploads
    BY <1>3 DEF OnFileConfirmed, Recorder!ConfirmUploadedFile, Recorder!RecordingTypeOK
  <2>3. TranscriberInv' /\ ModeFollows' /\ StartedRight
    <3>1. CASE UNCHANGED transcriptionVars
      <4>1. mode' = mode
        BY <2>1 DEF formVars
      <4>. QED
        BY <3>1, <4>1, <1>b, <1>c, <1>e
    <3>2. CASE \E j \in TranscriptionJobs : Transcriber!Start(j, recording.uploaded)
      BY <2>1, <2>2, <3>2, StartRight
    <3>. QED
      BY <1>3, <3>1, <3>2 DEF OnFileConfirmed, Transcriber!TranscribeOnMain, Transcriber!FreeJobs,
                              Transcriber!transcriptionVars, transcriptionVars
  <2>4. FormTypes'
    BY <2>1 DEF FormTypes, formVars
  <2>. QED
    BY <2>1, <2>3, <2>4, <1>a, <1>d
<1>4. ASSUME NEW j \in TranscriptionJobs, StartQueued(j)
      PROVE  AppInv' /\ StartedRight
  <2>1. /\ UNCHANGED <<recordingVars, formVars>>
        /\ jobs[j].phase = "queued" /\ Transcriber!Start(j, jobs[j].path)
    BY <1>4 DEF StartQueued, Transcriber!StartQueued
  <2>2. jobs[j].path \in Uploads \union {RecordingFile} \union {NoAudio}
    BY DEF TranscriberInv, Transcriber!TranscriptionTypeOK
  <2>3. TranscriberInv' /\ ModeFollows' /\ StartedRight
    BY <2>1, <2>2, StartRight
  <2>4. FormTypes'
    BY <2>1 DEF FormTypes, formVars
  <2>. QED
    BY <2>1, <2>3, <2>4, <1>a, <1>d
<1>5. ASSUME NEW j \in TranscriptionJobs, ReadFile(j)
      PROVE  AppInv' /\ StartedRight
  <2>1. UNCHANGED <<recordingVars, formVars>>
    BY <1>5 DEF ReadFile
  <2>2. /\ TranscriberInv' /\ Transcriber!Started' = Transcriber!Started
        /\ transcriptionMode' = transcriptionMode
    BY <1>5, HeldIsAudio, ReadKeeps DEF ReadFile
  <2>3. FormTypes' /\ mode' = mode
    BY <2>1 DEF FormTypes, formVars
  <2>. QED
    BY <2>1, <2>2, <2>3, <1>a, <1>b, <1>d, <1>e
<1>6. ASSUME NEW j \in TranscriptionJobs, TranscriptionEnds(j)
      PROVE  AppInv' /\ StartedRight
  <2>1. /\ UNCHANGED recordingVars
        /\ Transcriber!TranscriptionSucceeds(j) \/ Transcriber!TranscriptionFails(j)
        /\ Form!Accept(jobs[j].audio) \/ UNCHANGED formVars
    BY <1>6 DEF TranscriptionEnds, OnTranscriptionResult, TranscriptionFails
  <2>2. /\ TranscriberInv' /\ Transcriber!Started' \subseteq Transcriber!Started
        /\ transcriptionMode' = transcriptionMode
    BY <2>1, EndKeeps
  <2>3. jobs[j].audio \in Audio \union {NoAudio}
    BY DEF TranscriberInv, Transcriber!TranscriptionTypeOK
  <2>4. FormTypes'
    BY <2>1, <2>3, FormStepTypes
  <2>5. mode' = mode
    BY <2>1 DEF Form!Accept, formVars
  <2>. QED
    BY <2>1, <2>2, <2>4, <2>5, <1>a, <1>b, <1>d, <1>e
<1>7. ASSUME NEW m \in {"CLOUD", "ON_DEVICE"}, OnAutomationModeChanged(m)
      PROVE  AppInv' /\ StartedRight
  <2>1. /\ UNCHANGED recordingVars /\ Form!SwitchMode(m)
        /\ transcriptionMode' = TranscriptionModeFor(m) /\ UNCHANGED <<transcription, jobs>>
    BY <1>7 DEF OnAutomationModeChanged, Transcriber!SetTranscriptionMode
  <2>2. transcriptionMode' \in {"CLOUD", "ON_DEVICE"}
    BY <2>1 DEF TranscriptionModeFor
  <2>3. TranscriberInv' /\ Transcriber!Started' = Transcriber!Started
    BY <2>1, <2>2, TranscriberUntouched
  <2>4. FormTypes'
    BY <2>1, FormStepTypes
  <2>5. ModeFollows'
    BY <2>1 DEF ModeFollows, TranscriptionModeFor, Form!SwitchMode
  <2>. QED
    BY <2>1, <2>3, <2>4, <2>5, <1>a, <1>b, <1>d
<1>8. CASE MappingEnds \/ Remap
  <2>1. /\ UNCHANGED <<recordingVars, transcriptionVars>>
        /\ Form!Complete \/ Form!Fail \/ Form!Remap
    BY <1>8 DEF MappingEnds, Remap
  <2>2. FormTypes'
    BY <2>1, FormStepTypes
  <2>3. mode' = mode
    BY <2>1 DEF Form!Complete, Form!Fail, Form!Remap
  <2>. QED
    BY <2>1, <2>2, <2>3, <1>a, <1>b, <1>c, <1>d, <1>e
<1>9. CASE UNCHANGED vars
  <2>1. UNCHANGED <<recordingVars, transcriptionVars, formVars>>
    BY <1>9 DEF vars
  <2>2. FormTypes' /\ mode' = mode
    BY <2>1 DEF FormTypes, formVars
  <2>. QED
    BY <2>1, <2>2, <1>a, <1>b, <1>c, <1>d, <1>e
<1>. QED
  BY <1>1, <1>2, <1>3, <1>4, <1>5, <1>6, <1>7, <1>8, <1>9 DEF Next

(* Every reachable state of the app satisfies the invariant.               *)
THEOREM AppInvariance == Spec => []AppInv
<1>1. Init => AppInv
  BY AppInitial
<1>2. AppInv /\ [Next]_vars => AppInv'
  BY AppStep
<1>. QED
  BY <1>1, <1>2, PTL DEF Spec

(* The wired components keep their types.                                  *)
THEOREM AppTypeCorrect == Spec => []TypeOK
<1>1. AppInv => TypeOK
  BY DEF AppInv
<1>. QED
  BY <1>1, AppInvariance, PTL

(* The transcription spinner stands for a transcription that is running,   *)
(* however many overlap.                                                   *)
THEOREM SpinnerMeansRunning == Spec => []SpinnerIsReal
<1>1. AppInv => SpinnerIsReal
  BY DEF AppInv
<1>. QED
  BY <1>1, AppInvariance, PTL

(* Spinner and error message are never both set.                           *)
THEOREM SpinnerExcludesError == Spec => []SpinnerOrError
<1>1. AppInv => SpinnerOrError
  BY DEF AppInv
<1>. QED
  BY <1>1, AppInvariance, PTL

(* A transcription is started where the form's mode says, also one that    *)
(* was queued before the mode changed.                                     *)
THEOREM StartsWhereModeSays == Spec => StartsFollowMode
<1>1. AppInv /\ [Next]_vars => [StartedRight]_vars
  BY AppStep
<1>. QED
  BY <1>1, AppInvariance, PTL DEF Spec, StartsFollowMode, StartedRight

-----------------------------------------------------------------------------
(* One tap at a time: TapInv is kept.                                      *)

OneTapAtATime == \A k, l \in Tasks : k = l

LEMMA TapInitial == Init => TapInv
BY DEF Init, Recorder!RecordingInit, Recorder!NoTask, TapInv, PhaseMeans, Quiet

(* The slot of the tap is all there is.                                    *)
LEMMA TapByItself ==
  ASSUME OneTapAtATime, NEW k \in Tasks, PhaseMeans(tasks[k])',
         tasks'[k].phase = "idle" => Quiet'
  PROVE  TapInv'
BY DEF OneTapAtATime, TapInv

(* A step that leaves the recording alone.                                 *)
LEMMA TapUntouched ==
  ASSUME TapInv, UNCHANGED <<tasks, recorder, capturing, takes, file>>,
         recording'.isRecording = recording.isRecording
  PROVE  TapInv'
BY DEF TapInv, PhaseMeans, Quiet, Capturing

LEMMA UserStepTap ==
  ASSUME OneTapAtATime, Recorder!RecordingTypeOK, TapInv, Recorder!RecordingUserStep
  PROVE  TapInv'
<1>1. CASE \E k \in Tasks : Recorder!ToggleRecording(k)
  <2>1. PICK k \in Tasks : Recorder!ToggleRecording(k)
    BY <1>1
  <2>2. /\ tasks[k].phase = "idle"
        /\ UNCHANGED <<recording, recorder, capturing, takes, file>>
        /\ tasks'[k].phase = IF recording.isRecording THEN "stop" ELSE "start"
    BY <2>1 DEF Recorder!ToggleRecording, Recorder!RecordingTypeOK
  <2>3. Quiet
    BY <2>2 DEF TapInv, OneTapAtATime
  <2>4. PhaseMeans(tasks[k])'
    BY <2>2, <2>3 DEF PhaseMeans, Quiet, Capturing
  <2>. QED
    BY <2>2, <2>4, TapByItself
<1>2. CASE ~\E k \in Tasks : Recorder!ToggleRecording(k)
  <2>1. /\ UNCHANGED <<tasks, recorder, capturing, takes, file>>
        /\ recording'.isRecording = recording.isRecording
    BY <1>2 DEF Recorder!RecordingUserStep, Recorder!PermissionGranted,
                Recorder!PermissionDenied, Recorder!StartFileSelection, Recorder!FileSelected,
                Recorder!FilePickerError, Recorder!ClearUploadedFile, Recorder!RecordingTypeOK
  <2>. QED
    BY <2>1, TapUntouched
<1>. QED
  BY <1>1, <1>2

LEMMA TaskStepTap ==
  ASSUME OneTapAtATime, Recorder!RecordingTypeOK, TapInv, NEW k \in Tasks,
         Recorder!TaskStep(k) \/ Recorder!NotifyFinished(k)
  PROVE  TapInv'
<1>1. /\ PhaseMeans(tasks[k])
      /\ recording.isRecording \in BOOLEAN /\ takes \in Nat
      /\ tasks \in [Tasks -> [phase : {"idle", "start", "assign", "started", "stop",
                                       "stopping", "clear", "stopped", "notify"},
                              take : 0 .. MaxTakes]]
      /\ capturing \subseteq 1 .. MaxTakes
  BY AppConstants DEF TapInv, Recorder!RecordingTypeOK
<1>. SUFFICES PhaseMeans(tasks[k])' /\ (tasks'[k].phase = "idle" => Quiet')
  BY TapByItself
<1>2. CASE Recorder!NativeStart(k)
  <2>1. /\ tasks[k].phase = "start" /\ takes' = takes + 1 /\ capturing' = capturing \union {takes'}
        /\ tasks'[k] = [phase |-> "assign", take |-> takes'] /\ recording' = recording
    BY <1>1, <1>2 DEF Recorder!NativeStart
  <2>2. ~recording.isRecording /\ capturing = {}
    BY <1>1, <2>1 DEF PhaseMeans
  <2>3. takes' > 0 /\ capturing' = {takes'}
    BY <1>1, <2>1, <2>2
  <2>. QED
    BY <2>1, <2>2, <2>3 DEF PhaseMeans, Capturing
<1>3. CASE Recorder!NativeStartFails(k)
  <2>1. /\ tasks[k].phase = "start" /\ tasks'[k].phase = "idle" /\ capturing' = capturing
        /\ recording'.isRecording = recording.isRecording
    BY <1>1, <1>3 DEF Recorder!NativeStartFails, Recorder!NoTask, Recorder!RecordingTypeOK
  <2>. QED
    BY <1>1, <2>1 DEF PhaseMeans, Quiet
<1>4. CASE Recorder!AssignRecorder(k)
  <2>1. /\ tasks[k].phase = "assign" /\ tasks'[k].phase = "started"
        /\ recorder' = tasks[k].take /\ UNCHANGED <<recording, capturing, takes, file>>
    BY <1>1, <1>4 DEF Recorder!AssignRecorder
  <2>. QED
    BY <1>1, <2>1 DEF PhaseMeans, Capturing
<1>5. CASE Recorder!ShowStarted(k)
  <2>1. /\ tasks[k].phase = "started" /\ tasks'[k].phase = "idle"
        /\ recording'.isRecording = TRUE /\ UNCHANGED <<recorder, capturing, takes, file>>
    BY <1>1, <1>5 DEF Recorder!ShowStarted, Recorder!NoTask, Recorder!RecordingTypeOK
  <2>. QED
    BY <1>1, <2>1 DEF PhaseMeans, Capturing, Quiet
<1>6. CASE Recorder!ReadRecorder(k)
  <2>1. /\ tasks[k].phase = "stop"
        /\ tasks'[k] = [phase |-> IF recorder = 0 THEN "clear" ELSE "stopping", take |-> recorder]
        /\ UNCHANGED <<recording, recorder, capturing, takes, file>>
    BY <1>1, <1>6 DEF Recorder!ReadRecorder
  <2>2. recording.isRecording /\ Capturing /\ recorder = takes
    BY <1>1, <2>1 DEF PhaseMeans
  <2>3. tasks'[k].phase = "stopping" /\ tasks'[k].take = takes
    BY <1>1, <2>1, <2>2 DEF Capturing
  <2>. QED
    BY <2>1, <2>2, <2>3 DEF PhaseMeans, Capturing
<1>7. CASE Recorder!NativeStop(k)
  <2>1. /\ tasks[k].phase = "stopping" /\ tasks'[k].phase = "clear"
        /\ capturing' = capturing \ {tasks[k].take}
        /\ file' = IF capturing' = {} THEN tasks[k].take ELSE 0
        /\ UNCHANGED <<recording, recorder, takes>>
    BY <1>1, <1>7 DEF Recorder!NativeStop
  <2>2. recording.isRecording /\ capturing = {takes} /\ tasks[k].take = takes
    BY <1>1, <2>1 DEF PhaseMeans, Capturing
  <2>3. capturing' = {} /\ file' = takes
    BY <2>1, <2>2
  <2>. QED
    BY <2>1, <2>2, <2>3 DEF PhaseMeans
<1>8. CASE Recorder!NativeStopThrows(k)
  <2>1. /\ tasks[k].phase = "stopping" /\ tasks'[k].phase = "idle"
        /\ capturing' = capturing \ {tasks[k].take} /\ recording'.isRecording = FALSE
    BY <1>1, <1>8 DEF Recorder!NativeStopThrows, Recorder!NoTask, Recorder!RecordingTypeOK
  <2>2. capturing = {takes} /\ tasks[k].take = takes
    BY <1>1, <2>1 DEF PhaseMeans, Capturing
  <2>. QED
    BY <2>1, <2>2 DEF PhaseMeans, Quiet
<1>9. CASE Recorder!ClearRecorder(k)
  <2>1. /\ tasks[k].phase = "clear" /\ tasks'[k].phase = "stopped"
        /\ UNCHANGED <<recording, capturing, takes, file>>
    BY <1>1, <1>9 DEF Recorder!ClearRecorder
  <2>. QED
    BY <1>1, <2>1 DEF PhaseMeans
<1>10. CASE Recorder!ShowStopped(k)
  <2>1. /\ tasks[k].phase = "stopped" /\ tasks'[k].phase = "notify"
        /\ recording'.isRecording = FALSE /\ UNCHANGED <<capturing, takes, file>>
    BY <1>1, <1>10 DEF Recorder!ShowStopped, Recorder!RecordingTypeOK
  <2>. QED
    BY <1>1, <2>1 DEF PhaseMeans
<1>11. CASE Recorder!NotifyFinished(k)
  <2>1. /\ tasks[k].phase = "notify" /\ tasks'[k].phase = "idle"
        /\ UNCHANGED <<recording, recorder, capturing, takes, file>>
    BY <1>1, <1>11 DEF Recorder!NotifyFinished, Recorder!NoTask
  <2>. QED
    BY <1>1, <2>1 DEF PhaseMeans, Quiet
<1>. QED
  BY <1>2, <1>3, <1>4, <1>5, <1>6, <1>7, <1>8, <1>9, <1>10, <1>11 DEF Recorder!TaskStep

LEMMA TapStep == OneTapAtATime /\ AppInv /\ TapInv /\ [Next]_vars => TapInv'
<1>. SUFFICES ASSUME OneTapAtATime, AppInv, TapInv, [Next]_vars PROVE TapInv'
  OBVIOUS
<1>1. Recorder!RecordingTypeOK
  BY AppInvParts
<1>2. CASE RecorderStep
  BY <1>1, <1>2, UserStepTap, TaskStepTap DEF RecorderStep
<1>3. CASE \E k \in Tasks : OnRecordingFinished(k)
  BY <1>1, <1>3, TaskStepTap DEF OnRecordingFinished
<1>4. CASE UNCHANGED recordingVars
  BY <1>4, TapUntouched DEF recordingVars
<1>5. \/ RecorderStep
      \/ \E k \in Tasks : OnRecordingFinished(k)
      \/ UNCHANGED recordingVars
  BY DEF Next, OnFileConfirmed, Recorder!ConfirmUploadedFile, Recorder!recordingVars,
         recordingVars, StartQueued, ReadFile, TranscriptionEnds, OnTranscriptionResult,
         TranscriptionFails, OnAutomationModeChanged, MappingEnds, Remap, vars
<1>. QED
  BY <1>2, <1>3, <1>4, <1>5

LEMMA TapInvariance ==
  ASSUME OneTapAtATime
  PROVE  Spec => [](AppInv /\ TapInv)
<1>1. Init => AppInv /\ TapInv
  BY AppInitial, TapInitial
<1>2. (AppInv /\ TapInv) /\ [Next]_vars => (AppInv /\ TapInv)'
  BY AppStep, TapStep
<1>. QED
  BY <1>1, <1>2, PTL DEF Spec

(* With one tap at a time the microphone is off whenever the button says   *)
(* so and no task is running, after failing starts and stops too.          *)
THEOREM MicrophoneOffWhenStopped ==
  ASSUME OneTapAtATime
  PROVE  Spec => []StopEndsRecording
<1>1. TapInv => StopEndsRecording
  BY DEF TapInv, StopEndsRecording, Quiet, Recorder!Busy
<1>. QED
  BY <1>1, TapInvariance, PTL

(* With one tap at a time the file that is announced holds the latest      *)
(* take, complete.                                                         *)
THEOREM AnnouncedComplete ==
  ASSUME OneTapAtATime
  PROVE  Spec => []AnnouncedIsComplete
<1>1. TapInv => AnnouncedIsComplete
  BY DEF TapInv, PhaseMeans, AnnouncedIsComplete
<1>. QED
  BY <1>1, TapInvariance, PTL
=============================================================================
