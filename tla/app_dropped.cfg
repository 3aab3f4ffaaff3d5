SPECIFICATION Spec
CONSTANTS
  u1 = u1
  tap1 = tap1
  tap2 = tap2
  job1 = job1
  job2 = job2
  Tasks <- OneTap
  MaxTakes = 2
  Uploads <- NoUploads
  NoUpload = NoUpload
  TranscriptionJobs <- OneJob
  SupportsOnDeviceTranscription = TRUE
  SupportsOnDevice = TRUE
  RecordingFile = RecordingFile
  NoAudio = NoAudio
INVARIANT
  ShownIsMapped
