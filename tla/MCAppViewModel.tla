--------------------------- MODULE MCAppViewModel ---------------------------
(* AppViewModel for TLC.                                                   *)
EXTENDS AppViewModel

CONSTANTS u1, tap1, tap2, job1, job2

OneUpload == {u1}
NoUploads == {}
OneTap == {tap1}
TwoTaps == {tap1, tap2}
OneJob == {job1}
TwoJobs == {job1, job2}
=============================================================================
