--------------------------- MODULE MappingService ---------------------------
(***************************************************************************)
(* What the form promises the rest of the app about the transcripts it is  *)
(* offered.  They are mapped one at a time; a transcript offered during a  *)
(* mapping is refused and leaves no trace; every accepted transcript ends  *)
(* either shown or failed; the accepted transcript is mapped again when    *)
(* the mode changes.  FormViewModel implements this (FormViewModel!Mapping *)
(* and FormViewModel_proofs), and AppViewModel uses it as its form.        *)
(***************************************************************************)
CONSTANTS Transcripts, NoTranscript, SupportsOnDevice

VARIABLES
  status,     \* "idle", "busy" or "failed"
  accepted,   \* the last transcript accepted
  shown,      \* the transcript whose mapping the form shows
  mode        \* "CLOUD" or "ON_DEVICE"

serviceVars == <<status, accepted, shown, mode>>

ServiceInit ==
  /\ status = "idle"
  /\ accepted = NoTranscript
  /\ shown = NoTranscript
  /\ mode = "CLOUD"

(* applyTranscript(t)                                                      *)
Offer(t) ==
  /\ IF status = "busy"
     THEN UNCHANGED <<status, accepted>>
     ELSE status' = "busy" /\ accepted' = t
  /\ shown' = shown

OfferAgain == IF accepted = NoTranscript THEN UNCHANGED <<status, accepted, shown>>
                                         ELSE Offer(accepted)

Accept(t) == Offer(t) /\ mode' = mode

Complete ==
  /\ status = "busy"
  /\ status' = "idle"
  /\ shown' = accepted
  /\ UNCHANGED <<accepted, mode>>

Fail ==
  /\ status = "busy"
  /\ status' = "failed"
  /\ UNCHANGED <<accepted, shown, mode>>

SwitchMode(m) ==
  /\ mode # m
  /\ m = "ON_DEVICE" => SupportsOnDevice
  /\ mode' = m
  /\ OfferAgain

(* The orthography switch, on screen in on-device mode only.               *)
Remap ==
  /\ mode = "ON_DEVICE"
  /\ OfferAgain
  /\ mode' = mode

ServiceNext ==
  \/ \E t \in Transcripts : Accept(t)
  \/ Complete
  \/ Fail
  \/ \E m \in {"CLOUD", "ON_DEVICE"} : SwitchMode(m)
  \/ Remap

ServiceSpec == ServiceInit /\ [][ServiceNext]_serviceVars
=============================================================================
