-------------------------- MODULE MCFormViewModel ---------------------------
(* FormViewModel for TLC.  The form has a required and an optional question *)
(* (name, learning); the third question of DefaultFormDefinitionProvider    *)
(* behaves like the first.                                                  *)
EXTENDS FormViewModel

CONSTANTS name, learning, t1, t2, slot1, slot2

TwoQuestions == {name, learning}
OneQuestion == {name}
RequiredName == {name}
OneTranscript == {t1}
TwoTranscripts == {t1, t2}
OneSlot == {slot1}
TwoSlots == {slot1, slot2}
=============================================================================
