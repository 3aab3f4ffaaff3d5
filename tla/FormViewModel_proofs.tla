------------------------ MODULE FormViewModel_proofs ------------------------
(***************************************************************************)
(* Proofs about FormViewModel, for any set of questions, transcripts and   *)
(* slots.  The inductive invariant IInv carries the mapping lock: the flag *)
(* isMappingLoading, the coroutine in flight and lastTranscript agree.     *)
(***************************************************************************)
EXTENDS FormViewModel, TLAPS

(* A coroutine in flight has a transcript to map.                          *)
JobTranscripts == \A j \in InFlight : mappings[j].transcript \in Transcripts

(* A mapping error is the error of some accepted transcript.               *)
ErrorHasTranscript == ui.mappingError => lastTranscript \in Transcripts

IInv ==
  /\ TypeOK
  /\ SingleFlight
  /\ AcceptedIsMapped
  /\ JobTranscripts
  /\ ErrorHasTranscript

(* What also survives reset(), which forgets lastTranscript and clears the *)
(* lock while coroutines are in flight.                                    *)
Kept == TypeOK /\ JobTranscripts

-----------------------------------------------------------------------------
(* The initial state (constructor) satisfies the invariant.                *)
LEMMA InitIInv == Init => IInv
<1> SUFFICES ASSUME Init PROVE IInv
  OBVIOUS
<1> USE FormConstants
<1>1. TypeOK
  BY DEF Init, TypeOK, UiStates, InitialUi, Modes, Answers, Jobs, Idle
<1>2. InFlight = {}
  BY DEF Init, InFlight, Idle
<1>3. SingleFlight /\ AcceptedIsMapped /\ JobTranscripts /\ ErrorHasTranscript
  BY <1>2 DEF Init, SingleFlight, AcceptedIsMapped, JobTranscripts, ErrorHasTranscript, InitialUi
<1> QED
  BY <1>1, <1>3 DEF IInv

(* A refreshed or started UI state is a UI state.                          *)
LEMMA UiTypes ==
  ASSUME TypeOK, NEW u \in UiStates
  PROVE  /\ Refreshed(u) \in UiStates
         /\ MappingStarted(u) \in UiStates
  BY FormConstants DEF TypeOK, UiStates, Refreshed, MappingStarted

(* applyTranscript keeps the lock and the transcript together, whatever    *)
(* the rest of the UI state it is called with.                             *)
LEMMA ApplyKeeps ==
  ASSUME IInv,
         NEW u \in UiStates, u.isMappingLoading = ui.isMappingLoading,
         u.mappingError => lastTranscript \in Transcripts,
         NEW t \in Transcripts, Apply(u, t)
  PROVE  /\ ui' \in UiStates
         /\ lastTranscript' \in Transcripts \union {NoTranscript}
         /\ mappings' \in [Slots -> Jobs]
         /\ SingleFlight' /\ AcceptedIsMapped' /\ JobTranscripts' /\ ErrorHasTranscript'
<1>1. CASE Refuses(u)
  <2>1. ui' = u /\ UNCHANGED <<lastTranscript, mappings>>
    BY <1>1 DEF Apply
  <2>2. InFlight' = InFlight
    BY <2>1 DEF InFlight
  <2> QED
    BY <2>1, <2>2 DEF IInv, TypeOK, SingleFlight, AcceptedIsMapped, JobTranscripts, ErrorHasTranscript
<1>2. CASE ~Refuses(u)
  <2> DEFINE v == IF u.automationMode = "ON_DEVICE" THEN Refreshed(u) ELSE u
  <2>1. lastTranscript' = t /\ ui' = MappingStarted(v)
    BY <1>2 DEF Apply
  <2>2. PICK j \in Slots \ InFlight :
          mappings' = [mappings EXCEPT ![j] =
            [phase |-> "dispatched", transcript |-> t,
             mode |-> u.automationMode, repo |-> "CLOUD"]]
    BY <1>2 DEF Apply
  <2>3. InFlight = {}
    BY <1>2 DEF IInv, SingleFlight, Refuses
  <2>4. ui' \in UiStates
    <3>1. v \in UiStates
      BY UiTypes DEF IInv
    <3> QED
      BY <2>1, <3>1, UiTypes DEF IInv
  <2>5. ui'.isMappingLoading /\ ~ui'.mappingError
    <3>1. v \in UiStates
      BY UiTypes DEF IInv
    <3> QED
      BY <2>1, <3>1 DEF MappingStarted, UiStates
  <2>6. mappings' \in [Slots -> Jobs]
    BY <2>2 DEF IInv, TypeOK, Jobs, UiStates, Modes
  <2>7. InFlight' = {j} /\ mappings'[j].transcript = t
    BY <2>2, <2>3 DEF InFlight, IInv, TypeOK
  <2> QED
    BY <2>1, <2>4, <2>5, <2>6, <2>7
    DEF SingleFlight, AcceptedIsMapped, JobTranscripts, ErrorHasTranscript
<1> QED
  BY <1>1, <1>2

(* The same for the re-application of lastTranscript.                      *)
LEMMA ReapplyKeeps ==
  ASSUME IInv,
         NEW u \in UiStates, u.isMappingLoading = ui.isMappingLoading,
         ~u.mappingError, Reapply(u)
  PROVE  /\ ui' \in UiStates
         /\ lastTranscript' \in Transcripts \union {NoTranscript}
         /\ mappings' \in [Slots -> Jobs]
         /\ SingleFlight' /\ AcceptedIsMapped' /\ JobTranscripts' /\ ErrorHasTranscript'
<1>1. CASE lastTranscript = NoTranscript
  <2>1. ui' = u /\ UNCHANGED <<lastTranscript, mappings>>
    BY <1>1 DEF Reapply
  <2>2. InFlight' = InFlight
    BY <2>1 DEF InFlight
  <2> QED
    BY <2>1, <2>2 DEF IInv, TypeOK, SingleFlight, AcceptedIsMapped, JobTranscripts, ErrorHasTranscript
<1>2. CASE lastTranscript # NoTranscript
  <2>1. lastTranscript \in Transcripts /\ Apply(u, lastTranscript)
    BY <1>2 DEF Reapply, IInv, TypeOK
  <2> QED
    BY <2>1, ApplyKeeps
<1> QED
  BY <1>1, <1>2

-----------------------------------------------------------------------------
(* Steps that leave the mapping alone: the lock, the error, the transcript *)
(* and the coroutines are as before.                                       *)
LEMMA LockUntouched ==
  ASSUME IInv,
         ui'.isMappingLoading = ui.isMappingLoading,
         ui'.mappingError = ui.mappingError,
         UNCHANGED <<lastTranscript, mappings>>
  PROVE  SingleFlight' /\ AcceptedIsMapped' /\ JobTranscripts' /\ ErrorHasTranscript'
<1>1. InFlight' = InFlight
  BY DEF InFlight
<1> QED
  BY <1>1 DEF IInv, SingleFlight, AcceptedIsMapped, JobTranscripts, ErrorHasTranscript

(* The end of the coroutine in slot j releases the lock.                   *)
LEMMA LockReleased ==
  ASSUME IInv, NEW j \in Slots, EndMapping(j),
         ~ui'.isMappingLoading
  PROVE  /\ mappings' \in [Slots -> Jobs]
         /\ mappings[j].transcript \in Transcripts
         /\ SingleFlight' /\ AcceptedIsMapped' /\ JobTranscripts' /\ ErrorHasTranscript'
<1>1. j \in InFlight /\ InFlight = {j}
  BY DEF EndMapping, InFlight, IInv, SingleFlight
<1>2. mappings[j].transcript \in Transcripts /\ lastTranscript' \in Transcripts
  BY <1>1 DEF IInv, JobTranscripts, AcceptedIsMapped, EndMapping
<1>3. mappings' \in [Slots -> Jobs]
  BY DEF EndMapping, IInv, TypeOK, Jobs, Idle, Modes
<1>4. InFlight' = {}
  BY <1>1 DEF InFlight, EndMapping, IInv, TypeOK, Idle
<1> QED
  BY <1>2, <1>3, <1>4 DEF SingleFlight, AcceptedIsMapped, JobTranscripts, ErrorHasTranscript

(* A step of the engine keeps its types.                                   *)
LEMMA EngineTypes ==
  ASSUME TypeOK,
         \/ Engine!EnterEngine
         \/ Engine!LeaveEngine
         \/ Engine!EngineStep
         \/ UNCHANGED engineVars
  PROVE  modelLoaded' \in BOOLEAN /\ modelLoading' \in BOOLEAN /\ engineCalls' \in Nat
<1> USE DEF TypeOK, engineVars, Engine!EnterEngine, Engine!LeaveEngine, Engine!EngineStep,
            Engine!BeginLoad, Engine!LoadSucceeds, Engine!EndLoad, Engine!DropModel
<1>1. modelLoaded' \in BOOLEAN /\ modelLoading' \in BOOLEAN
  BY Zenon
<1>2. engineCalls' \in Nat
  BY SMT
<1> QED
  BY <1>1, <1>2

-----------------------------------------------------------------------------
(* Every step of the form keeps the invariant.                             *)
LEMMA NextIInv == IInv /\ [Next]_vars => IInv'
<1> SUFFICES ASSUME IInv, [Next]_vars PROVE IInv'
  OBVIOUS
<1> USE FormConstants
<1>1. ASSUME NEW t \in Transcripts, ApplyTranscript(t) PROVE IInv'
  <2>1. Apply(ui, t) /\ UNCHANGED <<repoOrtho, llmTests, warmups, engineVars>>
    BY <1>1 DEF ApplyTranscript
  <2>2. ui \in UiStates /\ (ui.mappingError => lastTranscript \in Transcripts)
    BY DEF IInv, TypeOK, ErrorHasTranscript
  <2> QED
    BY <2>1, <2>2, ApplyKeeps DEF IInv, TypeOK, engineVars
<1>2. ASSUME NEW mode \in Modes, SetAutomationMode(mode) PROVE IInv'
  <2> DEFINE onDevice == mode = "ON_DEVICE"
             warm == onDevice /\ WarmupNeeded
             refreshed == IF onDevice THEN Refreshed(ui) ELSE ui
             warming == IF warm THEN [refreshed EXCEPT !.modelLoading = TRUE] ELSE refreshed
             u == [warming EXCEPT !.automationMode = mode,
                                  !.mappingError = FALSE,
                                  !.mappingSourceError = FALSE,
                                  !.isLlmTestRunning = FALSE,
                                  !.llmTestSuccess = "none"]
  <2>1. Reapply(u) /\ UNCHANGED llmTests /\ repoOrtho' = SyncedOrtho(mode)
    BY <1>2 DEF SetAutomationMode
  <2>2. warmups' \in Nat /\ (Engine!EnterEngine \/ UNCHANGED engineVars)
    BY <1>2 DEF SetAutomationMode, IInv, TypeOK
  <2>3. u \in UiStates /\ u.isMappingLoading = ui.isMappingLoading /\ ~u.mappingError
    <3>0. ui \in UiStates /\ Refreshed(ui) \in UiStates
      BY UiTypes DEF IInv, TypeOK
    <3>1. refreshed \in UiStates /\ refreshed.isMappingLoading = ui.isMappingLoading
      BY <3>0 DEF UiStates, Refreshed
    <3> HIDE DEF refreshed
    <3>2. warming \in UiStates /\ warming.isMappingLoading = ui.isMappingLoading
      BY <3>1 DEF UiStates
    <3> HIDE DEF warming
    <3> QED
      BY <3>2 DEF UiStates
  <2>4. repoOrtho' \in BOOLEAN
    BY <2>1 DEF SyncedOrtho, IInv, TypeOK, UiStates
  <2> HIDE DEF u
  <2> QED
    BY <2>1, <2>2, <2>3, <2>4, ReapplyKeeps, EngineTypes DEF IInv, TypeOK
<1>3. ASSUME NEW q \in Questions, NEW value \in {Blank, UserText}, UpdateAnswer(q, value) PROVE IInv'
  <2>1. ui' \in UiStates /\ ui'.isMappingLoading = ui.isMappingLoading /\ ui'.mappingError = ui.mappingError
    BY <1>3 DEF UpdateAnswer, IInv, TypeOK, UiStates, Answers
  <2> QED
    BY <1>3, <2>1, LockUntouched DEF UpdateAnswer, IInv, TypeOK, engineVars
<1>4. ASSUME SubmitForm PROVE IInv'
  <2>1. ui' \in UiStates /\ ui'.isMappingLoading = ui.isMappingLoading /\ ui'.mappingError = ui.mappingError
    BY <1>4 DEF SubmitForm, IInv, TypeOK, UiStates
  <2> QED
    BY <1>4, <2>1, LockUntouched DEF SubmitForm, IInv, TypeOK, engineVars
<1>5. ASSUME NEW enabled \in BOOLEAN, OrthographySwitchVisible, SetOrthography(enabled) PROVE IInv'
  <2> DEFINE u == [ui EXCEPT !.ortho = enabled, !.mappingError = FALSE, !.mappingSourceError = FALSE]
  <2>1. Reapply(u) /\ UNCHANGED <<llmTests, warmups, engineVars>> /\ repoOrtho' = enabled
    BY <1>5 DEF SetOrthography, OrthographySwitchVisible
  <2>2. u \in UiStates /\ u.isMappingLoading = ui.isMappingLoading /\ ~u.mappingError
    BY DEF IInv, TypeOK, UiStates
  <2> HIDE DEF u
  <2> QED
    BY <2>1, <2>2, ReapplyKeeps DEF IInv, TypeOK, engineVars
<1>6. ASSUME RunLlmTest PROVE IInv'
  <2>1. ui' \in UiStates /\ ui'.isMappingLoading = ui.isMappingLoading /\ ui'.mappingError = ui.mappingError
    BY <1>6 DEF RunLlmTest, IInv, TypeOK, UiStates
  <2>2. llmTests' \in Nat /\ (Engine!EnterEngine \/ UNCHANGED engineVars)
    BY <1>6 DEF RunLlmTest, IInv, TypeOK
  <2> QED
    BY <1>6, <2>1, <2>2, LockUntouched, EngineTypes DEF RunLlmTest, IInv, TypeOK
<1>7. ASSUME NEW j \in Slots, PickRepository(j) PROVE IInv'
  <2> DEFINE repo == IF ui.automationMode = "ON_DEVICE" /\ SupportsOnDevice
                     THEN "ON_DEVICE" ELSE "CLOUD"
  <2>1. mappings' = [mappings EXCEPT ![j].phase = "running", ![j].repo = repo]
    BY <1>7 DEF PickRepository
  <2>2. mappings' \in [Slots -> Jobs]
    <3>1. mappings \in [Slots -> Jobs] /\ mappings[j] \in Jobs
      BY DEF IInv, TypeOK
    <3>2. [mappings[j] EXCEPT !.phase = "running", !.repo = repo] \in Jobs
      BY <3>1 DEF Jobs, Modes
    <3>3. mappings' = [mappings EXCEPT ![j] = [mappings[j] EXCEPT !.phase = "running", !.repo = repo]]
      BY <2>1, <3>1 DEF Jobs
    <3> HIDE DEF repo
    <3> QED
      BY <3>1, <3>2, <3>3
  <2>3. InFlight' = InFlight /\ \A i \in Slots : mappings'[i].transcript = mappings[i].transcript
    BY <1>7, <2>1 DEF InFlight, IInv, TypeOK, PickRepository, Jobs
  <2>4. UNCHANGED <<ui, lastTranscript, repoOrtho, llmTests, warmups>>
        /\ (Engine!EnterEngine \/ UNCHANGED engineVars)
    BY <1>7 DEF PickRepository
  <2>5. SingleFlight' /\ AcceptedIsMapped' /\ JobTranscripts' /\ ErrorHasTranscript'
    BY <2>3, <2>4 DEF IInv, SingleFlight, AcceptedIsMapped, JobTranscripts, ErrorHasTranscript, InFlight
  <2> QED
    BY <2>2, <2>4, <2>5, EngineTypes DEF IInv, TypeOK
<1>8. ASSUME NEW j \in Slots, NEW filled \in SUBSET Questions, NEW degraded \in BOOLEAN,
             MappingSucceeds(j, filled, degraded) PROVE IInv'
  <2>1. EndMapping(j) /\ ~ui'.isMappingLoading
    BY <1>8 DEF MappingSucceeds, IInv, TypeOK, UiStates
  <2>2. mappings[j].transcript \in Transcripts
    BY <2>1, LockReleased
  <2>3. Prefilled(ui.entries, filled, mappings[j].transcript) \in [Questions -> Answers]
    BY <2>2 DEF Prefilled, Answers, IInv, TypeOK, UiStates
  <2>4. ui' \in UiStates
    BY <1>8, <2>2, <2>3 DEF MappingSucceeds, IInv, TypeOK, UiStates
  <2>5. UNCHANGED <<lastTranscript, repoOrtho, llmTests, warmups>>
        /\ (Engine!LeaveEngine \/ UNCHANGED engineVars)
    BY <2>1 DEF EndMapping
  <2> QED
    BY <2>1, <2>4, <2>5, LockReleased, EngineTypes DEF IInv, TypeOK
<1>9. ASSUME NEW j \in Slots, MappingFails(j) PROVE IInv'
  <2>1. EndMapping(j) /\ ~ui'.isMappingLoading /\ ui' \in UiStates
    BY <1>9 DEF MappingFails, IInv, TypeOK, UiStates
  <2>2. UNCHANGED <<lastTranscript, repoOrtho, llmTests, warmups>>
        /\ (Engine!LeaveEngine \/ UNCHANGED engineVars)
    BY <2>1 DEF EndMapping
  <2> QED
    BY <2>1, <2>2, LockReleased, EngineTypes DEF IInv, TypeOK
<1>10. ASSUME NEW outcome \in {"ok", "failed"}, EndLlmTest(outcome) PROVE IInv'
  <2>1. ui' \in UiStates /\ ui'.isMappingLoading = ui.isMappingLoading /\ ui'.mappingError = ui.mappingError
    BY <1>10 DEF EndLlmTest, IInv, TypeOK, UiStates
  <2>2. llmTests' \in Nat /\ (Engine!LeaveEngine \/ UNCHANGED engineVars)
    BY <1>10 DEF EndLlmTest, IInv, TypeOK
  <2> QED
    BY <1>10, <2>1, <2>2, LockUntouched, EngineTypes DEF EndLlmTest, IInv, TypeOK
<1>11. ASSUME EndWarmup PROVE IInv'
  <2>1. ui' = Refreshed(ui) /\ warmups' \in Nat /\ Engine!LeaveEngine
        /\ UNCHANGED <<lastTranscript, repoOrtho, mappings, llmTests>>
    BY <1>11 DEF EndWarmup, IInv, TypeOK
  <2>2. ui'.isMappingLoading = ui.isMappingLoading /\ ui'.mappingError = ui.mappingError
    BY <2>1 DEF Refreshed, IInv, TypeOK, UiStates
  <2>3. ui' \in UiStates
    BY <2>1, UiTypes DEF IInv, TypeOK
  <2> QED
    BY <2>1, <2>2, <2>3, LockUntouched, EngineTypes DEF IInv, TypeOK
<1>12. ASSUME EngineStep PROVE IInv'
  <2>1. Engine!EngineStep /\ UNCHANGED <<ui, lastTranscript, repoOrtho, mappings, llmTests, warmups>>
    BY <1>12 DEF EngineStep
  <2> QED
    BY <2>1, LockUntouched, EngineTypes DEF IInv, TypeOK
<1>13. ASSUME UNCHANGED vars PROVE IInv'
  BY <1>13, LockUntouched DEF vars, engineVars, IInv, TypeOK
<1> QED
  BY <1>1, <1>2, <1>3, <1>4, <1>5, <1>6, <1>7, <1>8, <1>9, <1>10, <1>11, <1>12, <1>13
  DEF Next, UserStep, BackgroundStep, MappingEnds

(* IInv holds in every reachable state.                                    *)
LEMMA Invariance == Spec => []IInv
  BY InitIInv, NextIInv, PTL DEF Spec

(* The types of the form's state (FormViewModel).                          *)
THEOREM TypeCorrect == Spec => []TypeOK
  BY Invariance, PTL DEF IInv

(* The guard of applyTranscript (FormViewModel.kt:77) makes                *)
(* isMappingLoading a lock, for any number of coroutines that could be     *)
(* launched.                                                               *)
THEOREM MappingIsSingleFlight == Spec => []SingleFlight
  BY Invariance, PTL DEF IInv

(* The transcript in flight is always lastTranscript.                      *)
THEOREM MappedIsAccepted == Spec => []AcceptedIsMapped
  BY Invariance, PTL DEF IInv

-----------------------------------------------------------------------------
(* The form implements MappingService.                                     *)

(* applyTranscript is the service's Offer.                                 *)
LEMMA ApplyOffers ==
  ASSUME IInv,
         NEW u \in UiStates, u.isMappingLoading = ui.isMappingLoading,
         u.speakerBlocks = ui.speakerBlocks,
         NEW t \in Transcripts, Apply(u, t)
  PROVE  Mapping!Offer(t) /\ ui'.automationMode = u.automationMode
<1>1. CASE Refuses(u)
  <2>1. ui' = u /\ UNCHANGED lastTranscript /\ ui.isMappingLoading /\ ui'.isMappingLoading
    BY <1>1 DEF Apply, Refuses
  <2> QED
    BY <2>1 DEF Mapping!Offer
<1>2. CASE ~Refuses(u)
  <2> DEFINE v == IF u.automationMode = "ON_DEVICE" THEN Refreshed(u) ELSE u
  <2>1. lastTranscript' = t /\ ui' = MappingStarted(v) /\ ~ui.isMappingLoading
    BY <1>2 DEF Apply, Refuses, IInv, TypeOK, UiStates
  <2>2. v \in UiStates
    BY UiTypes DEF IInv
  <2>3. v.speakerBlocks = ui.speakerBlocks /\ v.automationMode = u.automationMode
    BY DEF Refreshed, UiStates
  <2> HIDE DEF v
  <2>4. /\ ui'.isMappingLoading
        /\ ui'.speakerBlocks = ui.speakerBlocks
        /\ ui'.automationMode = u.automationMode
    BY <2>1, <2>2, <2>3 DEF MappingStarted, UiStates
  <2> QED
    BY <2>1, <2>4 DEF Mapping!Offer
<1> QED
  BY <1>1, <1>2

(* lastTranscript?.let { applyTranscript(it) } is its OfferAgain.          *)
LEMMA ReapplyOffersAgain ==
  ASSUME IInv,
         NEW u \in UiStates, u.isMappingLoading = ui.isMappingLoading,
         u.speakerBlocks = ui.speakerBlocks,
         ~u.mappingError, Reapply(u)
  PROVE  Mapping!OfferAgain /\ ui'.automationMode = u.automationMode
<1>1. CASE lastTranscript = NoTranscript
  <2>1. ui' = u /\ UNCHANGED lastTranscript
    BY <1>1 DEF Reapply
  <2>2. ~ui.mappingError
    BY <1>1, FormConstants DEF IInv, ErrorHasTranscript
  <2> QED
    BY <1>1, <2>1, <2>2 DEF Mapping!OfferAgain
<1>2. CASE lastTranscript # NoTranscript
  <2>1. lastTranscript \in Transcripts /\ Apply(u, lastTranscript)
    BY <1>2 DEF Reapply, IInv, TypeOK
  <2>2. Mapping!Offer(lastTranscript) /\ ui'.automationMode = u.automationMode
    BY <2>1, ApplyOffers
  <2> QED
    BY <1>2, <2>2 DEF Mapping!OfferAgain
<1> QED
  BY <1>1, <1>2

(* What the service does not see.                                          *)
LEMMA ServiceUntouched ==
  ASSUME ui'.isMappingLoading = ui.isMappingLoading,
         ui'.mappingError = ui.mappingError,
         ui'.speakerBlocks = ui.speakerBlocks,
         ui'.automationMode = ui.automationMode,
         lastTranscript' = lastTranscript
  PROVE  UNCHANGED Mapping!serviceVars
  BY DEF Mapping!serviceVars

(* Every step of the form is a step of the service or invisible to it.     *)
LEMMA NextRefines == IInv /\ [Next]_vars => [Mapping!ServiceNext]_(Mapping!serviceVars)
<1> SUFFICES ASSUME IInv, [Next]_vars
             PROVE  Mapping!ServiceNext \/ UNCHANGED Mapping!serviceVars
  OBVIOUS
<1> USE FormConstants
<1>a. ui \in UiStates
  BY DEF IInv, TypeOK
<1>1. ASSUME NEW t \in Transcripts, ApplyTranscript(t) PROVE Mapping!ServiceNext
  <2>1. Mapping!Offer(t) /\ ui'.automationMode = ui.automationMode
    BY <1>1, <1>a, ApplyOffers DEF ApplyTranscript
  <2>2. Mapping!Accept(t)
    BY <2>1 DEF Mapping!Accept
  <2> QED
    BY <2>2 DEF Mapping!ServiceNext
<1>2. ASSUME NEW mode \in Modes, SetAutomationMode(mode) PROVE Mapping!ServiceNext
  <2> DEFINE onDevice == mode = "ON_DEVICE"
             warm == onDevice /\ WarmupNeeded
             refreshed == IF onDevice THEN Refreshed(ui) ELSE ui
             warming == IF warm THEN [refreshed EXCEPT !.modelLoading = TRUE] ELSE refreshed
             u == [warming EXCEPT !.automationMode = mode,
                                  !.mappingError = FALSE,
                                  !.mappingSourceError = FALSE,
                                  !.isLlmTestRunning = FALSE,
                                  !.llmTestSuccess = "none"]
  <2>1. /\ Reapply(u)
        /\ ui.automationMode # mode
        /\ mode = "ON_DEVICE" => SupportsOnDevice
    BY <1>2 DEF SetAutomationMode
  <2>2. /\ u \in UiStates
        /\ u.isMappingLoading = ui.isMappingLoading
        /\ u.speakerBlocks = ui.speakerBlocks
        /\ ~u.mappingError
        /\ u.automationMode = mode
    <3>0. Refreshed(ui) \in UiStates
      BY <1>a, UiTypes DEF IInv
    <3>1. /\ refreshed \in UiStates
          /\ refreshed.isMappingLoading = ui.isMappingLoading
          /\ refreshed.speakerBlocks = ui.speakerBlocks
      BY <1>a, <3>0 DEF UiStates, Refreshed
    <3> HIDE DEF refreshed
    <3>2. /\ warming \in UiStates
          /\ warming.isMappingLoading = ui.isMappingLoading
          /\ warming.speakerBlocks = ui.speakerBlocks
      BY <3>1 DEF UiStates
    <3> HIDE DEF warming
    <3> QED
      BY <3>2 DEF UiStates
  <2> HIDE DEF u
  <2>3. Mapping!OfferAgain /\ ui'.automationMode = mode
    BY <2>1, <2>2, ReapplyOffersAgain
  <2>4. Mapping!SwitchMode(mode)
    BY <2>1, <2>3 DEF Mapping!SwitchMode
  <2> QED
    BY <2>4 DEF Mapping!ServiceNext, Modes
<1>3. ASSUME NEW q \in Questions, NEW value \in {Blank, UserText}, UpdateAnswer(q, value)
      PROVE  UNCHANGED Mapping!serviceVars
  BY <1>3, <1>a, ServiceUntouched DEF UpdateAnswer, UiStates
<1>4. ASSUME SubmitForm PROVE UNCHANGED Mapping!serviceVars
  BY <1>4, <1>a, ServiceUntouched DEF SubmitForm, UiStates
<1>5. ASSUME NEW enabled \in BOOLEAN, OrthographySwitchVisible, SetOrthography(enabled)
      PROVE  Mapping!ServiceNext
  <2> DEFINE u == [ui EXCEPT !.ortho = enabled, !.mappingError = FALSE, !.mappingSourceError = FALSE]
  <2>1. Reapply(u) /\ ui.automationMode = "ON_DEVICE"
    BY <1>5 DEF SetOrthography, OrthographySwitchVisible
  <2>2. /\ u \in UiStates
        /\ u.isMappingLoading = ui.isMappingLoading
        /\ u.speakerBlocks = ui.speakerBlocks
        /\ ~u.mappingError
        /\ u.automationMode = ui.automationMode
    BY <1>a DEF UiStates
  <2> HIDE DEF u
  <2>3. Mapping!OfferAgain /\ ui'.automationMode = ui.automationMode
    BY <2>1, <2>2, ReapplyOffersAgain
  <2>4. Mapping!Remap
    BY <2>1, <2>3 DEF Mapping!Remap
  <2> QED
    BY <2>4 DEF Mapping!ServiceNext
<1>6. ASSUME RunLlmTest PROVE UNCHANGED Mapping!serviceVars
  BY <1>6, <1>a, ServiceUntouched DEF RunLlmTest, UiStates
<1>7. ASSUME NEW j \in Slots, PickRepository(j) PROVE UNCHANGED Mapping!serviceVars
  BY <1>7, ServiceUntouched DEF PickRepository
<1>8. ASSUME NEW j \in Slots, NEW filled \in SUBSET Questions, NEW degraded \in BOOLEAN,
             MappingSucceeds(j, filled, degraded)
      PROVE  Mapping!ServiceNext
  <2>1. j \in InFlight /\ UNCHANGED lastTranscript
    BY <1>8 DEF MappingSucceeds, EndMapping, InFlight
  <2>2. ui.isMappingLoading /\ mappings[j].transcript = lastTranscript
    BY <2>1 DEF IInv, SingleFlight, AcceptedIsMapped
  <2>3. /\ ~ui'.isMappingLoading
        /\ ~ui'.mappingError
        /\ ui'.speakerBlocks = mappings[j].transcript
        /\ ui'.automationMode = ui.automationMode
    BY <1>8, <1>a DEF MappingSucceeds, UiStates
  <2>4. Mapping!Complete
    BY <2>1, <2>2, <2>3 DEF Mapping!Complete
  <2> QED
    BY <2>4 DEF Mapping!ServiceNext
<1>9. ASSUME NEW j \in Slots, MappingFails(j) PROVE Mapping!ServiceNext
  <2>1. j \in InFlight /\ UNCHANGED lastTranscript
    BY <1>9 DEF MappingFails, EndMapping, InFlight
  <2>2. ui.isMappingLoading
    BY <2>1 DEF IInv, SingleFlight
  <2>3. /\ ~ui'.isMappingLoading
        /\ ui'.mappingError
        /\ ui'.speakerBlocks = ui.speakerBlocks
        /\ ui'.automationMode = ui.automationMode
    BY <1>9, <1>a DEF MappingFails, UiStates
  <2>4. Mapping!Fail
    BY <2>1, <2>2, <2>3 DEF Mapping!Fail
  <2> QED
    BY <2>4 DEF Mapping!ServiceNext
<1>10. ASSUME NEW outcome \in {"ok", "failed"}, EndLlmTest(outcome) PROVE UNCHANGED Mapping!serviceVars
  BY <1>10, <1>a, ServiceUntouched DEF EndLlmTest, UiStates
<1>11. ASSUME EndWarmup PROVE UNCHANGED Mapping!serviceVars
  BY <1>11, <1>a, ServiceUntouched DEF EndWarmup, Refreshed, UiStates
<1>12. ASSUME EngineStep PROVE UNCHANGED Mapping!serviceVars
  BY <1>12, ServiceUntouched DEF EngineStep
<1>13. ASSUME UNCHANGED vars PROVE UNCHANGED Mapping!serviceVars
  BY <1>13, ServiceUntouched DEF vars
<1> QED
  BY <1>1, <1>2, <1>3, <1>4, <1>5, <1>6, <1>7, <1>8, <1>9, <1>10, <1>11, <1>12, <1>13
  DEF Next, UserStep, BackgroundStep, MappingEnds

(* FormViewModel implements MappingService: transcripts are mapped one at  *)
(* a time and each ends shown or failed; AppViewModel relies on it.        *)
THEOREM FormImplementsService == Spec => ImplementsMappingService
<1>1. Init => Mapping!ServiceInit
  BY DEF Init, InitialUi, Mapping!ServiceInit
<1>2. IInv /\ [Next]_vars => [Mapping!ServiceNext]_(Mapping!serviceVars)
  BY NextRefines
<1> QED
  BY <1>1, <1>2, Invariance, PTL DEF Spec, ImplementsMappingService, Mapping!ServiceSpec

-----------------------------------------------------------------------------
(* With reset() at any time the lock is no lock, but types and transcripts *)
(* stay, however many mappings then overlap.                               *)

LEMMA KeptSimply ==
  ASSUME Kept, ui' \in UiStates, lastTranscript' \in Transcripts \union {NoTranscript},
         repoOrtho' \in BOOLEAN, UNCHANGED mappings, llmTests' \in Nat, warmups' \in Nat,
         \/ Engine!EnterEngine
         \/ Engine!LeaveEngine
         \/ Engine!EngineStep
         \/ UNCHANGED engineVars
  PROVE  Kept'
<1>1. InFlight' = InFlight
  BY DEF InFlight
<1>2. JobTranscripts'
  BY <1>1 DEF Kept, JobTranscripts
<1>3. modelLoaded' \in BOOLEAN /\ modelLoading' \in BOOLEAN /\ engineCalls' \in Nat
  BY EngineTypes DEF Kept
<1> QED
  BY <1>2, <1>3 DEF Kept, TypeOK

LEMMA ApplyKept ==
  ASSUME Kept, NEW u \in UiStates, NEW t \in Transcripts, Apply(u, t)
  PROVE  /\ ui' \in UiStates
         /\ lastTranscript' \in Transcripts \union {NoTranscript}
         /\ mappings' \in [Slots -> Jobs]
         /\ JobTranscripts'
<1>1. CASE Refuses(u)
  <2>1. ui' = u /\ UNCHANGED <<lastTranscript, mappings>>
    BY <1>1 DEF Apply
  <2>2. InFlight' = InFlight
    BY <2>1 DEF InFlight
  <2> QED
    BY <2>1, <2>2 DEF Kept, TypeOK, JobTranscripts
<1>2. CASE ~Refuses(u)
  <2> DEFINE v == IF u.automationMode = "ON_DEVICE" THEN Refreshed(u) ELSE u
  <2>1. lastTranscript' = t /\ ui' = MappingStarted(v)
    BY <1>2 DEF Apply
  <2>2. PICK j \in Slots \ InFlight :
          mappings' = [mappings EXCEPT ![j] =
            [phase |-> "dispatched", transcript |-> t,
             mode |-> u.automationMode, repo |-> "CLOUD"]]
    BY <1>2 DEF Apply
  <2>3. v \in UiStates
    BY UiTypes DEF Kept
  <2>4. ui' \in UiStates
    BY <2>1, <2>3, UiTypes DEF Kept
  <2>5. mappings' \in [Slots -> Jobs]
    BY <2>2 DEF Kept, TypeOK, Jobs, UiStates, Modes
  <2>6. InFlight' = InFlight \union {j} /\ mappings'[j].transcript = t
    BY <2>2 DEF InFlight, Kept, TypeOK
  <2>7. \A i \in InFlight : mappings'[i].transcript = mappings[i].transcript
    BY <2>2 DEF InFlight, Kept, TypeOK
  <2> QED
    BY <2>1, <2>4, <2>5, <2>6, <2>7 DEF Kept, JobTranscripts
<1> QED
  BY <1>1, <1>2

LEMMA ReapplyKept ==
  ASSUME Kept, NEW u \in UiStates, Reapply(u)
  PROVE  /\ ui' \in UiStates
         /\ lastTranscript' \in Transcripts \union {NoTranscript}
         /\ mappings' \in [Slots -> Jobs]
         /\ JobTranscripts'
<1>1. CASE lastTranscript = NoTranscript
  <2>1. ui' = u /\ UNCHANGED <<lastTranscript, mappings>>
    BY <1>1 DEF Reapply
  <2>2. InFlight' = InFlight
    BY <2>1 DEF InFlight
  <2> QED
    BY <2>1, <2>2 DEF Kept, TypeOK, JobTranscripts
<1>2. CASE lastTranscript # NoTranscript
  <2>1. lastTranscript \in Transcripts /\ Apply(u, lastTranscript)
    BY <1>2 DEF Reapply, Kept, TypeOK
  <2> QED
    BY <2>1, ApplyKept
<1> QED
  BY <1>1, <1>2

(* The end of one mapping leaves the others their transcripts.             *)
LEMMA EndKept ==
  ASSUME Kept, NEW j \in Slots, EndMapping(j), ui' \in UiStates
  PROVE  Kept'
<1>1. UNCHANGED <<lastTranscript, repoOrtho, llmTests, warmups>>
      /\ (Engine!LeaveEngine \/ UNCHANGED engineVars)
  BY DEF EndMapping
<1>2. mappings' \in [Slots -> Jobs]
  BY DEF EndMapping, Kept, TypeOK, Jobs, Idle, Modes
<1>3. InFlight' \subseteq InFlight
      /\ \A i \in InFlight' : mappings'[i].transcript = mappings[i].transcript
  BY DEF InFlight, EndMapping, Kept, TypeOK, Idle
<1>4. JobTranscripts'
  BY <1>3 DEF Kept, JobTranscripts
<1>5. modelLoaded' \in BOOLEAN /\ modelLoading' \in BOOLEAN /\ engineCalls' \in Nat
  BY <1>1, EngineTypes DEF Kept
<1> QED
  BY <1>1, <1>2, <1>4, <1>5 DEF Kept, TypeOK

LEMMA NextKept == Kept /\ [Next \/ Reset]_vars => Kept'
<1> SUFFICES ASSUME Kept, [Next \/ Reset]_vars PROVE Kept'
  OBVIOUS
<1> USE FormConstants
<1>a. /\ ui \in UiStates /\ lastTranscript \in Transcripts \union {NoTranscript}
      /\ repoOrtho \in BOOLEAN /\ mappings \in [Slots -> Jobs]
      /\ llmTests \in Nat /\ warmups \in Nat
  BY DEF Kept, TypeOK
<1>1. ASSUME NEW t \in Transcripts, ApplyTranscript(t) PROVE Kept'
  <2>1. Apply(ui, t) /\ UNCHANGED <<repoOrtho, llmTests, warmups, engineVars>>
    BY <1>1 DEF ApplyTranscript
  <2> QED
    BY <1>a, <2>1, ApplyKept DEF Kept, TypeOK, engineVars
<1>2. ASSUME NEW mode \in Modes, SetAutomationMode(mode) PROVE Kept'
  <2> DEFINE onDevice == mode = "ON_DEVICE"
             warm == onDevice /\ WarmupNeeded
             refreshed == IF onDevice THEN Refreshed(ui) ELSE ui
             warming == IF warm THEN [refreshed EXCEPT !.modelLoading = TRUE] ELSE refreshed
             u == [warming EXCEPT !.automationMode = mode,
                                  !.mappingError = FALSE,
                                  !.mappingSourceError = FALSE,
                                  !.isLlmTestRunning = FALSE,
                                  !.llmTestSuccess = "none"]
  <2>1. Reapply(u) /\ UNCHANGED llmTests /\ repoOrtho' = SyncedOrtho(mode)
    BY <1>2 DEF SetAutomationMode
  <2>2. warmups' \in Nat /\ (Engine!EnterEngine \/ UNCHANGED engineVars)
    BY <1>2, <1>a DEF SetAutomationMode
  <2>3. u \in UiStates
    <3>1. refreshed \in UiStates
      BY <1>a, UiTypes DEF Kept
    <3> HIDE DEF refreshed
    <3>2. warming \in UiStates
      BY <3>1 DEF UiStates
    <3> HIDE DEF warming
    <3> QED
      BY <3>2 DEF UiStates
  <2>4. repoOrtho' \in BOOLEAN
    BY <2>1, <1>a DEF SyncedOrtho, UiStates
  <2>5. modelLoaded' \in BOOLEAN /\ modelLoading' \in BOOLEAN /\ engineCalls' \in Nat
    BY <2>2, EngineTypes DEF Kept
  <2> HIDE DEF u
  <2> QED
    BY <1>a, <2>1, <2>2, <2>3, <2>4, <2>5, ReapplyKept DEF Kept, TypeOK
<1>3. ASSUME NEW q \in Questions, NEW value \in {Blank, UserText}, UpdateAnswer(q, value) PROVE Kept'
  <2>1. ui' \in UiStates
    BY <1>3, <1>a DEF UpdateAnswer, UiStates, Answers
  <2> QED
    BY <1>3, <1>a, <2>1, KeptSimply DEF UpdateAnswer
<1>4. ASSUME SubmitForm PROVE Kept'
  <2>1. ui' \in UiStates
    BY <1>4, <1>a DEF SubmitForm, UiStates
  <2> QED
    BY <1>4, <1>a, <2>1, KeptSimply DEF SubmitForm
<1>5. ASSUME NEW enabled \in BOOLEAN, OrthographySwitchVisible, SetOrthography(enabled) PROVE Kept'
  <2> DEFINE u == [ui EXCEPT !.ortho = enabled, !.mappingError = FALSE, !.mappingSourceError = FALSE]
  <2>1. Reapply(u) /\ UNCHANGED <<llmTests, warmups, engineVars>> /\ repoOrtho' = enabled
    BY <1>5 DEF SetOrthography, OrthographySwitchVisible
  <2>2. u \in UiStates
    BY <1>a DEF UiStates
  <2> HIDE DEF u
  <2> QED
    BY <1>a, <2>1, <2>2, ReapplyKept DEF Kept, TypeOK, engineVars
<1>6. ASSUME RunLlmTest PROVE Kept'
  <2>1. ui' \in UiStates
    BY <1>6, <1>a DEF RunLlmTest, UiStates
  <2>2. llmTests' \in Nat /\ (Engine!EnterEngine \/ UNCHANGED engineVars)
    BY <1>6, <1>a DEF RunLlmTest
  <2> QED
    BY <1>6, <1>a, <2>1, <2>2, KeptSimply DEF RunLlmTest
<1>7. ASSUME NEW j \in Slots, PickRepository(j) PROVE Kept'
  <2> DEFINE repo == IF ui.automationMode = "ON_DEVICE" /\ SupportsOnDevice
                     THEN "ON_DEVICE" ELSE "CLOUD"
  <2>1. mappings' = [mappings EXCEPT ![j].phase = "running", ![j].repo = repo]
    BY <1>7 DEF PickRepository
  <2>2. mappings' \in [Slots -> Jobs]
    <3>1. mappings[j] \in Jobs
      BY <1>a
    <3>2. [mappings[j] EXCEPT !.phase = "running", !.repo = repo] \in Jobs
      BY <3>1 DEF Jobs, Modes
    <3>3. mappings' = [mappings EXCEPT ![j] = [mappings[j] EXCEPT !.phase = "running", !.repo = repo]]
      BY <1>a, <2>1, <3>1 DEF Jobs
    <3> HIDE DEF repo
    <3> QED
      BY <1>a, <3>2, <3>3
  <2>3. InFlight' = InFlight /\ \A i \in Slots : mappings'[i].transcript = mappings[i].transcript
    BY <1>7, <1>a, <2>1 DEF InFlight, PickRepository, Jobs
  <2>4. UNCHANGED <<ui, lastTranscript, repoOrtho, llmTests, warmups>>
        /\ (Engine!EnterEngine \/ UNCHANGED engineVars)
    BY <1>7 DEF PickRepository
  <2>5. JobTranscripts'
    BY <2>3 DEF Kept, JobTranscripts, InFlight
  <2>6. modelLoaded' \in BOOLEAN /\ modelLoading' \in BOOLEAN /\ engineCalls' \in Nat
    BY <2>4, EngineTypes DEF Kept
  <2> QED
    BY <1>a, <2>2, <2>4, <2>5, <2>6 DEF Kept, TypeOK
<1>8. ASSUME NEW j \in Slots, NEW filled \in SUBSET Questions, NEW degraded \in BOOLEAN,
             MappingSucceeds(j, filled, degraded) PROVE Kept'
  <2>1. EndMapping(j) /\ j \in InFlight
    BY <1>8 DEF MappingSucceeds, EndMapping, InFlight
  <2>2. mappings[j].transcript \in Transcripts
    BY <2>1 DEF Kept, JobTranscripts
  <2>3. Prefilled(ui.entries, filled, mappings[j].transcript) \in [Questions -> Answers]
    BY <1>a, <2>2 DEF Prefilled, Answers, UiStates
  <2>4. ui' \in UiStates
    BY <1>8, <1>a, <2>2, <2>3 DEF MappingSucceeds, UiStates
  <2> QED
    BY <2>1, <2>4, EndKept
<1>9. ASSUME NEW j \in Slots, MappingFails(j) PROVE Kept'
  <2>1. EndMapping(j) /\ ui' \in UiStates
    BY <1>9, <1>a DEF MappingFails, UiStates
  <2> QED
    BY <2>1, EndKept
<1>10. ASSUME NEW outcome \in {"ok", "failed"}, EndLlmTest(outcome) PROVE Kept'
  <2>1. ui' \in UiStates
    BY <1>10, <1>a DEF EndLlmTest, UiStates
  <2>2. llmTests' \in Nat /\ (Engine!LeaveEngine \/ UNCHANGED engineVars)
    BY <1>10, <1>a DEF EndLlmTest
  <2> QED
    BY <1>10, <1>a, <2>1, <2>2, KeptSimply DEF EndLlmTest
<1>11. ASSUME EndWarmup PROVE Kept'
  <2>1. ui' = Refreshed(ui) /\ warmups' \in Nat /\ Engine!LeaveEngine
        /\ UNCHANGED <<lastTranscript, repoOrtho, mappings, llmTests>>
    BY <1>11, <1>a DEF EndWarmup
  <2>2. ui' \in UiStates
    BY <1>a, <2>1, UiTypes DEF Kept
  <2> QED
    BY <1>a, <2>1, <2>2, KeptSimply
<1>12. ASSUME EngineStep PROVE Kept'
  BY <1>12, <1>a, KeptSimply DEF EngineStep
<1>13. ASSUME Reset PROVE Kept'
  <2>1. modelLoaded \in BOOLEAN
    BY DEF Kept, TypeOK
  <2>2. InitialUi \in UiStates
    BY DEF InitialUi, UiStates, Modes, Answers
  <2>3. ui' \in UiStates
    BY <1>13, <2>1, <2>2 DEF Reset, UiStates
  <2> QED
    BY <1>13, <1>a, <2>3, KeptSimply DEF Reset
<1>14. ASSUME UNCHANGED vars PROVE Kept'
  BY <1>14, <1>a, KeptSimply DEF vars
<1> QED
  BY <1>1, <1>2, <1>3, <1>4, <1>5, <1>6, <1>7, <1>8, <1>9, <1>10, <1>11, <1>12, <1>13, <1>14
  DEF Next, UserStep, BackgroundStep, MappingEnds

LEMMA KeptAlways == ResetSpec => []Kept
<1>1. Init => Kept
  BY InitIInv DEF IInv, Kept
<1> QED
  BY <1>1, NextKept, PTL DEF ResetSpec

(* What holds with reset() at any time holds without it, and in the        *)
(* specification of the run form_llm.                                      *)
LEMMA ResetCovers == (Spec => ResetSpec) /\ (SpecWithReset => ResetSpec)
<1>1. [Next]_vars => [Next \/ Reset]_vars
  OBVIOUS
<1> QED
  BY <1>1, PTL DEF Spec, SpecWithReset, ResetSpec

-----------------------------------------------------------------------------
(* applyTranscript leaves the entries and the orthography switch alone and *)
(* never marks a form as submitted.                                        *)
LEMMA ReapplyForm ==
  ASSUME Kept, NEW u \in UiStates, Reapply(u)
  PROVE  /\ ui'.entries = u.entries
         /\ ui'.ortho = u.ortho
         /\ ui'.automationMode = u.automationMode
         /\ ui'.isSubmitted => u.isSubmitted
<1>1. CASE ui' = u
  BY <1>1
<1>2. CASE ui' # u
  <2> DEFINE v == IF u.automationMode = "ON_DEVICE" THEN Refreshed(u) ELSE u
  <2>1. ui' = MappingStarted(v)
    BY <1>2 DEF Reapply, Apply
  <2>2. v \in UiStates
    BY UiTypes DEF Kept
  <2>3. v.entries = u.entries /\ v.ortho = u.ortho /\ v.automationMode = u.automationMode
    BY DEF Refreshed, UiStates
  <2> HIDE DEF v
  <2> QED
    BY <2>1, <2>2, <2>3 DEF MappingStarted, UiStates
<1> QED
  BY <1>1, <1>2

(* What a step keeps while it is not about answers, modes or the switch.   *)
LEMMA FormUntouched ==
  ASSUME SubmittedIsComplete, OrthographyInSync,
         ui'.entries = ui.entries, ui'.isSubmitted => ui.isSubmitted,
         ui'.automationMode = ui.automationMode, ui'.ortho = ui.ortho,
         repoOrtho' = repoOrtho
  PROVE  SubmittedIsComplete' /\ OrthographyInSync'
  BY DEF SubmittedIsComplete, IsValid, OrthographyInSync, OrthographySwitchVisible

(* Every step keeps submitted forms complete and the switch in sync.       *)
LEMMA NextForm ==
  Kept /\ SubmittedIsComplete /\ OrthographyInSync /\ [Next \/ Reset]_vars
    => SubmittedIsComplete' /\ OrthographyInSync'
<1> SUFFICES ASSUME Kept, SubmittedIsComplete, OrthographyInSync, [Next \/ Reset]_vars
             PROVE  SubmittedIsComplete' /\ OrthographyInSync'
  OBVIOUS
<1> USE FormConstants
<1>a. ui \in UiStates
  BY DEF Kept, TypeOK
<1>1. ASSUME NEW t \in Transcripts, ApplyTranscript(t) PROVE SubmittedIsComplete' /\ OrthographyInSync'
  <2> DEFINE v == IF ui.automationMode = "ON_DEVICE" THEN Refreshed(ui) ELSE ui
  <2>1. (ui' = ui \/ ui' = MappingStarted(v)) /\ repoOrtho' = repoOrtho
    BY <1>1 DEF ApplyTranscript, Apply
  <2>2. v \in UiStates
    BY <1>a, UiTypes DEF Kept
  <2>3. v.entries = ui.entries /\ v.ortho = ui.ortho /\ v.automationMode = ui.automationMode
    BY <1>a DEF Refreshed, UiStates
  <2> HIDE DEF v
  <2>4. /\ ui'.entries = ui.entries /\ ui'.ortho = ui.ortho
        /\ ui'.automationMode = ui.automationMode
        /\ ui'.isSubmitted => ui.isSubmitted
    BY <2>1, <2>2, <2>3 DEF MappingStarted, UiStates
  <2> QED
    BY <2>1, <2>4, FormUntouched
<1>2. ASSUME NEW mode \in Modes, SetAutomationMode(mode) PROVE SubmittedIsComplete' /\ OrthographyInSync'
  <2> DEFINE onDevice == mode = "ON_DEVICE"
             warm == onDevice /\ WarmupNeeded
             refreshed == IF onDevice THEN Refreshed(ui) ELSE ui
             warming == IF warm THEN [refreshed EXCEPT !.modelLoading = TRUE] ELSE refreshed
             u == [warming EXCEPT !.automationMode = mode,
                                  !.mappingError = FALSE,
                                  !.mappingSourceError = FALSE,
                                  !.isLlmTestRunning = FALSE,
                                  !.llmTestSuccess = "none"]
  <2>1. Reapply(u) /\ repoOrtho' = SyncedOrtho(mode)
    BY <1>2 DEF SetAutomationMode
  <2>2. /\ u \in UiStates
        /\ u.entries = ui.entries /\ u.ortho = ui.ortho
        /\ u.isSubmitted = ui.isSubmitted
        /\ u.automationMode = mode
    <3>0. Refreshed(ui) \in UiStates
      BY <1>a, UiTypes DEF Kept
    <3>1. /\ refreshed \in UiStates
          /\ refreshed.entries = ui.entries /\ refreshed.ortho = ui.ortho
          /\ refreshed.isSubmitted = ui.isSubmitted
      BY <1>a, <3>0 DEF UiStates, Refreshed
    <3> HIDE DEF refreshed
    <3>2. /\ warming \in UiStates
          /\ warming.entries = ui.entries /\ warming.ortho = ui.ortho
          /\ warming.isSubmitted = ui.isSubmitted
      BY <3>1 DEF UiStates
    <3> HIDE DEF warming
    <3> QED
      BY <3>2 DEF UiStates
  <2> HIDE DEF u
  <2>3. /\ ui'.entries = ui.entries /\ ui'.ortho = ui.ortho /\ ui'.automationMode = mode
        /\ ui'.isSubmitted => ui.isSubmitted
    BY <2>1, <2>2, ReapplyForm
  <2>4. SubmittedIsComplete'
    BY <2>3 DEF SubmittedIsComplete, IsValid
  <2>5. OrthographyInSync'
    BY <2>1, <2>3 DEF OrthographyInSync, OrthographySwitchVisible, SyncedOrtho
  <2> QED
    BY <2>4, <2>5
<1>3. ASSUME NEW q \in Questions, NEW value \in {Blank, UserText}, UpdateAnswer(q, value)
      PROVE  SubmittedIsComplete' /\ OrthographyInSync'
  <2>1. /\ ~ui'.isSubmitted /\ repoOrtho' = repoOrtho
        /\ ui'.automationMode = ui.automationMode /\ ui'.ortho = ui.ortho
    BY <1>3, <1>a DEF UpdateAnswer, UiStates
  <2> QED
    BY <2>1 DEF SubmittedIsComplete, OrthographyInSync, OrthographySwitchVisible
<1>4. ASSUME SubmitForm PROVE SubmittedIsComplete' /\ OrthographyInSync'
  <2>1. /\ IsValid(ui) /\ ui'.entries = ui.entries /\ repoOrtho' = repoOrtho
        /\ ui'.automationMode = ui.automationMode /\ ui'.ortho = ui.ortho
    BY <1>4, <1>a DEF SubmitForm, UiStates
  <2> QED
    BY <2>1 DEF SubmittedIsComplete, IsValid, OrthographyInSync, OrthographySwitchVisible
<1>5. ASSUME NEW enabled \in BOOLEAN, OrthographySwitchVisible, SetOrthography(enabled)
      PROVE  SubmittedIsComplete' /\ OrthographyInSync'
  <2> DEFINE u == [ui EXCEPT !.ortho = enabled, !.mappingError = FALSE, !.mappingSourceError = FALSE]
  <2>1. Reapply(u) /\ repoOrtho' = enabled
    BY <1>5 DEF SetOrthography, OrthographySwitchVisible
  <2>2. /\ u \in UiStates
        /\ u.entries = ui.entries /\ u.ortho = enabled
        /\ u.isSubmitted = ui.isSubmitted
    BY <1>a DEF UiStates
  <2> HIDE DEF u
  <2>3. ui'.entries = ui.entries /\ ui'.ortho = enabled /\ (ui'.isSubmitted => ui.isSubmitted)
    BY <2>1, <2>2, ReapplyForm
  <2> QED
    BY <2>1, <2>3 DEF SubmittedIsComplete, IsValid, OrthographyInSync
<1>6. ASSUME RunLlmTest PROVE SubmittedIsComplete' /\ OrthographyInSync'
  BY <1>6, <1>a, FormUntouched DEF RunLlmTest, UiStates
<1>7. ASSUME NEW j \in Slots, PickRepository(j) PROVE SubmittedIsComplete' /\ OrthographyInSync'
  BY <1>7, FormUntouched DEF PickRepository
<1>8. ASSUME NEW j \in Slots, NEW filled \in SUBSET Questions, NEW degraded \in BOOLEAN,
             MappingSucceeds(j, filled, degraded)
      PROVE  SubmittedIsComplete' /\ OrthographyInSync'
  <2>1. j \in InFlight /\ repoOrtho' = repoOrtho
    BY <1>8 DEF MappingSucceeds, EndMapping, InFlight
  <2>2. mappings[j].transcript # Blank
    BY <2>1 DEF Kept, JobTranscripts
  <2>3. /\ ui'.entries = Prefilled(ui.entries, filled, mappings[j].transcript)
        /\ ui'.isSubmitted = ui.isSubmitted
        /\ ui'.automationMode = ui.automationMode /\ ui'.ortho = ui.ortho
    BY <1>8, <1>a DEF MappingSucceeds, UiStates
  <2>4. SubmittedIsComplete'
    BY <2>2, <2>3 DEF SubmittedIsComplete, IsValid, Prefilled
  <2> QED
    BY <2>1, <2>3, <2>4 DEF OrthographyInSync, OrthographySwitchVisible
<1>9. ASSUME NEW j \in Slots, MappingFails(j) PROVE SubmittedIsComplete' /\ OrthographyInSync'
  BY <1>9, <1>a, FormUntouched DEF MappingFails, EndMapping, UiStates
<1>10. ASSUME NEW outcome \in {"ok", "failed"}, EndLlmTest(outcome)
       PROVE  SubmittedIsComplete' /\ OrthographyInSync'
  BY <1>10, <1>a, FormUntouched DEF EndLlmTest, UiStates
<1>11. ASSUME EndWarmup PROVE SubmittedIsComplete' /\ OrthographyInSync'
  BY <1>11, <1>a, FormUntouched DEF EndWarmup, Refreshed, UiStates
<1>12. ASSUME EngineStep PROVE SubmittedIsComplete' /\ OrthographyInSync'
  BY <1>12, FormUntouched DEF EngineStep
<1>13. ASSUME Reset PROVE SubmittedIsComplete' /\ OrthographyInSync'
  <2>1. ~ui'.isSubmitted /\ ui'.automationMode = "CLOUD"
    BY <1>13 DEF Reset, InitialUi
  <2> QED
    BY <2>1 DEF SubmittedIsComplete, OrthographyInSync, OrthographySwitchVisible
<1>14. ASSUME UNCHANGED vars PROVE SubmittedIsComplete' /\ OrthographyInSync'
  BY <1>14, FormUntouched DEF vars
<1> QED
  BY <1>1, <1>2, <1>3, <1>4, <1>5, <1>6, <1>7, <1>8, <1>9, <1>10, <1>11, <1>12, <1>13, <1>14
  DEF Next, UserStep, BackgroundStep, MappingEnds

(* A form that says it was submitted has every required answer             *)
(* (submitForm's check and updateAnswer's reset of isSubmitted), also      *)
(* when mappings started before a reset() still answer.                    *)
THEOREM SubmittedComplete == ResetSpec => []SubmittedIsComplete
<1>1. Init => SubmittedIsComplete /\ OrthographyInSync
  BY DEF Init, InitialUi, SubmittedIsComplete, OrthographyInSync, OrthographySwitchVisible
<1> QED
  BY <1>1, NextForm, KeptAlways, PTL DEF ResetSpec

(* The orthography switch shows what the on-device repository will read,   *)
(* although reset() sets the switch and leaves the repository alone.       *)
THEOREM SwitchInSync == ResetSpec => []OrthographyInSync
<1>1. Init => SubmittedIsComplete /\ OrthographyInSync
  BY DEF Init, InitialUi, SubmittedIsComplete, OrthographyInSync, OrthographySwitchVisible
<1> QED
  BY <1>1, NextForm, KeptAlways, PTL DEF ResetSpec

-----------------------------------------------------------------------------
(* A mapping that is started leaves the self-test's flag alone.            *)
LEMMA ApplyTest ==
  ASSUME Kept, NEW u \in UiStates, NEW t, Apply(u, t)
  PROVE  ui'.isLlmTestRunning = u.isLlmTestRunning
<1> DEFINE v == IF u.automationMode = "ON_DEVICE" THEN Refreshed(u) ELSE u
<1>1. ui' = u \/ ui' = MappingStarted(v)
  BY DEF Apply
<1>2. v \in UiStates
  BY UiTypes DEF Kept
<1>3. v.isLlmTestRunning = u.isLlmTestRunning
  BY DEF Refreshed, UiStates
<1> HIDE DEF v
<1> QED
  BY <1>1, <1>2, <1>3 DEF MappingStarted, UiStates

LEMMA ReapplyTest ==
  ASSUME Kept, NEW u \in UiStates, Reapply(u)
  PROVE  ui'.isLlmTestRunning = u.isLlmTestRunning
  BY ApplyTest DEF Reapply

(* What a step keeps while it is not about the self-test.                  *)
LEMMA TestUntouched ==
  ASSUME RunningTestIsInFlight, ui'.isLlmTestRunning => ui.isLlmTestRunning,
         llmTests' = llmTests
  PROVE  RunningTestIsInFlight'
  BY DEF RunningTestIsInFlight

(* A mode switch clears the flag and leaves the self-test running, so that *)
(* several may overlap; each that ends clears the flag.                    *)
LEMMA NextTest == Kept /\ RunningTestIsInFlight /\ [Next \/ Reset]_vars => RunningTestIsInFlight'
<1> SUFFICES ASSUME Kept, RunningTestIsInFlight, [Next \/ Reset]_vars
             PROVE  RunningTestIsInFlight'
  OBVIOUS
<1> USE FormConstants
<1>a. ui \in UiStates /\ llmTests \in Nat
  BY DEF Kept, TypeOK
<1>1. ASSUME NEW t \in Transcripts, ApplyTranscript(t) PROVE RunningTestIsInFlight'
  BY <1>1, <1>a, ApplyTest, TestUntouched DEF ApplyTranscript
<1>2. ASSUME NEW mode \in Modes, SetAutomationMode(mode) PROVE RunningTestIsInFlight'
  <2> DEFINE onDevice == mode = "ON_DEVICE"
             warm == onDevice /\ WarmupNeeded
             refreshed == IF onDevice THEN Refreshed(ui) ELSE ui
             warming == IF warm THEN [refreshed EXCEPT !.modelLoading = TRUE] ELSE refreshed
             u == [warming EXCEPT !.automationMode = mode,
                                  !.mappingError = FALSE,
                                  !.mappingSourceError = FALSE,
                                  !.isLlmTestRunning = FALSE,
                                  !.llmTestSuccess = "none"]
  <2>1. Reapply(u)
    BY <1>2 DEF SetAutomationMode
  <2>2. u \in UiStates /\ ~u.isLlmTestRunning
    <3>0. Refreshed(ui) \in UiStates
      BY <1>a, UiTypes DEF Kept
    <3>1. refreshed \in UiStates
      BY <1>a, <3>0
    <3> HIDE DEF refreshed
    <3>2. warming \in UiStates
      BY <3>1 DEF UiStates
    <3> HIDE DEF warming
    <3> QED
      BY <3>2 DEF UiStates
  <2> HIDE DEF u
  <2> QED
    BY <2>1, <2>2, ReapplyTest DEF RunningTestIsInFlight
<1>3. ASSUME NEW q \in Questions, NEW value \in {Blank, UserText}, UpdateAnswer(q, value)
      PROVE  RunningTestIsInFlight'
  BY <1>3, <1>a, TestUntouched DEF UpdateAnswer, UiStates
<1>4. ASSUME SubmitForm PROVE RunningTestIsInFlight'
  BY <1>4, <1>a, TestUntouched DEF SubmitForm, UiStates
<1>5. ASSUME NEW enabled \in BOOLEAN, OrthographySwitchVisible, SetOrthography(enabled)
      PROVE  RunningTestIsInFlight'
  <2> DEFINE u == [ui EXCEPT !.ortho = enabled, !.mappingError = FALSE, !.mappingSourceError = FALSE]
  <2>1. Reapply(u) /\ llmTests' = llmTests
    BY <1>5 DEF SetOrthography, OrthographySwitchVisible
  <2>2. u \in UiStates /\ u.isLlmTestRunning = ui.isLlmTestRunning
    BY <1>a DEF UiStates
  <2> HIDE DEF u
  <2>3. ui'.isLlmTestRunning = ui.isLlmTestRunning
    BY <2>1, <2>2, ReapplyTest
  <2> QED
    BY <2>1, <2>3, TestUntouched
<1>6. ASSUME RunLlmTest PROVE RunningTestIsInFlight'
  BY <1>6, <1>a DEF RunLlmTest, RunningTestIsInFlight
<1>7. ASSUME NEW j \in Slots, PickRepository(j) PROVE RunningTestIsInFlight'
  BY <1>7, TestUntouched DEF PickRepository
<1>8. ASSUME NEW j \in Slots, NEW filled \in SUBSET Questions, NEW degraded \in BOOLEAN,
             MappingSucceeds(j, filled, degraded)
      PROVE  RunningTestIsInFlight'
  BY <1>8, <1>a, TestUntouched DEF MappingSucceeds, EndMapping, UiStates
<1>9. ASSUME NEW j \in Slots, MappingFails(j) PROVE RunningTestIsInFlight'
  BY <1>9, <1>a, TestUntouched DEF MappingFails, EndMapping, UiStates
<1>10. ASSUME NEW outcome \in {"ok", "failed"}, EndLlmTest(outcome)
       PROVE  RunningTestIsInFlight'
  BY <1>10, <1>a DEF EndLlmTest, RunningTestIsInFlight, UiStates
<1>11. ASSUME EndWarmup PROVE RunningTestIsInFlight'
  BY <1>11, <1>a, TestUntouched DEF EndWarmup, Refreshed, UiStates
<1>12. ASSUME EngineStep PROVE RunningTestIsInFlight'
  BY <1>12, TestUntouched DEF EngineStep
<1>13. ASSUME Reset PROVE RunningTestIsInFlight'
  BY <1>13 DEF Reset, InitialUi, RunningTestIsInFlight
<1>14. ASSUME UNCHANGED vars PROVE RunningTestIsInFlight'
  BY <1>14, TestUntouched DEF vars
<1> QED
  BY <1>1, <1>2, <1>3, <1>4, <1>5, <1>6, <1>7, <1>8, <1>9, <1>10, <1>11, <1>12, <1>13, <1>14
  DEF Next, UserStep, BackgroundStep, MappingEnds

(* "LLM Test laeuft..." stands for a self-test in flight, however many     *)
(* overlap, and also when a reset() lets a second one start.               *)
THEOREM RunningTestReal == ResetSpec => []RunningTestIsInFlight
<1>1. Init => RunningTestIsInFlight
  BY DEF Init, InitialUi, RunningTestIsInFlight
<1> QED
  BY <1>1, NextTest, KeptAlways, PTL DEF ResetSpec
=============================================================================
