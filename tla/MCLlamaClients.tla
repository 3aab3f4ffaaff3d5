--------------------------- MODULE MCLlamaClients ---------------------------
(***************************************************************************)
(* The three loops that feed tokens to a llama context, side by side: the  *)
(* chat session of InferenceEngineImpl, the inference of the direct bridge *)
(* and the completion on iOS.  An app uses one of them, so a behaviour is  *)
(* a behaviour of one.                                                     *)
(***************************************************************************)
EXTENDS InferenceEngine, DirectInference, IosLlamaContext

CONSTANT Clients   \* a subset of {"chat", "direct", "ios"}

VARIABLE client

vars == <<client, chatVars, directVars, iosVars>>

(* An object with nested and empty parts, escapes and cuts at any place.   *)
MCPieces ==
  {<<"open">>, <<"close">>, <<"backslash">>, <<"other">>,
   <<"open", "quote">>, <<"backslash", "quote">>, <<"quote", "close">>}

Init == EngineInit /\ DirectInit /\ IosInit /\ client \in Clients

Chat(A) == client = "chat" /\ A /\ UNCHANGED <<client, directVars, iosVars>>
Direct(A) == client = "direct" /\ A /\ UNCHANGED <<client, chatVars, iosVars>>
Ios(A) == client = "ios" /\ A /\ UNCHANGED <<client, chatVars, directVars>>

Next == Chat(EngineNext) \/ Direct(DirectNext) \/ Ios(IosNext)

(* Native calls return, the dispatcher serves its queue in order, and a    *)
(* collector takes its token or goes away; the thread inside nativeInfer   *)
(* and the Task of completeJson run on.  No client has to call, no request *)
(* to cancel has to come and no time has to end.                           *)
Fairness ==
  /\ WF_vars(Chat(Initialize))
  /\ WF_vars(Chat(Loading))
  /\ WF_vars(Chat(PromptStep))
  /\ WF_vars(Chat(LoopStep))
  /\ WF_vars(Chat(Resume))
  /\ SF_vars(Chat(CloseStep))
  /\ WF_vars(Direct(InferStep))
  /\ WF_vars(Ios(TaskStep))

Spec == Init /\ [][Next]_vars /\ Fairness

(* Types of the three.                                                     *)
TypeOK == EngineTypeOK /\ DirectTypeOK /\ IosTypeOK
=============================================================================
