----------------------------- MODULE JsonScanner -----------------------------
(***************************************************************************)
(* The two scanners that look for a JSON object in a text: the native code *)
(* ends an inference at the first complete object                          *)
(* (try_extract_complete_json_object in ai_chat.cpp), and the repository   *)
(* takes the objects out of what it is given                               *)
(* (extractBalancedJsonObjects in Kotlin).                                 *)
(*                                                                         *)
(* A text is a sequence of characters, and a character is what a scanner   *)
(* can tell of it.  Positions count from 1, so start = 0 stands for -1.    *)
(***************************************************************************)
EXTENDS Naturals, Sequences

Chars == {"open", "close", "quote", "backslash", "other"}

ScanStart == [start |-> 0, depth |-> 0, inString |-> FALSE, escaped |-> FALSE, found |-> <<>>]

(* Slip: the end of an escape is not told from a quote that ends a string. *)
NativeStepNoEscape(s, text, i) ==
  CASE text[i] = "quote" ->
         [s EXCEPT !.inString = ~@]
    [] text[i] = "open" /\ ~s.inString ->
         [s EXCEPT !.start = IF s.depth = 0 THEN i ELSE @, !.depth = @ + 1]
    [] text[i] = "close" /\ ~s.inString /\ s.depth > 0 ->
         [s EXCEPT !.depth = @ - 1,
                   !.found = IF s.depth = 1 THEN <<SubSeq(text, s.start, i)>> ELSE @]
    [] OTHER -> s

(* One character of try_extract_complete_json_object; it returns at the    *)
(* first complete object.                                                  *)
NativeStep(s, text, i) ==
  CASE s.found # <<>> -> s
    [] s.found = <<>> /\ s.escaped ->
         [s EXCEPT !.escaped = FALSE]
    [] s.found = <<>> /\ ~s.escaped /\ text[i] = "backslash" /\ s.inString ->
         [s EXCEPT !.escaped = TRUE]
    [] s.found = <<>> /\ ~s.escaped /\ text[i] = "quote" ->
         [s EXCEPT !.inString = ~@]
    [] s.found = <<>> /\ ~s.inString /\ text[i] = "open" ->
         [s EXCEPT !.start = IF s.depth = 0 THEN i ELSE @, !.depth = @ + 1]
    [] s.found = <<>> /\ ~s.inString /\ text[i] = "close" /\ s.depth > 0 ->
         [s EXCEPT !.depth = @ - 1,
                   !.found = IF s.depth = 1 THEN <<SubSeq(text, s.start, i)>> ELSE @]
    [] OTHER -> s

(* The loop of try_extract_complete_json_object: its state before the text *)
(* and after every character.                                              *)
NativeScan(text) ==
  LET scan[i \in 0 .. Len(text)] ==
        IF i = 0 THEN ScanStart ELSE NativeStep(scan[i - 1], text, i)
  IN  scan

(* <<the object>>, or <<>>.                                                *)
tryExtractCompleteJsonObject(text) == NativeScan(text)[Len(text)].found

(* One character of extractBalancedJsonObjects, which goes on after an     *)
(* object.                                                                 *)
RepositoryStep(s, text, i) ==
  CASE s.inString /\ s.escaped ->
         [s EXCEPT !.escaped = FALSE]
    [] s.inString /\ ~s.escaped /\ text[i] = "backslash" ->
         [s EXCEPT !.escaped = TRUE]
    [] s.inString /\ ~s.escaped /\ text[i] = "quote" ->
         [s EXCEPT !.inString = FALSE]
    [] ~s.inString /\ text[i] = "quote" ->
         [s EXCEPT !.inString = TRUE]
    [] ~s.inString /\ text[i] = "open" ->
         [s EXCEPT !.start = IF s.depth = 0 THEN i ELSE @, !.depth = @ + 1]
    [] ~s.inString /\ text[i] = "close" /\ s.depth > 0 ->
         [s EXCEPT !.depth = @ - 1,
                   !.found = IF s.depth = 1 THEN Append(@, SubSeq(text, s.start, i)) ELSE @,
                   !.start = IF s.depth = 1 THEN 0 ELSE @]
    [] OTHER -> s

(* The loop of extractBalancedJsonObjects.                                 *)
RepositoryScan(text) ==
  LET scan[i \in 0 .. Len(text)] ==
        IF i = 0 THEN ScanStart ELSE RepositoryStep(scan[i - 1], text, i)
  IN  scan

(* The objects, in order.                                                  *)
extractBalancedJsonObjects(text) == RepositoryScan(text)[Len(text)].found
=============================================================================
