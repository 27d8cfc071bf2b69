------------------------------ MODULE AzureGuards ------------------------------
(***************************************************************************)
(* One call of check on a guard that asks Azure: AzureGuardBase and the    *)
(* five guards of guardrails-service/app/core/guards/azure_*.py, from the  *)
(* early returns and the credentials to the verdict.  Content safety asks  *)
(* twice, in two tasks of its own: the harm analysis, and before it is     *)
(* looked at the prompt shield or the search for protected material.  The  *)
(* topic guard asks once for each category.  The pipeline may cancel the   *)
(* check at any await.                                                     *)
(*                                                                         *)
(* What Azure reports is a set of findings.  The retry inside a call, and  *)
(* the client it uses, are AzureClient's; the token is AadTokenCache's.    *)
(***************************************************************************)
EXTENDS Naturals

CONSTANTS
  AzureChecks,  (* guards with the text and the context they are given       *)
  Reports,      (* for each question to Azure: the sets of findings it may   *)
                (* report                                                    *)
  MaxCalls      (* bound: calls of a check beside the preliminary one        *)

(* Only the topic guard asks more than once, or has nothing to ask.          *)
ASSUME AzureAssumption ==
  /\ MaxCalls \in Nat
  /\ \A g \in AzureChecks :
       g.calls \in 0 .. MaxCalls /\ (g.kind # "topic" => g.calls = 1)

VARIABLES
  guard,   (* the guard under check                                          *)
  at,      (* where check is: the await it is at                             *)
  call,    (* its calls of _post_json: 0 is the preliminary one              *)
  result   (* what check gave back, or how it ended                          *)

azureVars == <<guard, at, call, result>>

Calls     == 0 .. MaxCalls
MainCalls == 1 .. guard.calls
NotCalled == [state |-> "none", found |-> {}]
Running   == [state |-> "running", found |-> {}]
Cancelled == [state |-> "cancelled", found |-> {}]
IsOpen(c) == call[c].state = "running"

(* An error and a malformed body are ends as well; a bare answer has not the *)
(* field that the guard looks for.                                           *)
EndsOf(question) ==
  [state : {"error", "malformed", "bare"}, found : {{}}] \cup
  [state : {"answered"}, found : Reports[question]]

(* The preliminary call of content safety, by the family of the stage.       *)
HasPrelude ==
  /\ guard.kind = "content_safety"
  /\ IF guard.input_family THEN guard.shield ELSE guard.material

Question(c) ==
  IF c > 0 THEN guard.kind ELSE IF guard.input_family THEN "shield" ELSE "material"

FailResult == IF guard.fail_open THEN "allow" ELSE "block"

(* What check returns before it asks for credentials.                        *)
EarlyVerdict ==
  IF guard.blank THEN "allow"
  ELSE IF guard.kind = "topic" /\ guard.calls = 0 THEN "allow"
  ELSE IF ~guard.given THEN (IF guard.require THEN "block" ELSE "allow")
  ELSE IF ~guard.endpoint THEN FailResult
  ELSE "none"

End(verdict) == at' = "done" /\ result' = verdict

(* Every call starts at once; the preliminary one is awaited first.          *)
StartCalls ==
  /\ call' = [c \in Calls |->
                IF c \in MainCalls \/ (c = 0 /\ HasPrelude) THEN Running ELSE NotCalled]
  /\ at' = IF HasPrelude THEN "prelude" ELSE "answers"
  /\ UNCHANGED result

BeginCheck ==
  /\ at = "start"
  /\ IF EarlyVerdict # "none" THEN End(EarlyVerdict) /\ UNCHANGED call
     ELSE IF guard.key THEN StartCalls
     ELSE at' = "token" /\ UNCHANGED <<call, result>>
  /\ UNCHANGED guard

(* _auth_headers: an exception of the credential counts as no token.         *)
TokenComes ==
  /\ at = "token"
  /\ \/ StartCalls
     \/ End(FailResult) /\ UNCHANGED call
  /\ UNCHANGED guard

(* A call ends whether or not anyone still waits for it.                     *)
CallEnds(c) ==
  /\ IsOpen(c)
  /\ \E end \in EndsOf(Question(c)) : call' = [call EXCEPT ![c] = end]
  /\ UNCHANGED <<guard, at, result>>

(* A finding that counts against the text: a severity or a confidence that   *)
(* reaches the threshold, an entity of a category that is looked for, and    *)
(* any attack, blocklist match, category, drift or unsupported claim.        *)
Counts(f) ==
  CASE f.kind = "harm"       -> f.level >= guard.threshold
    [] guard.kind = "pii"    -> /\ f.level >= guard.threshold
                                /\ guard.listed = {} \/ f.kind \in guard.listed
                                /\ f.kind \notin guard.excluded
    [] OTHER                 -> TRUE

Detected(c) == \E f \in call[c].found : Counts(f)

(* Only the PII guard takes an answer without its field for a failure.       *)
Failed(c) ==
  call[c].state \in {"error", "malformed"} \/ (call[c].state = "bare" /\ guard.kind = "pii")

(* Seeded fault: a call that failed has found nothing.                       *)
JudgeFailuresAsClean ==
  IF \A c \in MainCalls : ~Detected(c) THEN "allow"
  ELSE IF guard.kind = "pii" /\ guard.mode # "block" THEN "sanitize"
  ELSE "block"

(* The answers are read in order and the first failure decides, whatever the *)
(* others have found: an exception, or the guard's failure result.           *)
Judge ==
  IF \E c \in MainCalls : Failed(c) THEN
    LET first == CHOOSE c \in MainCalls : Failed(c) /\ \A d \in 1 .. c - 1 : ~Failed(d)
    IN  IF call[first].state = "malformed" THEN "crash" ELSE FailResult
  ELSE IF \A c \in MainCalls : ~Detected(c) THEN "allow"
  ELSE IF guard.kind = "pii" /\ guard.mode # "block" THEN "sanitize"
  ELSE "block"

(* Seeded fault: the analysis is left to itself.                             *)
PreludeEndsAlone ==
  /\ at = "prelude"
  /\ ~IsOpen(0)
  /\ IF call[0].state = "malformed" THEN End("crash")
     ELSE IF Detected(0) THEN End("block")
     ELSE at' = "answers" /\ UNCHANGED result
  /\ UNCHANGED <<guard, call>>

(* A detection cancels the analysis and waits for its end; an error of this  *)
(* call is passed over, whatever fail_open says; a malformed body raises     *)
(* past the analysis.                                                        *)
PreludeEnds ==
  /\ at = "prelude"
  /\ ~IsOpen(0)
  /\ IF call[0].state = "malformed" THEN End("crash")
     ELSE IF ~Detected(0) THEN at' = "answers" /\ UNCHANGED result
     ELSE IF IsOpen(1) THEN at' = "drop" /\ UNCHANGED result
     ELSE End("block")
  /\ UNCHANGED <<guard, call>>

(* The cancelled analysis is over.  A cancellation of the check meanwhile is *)
(* swallowed with it.                                                        *)
AnalysisDropped ==
  /\ at = "drop"
  /\ call' = [call EXCEPT ![1] = IF IsOpen(1) THEN Cancelled ELSE @]
  /\ End("block")
  /\ UNCHANGED guard

AnswersEnd ==
  /\ at = "answers"
  /\ \A c \in MainCalls : ~IsOpen(c)
  /\ End(Judge)
  /\ UNCHANGED <<guard, call>>

(* The call that is awaited goes down with the check.  At the preliminary    *)
(* call nobody cancels the analysis.                                         *)
CancelCheck ==
  /\ at \in {"token", "prelude", "answers"}
  /\ LET awaited == IF at = "prelude" THEN {0} ELSE MainCalls
     IN  call' = [c \in Calls |-> IF c \in awaited /\ IsOpen(c) THEN Cancelled ELSE call[c]]
  /\ End("cancelled")
  /\ UNCHANGED guard

-----------------------------------------------------------------------------
AzureInit ==
  /\ guard \in AzureChecks
  /\ at = "start"
  /\ call = [c \in Calls |-> NotCalled]
  /\ result = "none"

AzureNext ==
  \/ BeginCheck
  \/ TokenComes
  \/ \E c \in Calls : CallEnds(c)
  \/ PreludeEnds
  \/ AnalysisDropped
  \/ AnswersEnd
  \/ CancelCheck

AzureSpec == AzureInit /\ [][AzureNext]_azureVars

-----------------------------------------------------------------------------
(* The type of every variable.                                               *)
AzureTypeOK ==
  /\ at \in {"start", "token", "prelude", "drop", "answers", "done"}
  /\ DOMAIN call = Calls
  /\ \A c \in Calls :
       call[c].state \in {"none", "running", "cancelled", "error", "malformed", "bare", "answered"}
  /\ result \in {"none", "allow", "sanitize", "block", "crash", "cancelled"}
  /\ at = "done" <=> result # "none"

(* Whether Azure was asked at all.                                           *)
Asked == \E c \in Calls : call[c].state # "none"

(* What a guard asks about a text first of all, the main questions, must be  *)
(* answered before it lets the text through, whichever answer came first,    *)
(* and no answer at all may have reported what counts; or the guard is       *)
(* fail_open and could not ask, or got no usable answer to a main question.  *)
(* Then the topic guard, which looks no further than the first error, also   *)
(* overlooks what it was told of another category; the others overlook       *)
(* nothing.  Of whether the preliminary call was answered this says nothing: *)
(* FailClosedIsClosed does.                                                  *)
MainAnswersDecide ==
  result = "allow" /\ EarlyVerdict = "none" =>
    \/ /\ Asked
       /\ \A c \in MainCalls : call[c].state \in {"answered", "bare"} /\ ~Failed(c)
       /\ \A c \in Calls : ~Detected(c)
    \/ /\ guard.fail_open
       /\ Asked => /\ \E c \in MainCalls : Failed(c)
                   /\ \A c \in Calls : Detected(c) => c \in MainCalls /\ guard.kind = "topic"

(* "fail_open: on API errors, allow (True, default) or block"                *)
(* (azure_content_safety.py:47): a guard that is not lets a text through     *)
(* only when every call it made was answered, the preliminary one as well.   *)
FailClosedIsClosed ==
  result = "allow" /\ ~guard.fail_open =>
    \A c \in Calls : call[c].state \in {"none", "answered", "bare"}

(* A verdict is given only when no call of the check is still under way: the *)
(* text is not sent on behind the back of the pipeline.  Only a check that   *)
(* was cancelled, or crashed, at its preliminary call leaves one behind.     *)
NoCallIsLeftBehind ==
  \A c \in Calls :
    at = "done" /\ IsOpen(c) => result \in {"cancelled", "crash"} /\ HasPrelude /\ c = 1
=============================================================================
