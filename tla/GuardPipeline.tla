----------------------------- MODULE GuardPipeline -----------------------------
(***************************************************************************)
(* One stage of the guardrails service: GuardrailPipeline._run of          *)
(* guardrails-service/app/core/pipeline.py.  The N guards of a stage are   *)
(* numbered in declaration order.  The code has three ways to run them:    *)
(*                                                                         *)
(*   - "as_completed": fan-out, consuming results as they complete and     *)
(*     cancelling the peers of the first BLOCK (the default),              *)
(*   - "gather": fan-out and a gather of all results                       *)
(*     (GUARDRAILS_CANCEL_ON_BLOCK=0),                                     *)
(*   - "sequential": one guard after the other (GUARDRAILS_SEQUENTIAL=1,   *)
(*     or fewer than two guards).                                          *)
(*                                                                         *)
(* A text is abstracted to where it comes from: 0 is the text the caller   *)
(* sent, g > 0 a text rewritten by guard g.                                *)
(***************************************************************************)
EXTENDS Naturals, Sequences, FiniteSets

CONSTANTS
  N,           (* number of guards of the stage                          *)
  Modes,       (* the modes the two environment variables may select     *)
  MaxCancels   (* bound: how often the server may cancel the request     *)

ASSUME StageAssumption ==
  /\ N \in Nat
  /\ Modes \subseteq {"as_completed", "gather", "sequential"}
  /\ MaxCancels \in Nat

Guards   == 1 .. N
Original == 0
Text     == 0 .. N
Decision == {"allow", "block", "sanitize"}

(* A GuardCheckResult.  kind tells a guard's own answer from the ALLOW the   *)
(* pipeline writes for a crashed guard and for a cancelled one.              *)
Result == [guard : Guards, decision : Decision, text : Text,
           kind : {"answer", "error", "cancelled"}]

NoResult == [guard |-> 0, decision |-> "none", text |-> 0, kind |-> "none"]

CrashResult(g) ==
  [guard |-> g, decision |-> "allow", text |-> Original, kind |-> "error"]

CancelledResult(g) ==
  [guard |-> g, decision |-> "allow", text |-> Original, kind |-> "cancelled"]

(* What guard g may answer about the text it was given: a sanitizing guard   *)
(* rewrites it, a blocking one leaves it or masks it (redact_and_block).     *)
Answers(g) ==
  {[guard |-> g, decision |-> "allow",    text |-> Original, kind |-> "answer"],
   [guard |-> g, decision |-> "sanitize", text |-> g,        kind |-> "answer"],
   [guard |-> g, decision |-> "block",    text |-> Original, kind |-> "answer"],
   [guard |-> g, decision |-> "block",    text |-> g,        kind |-> "answer"]}

VARIABLES
  mode,      (* fixed when the service starts                                 *)
  phase,     (* of the stage's coroutine                                      *)
  task,      (* of each guard's task                                          *)
  returned,  (* what the task of each guard returned                          *)
  queue,     (* tasks done and not consumed yet, in the order they completed  *)
  results,   (* the slots of the list "results"                               *)
  waited,    (* iterations of the as_completed loop that are over             *)
  cancels,   (* cancellations of the request so far                           *)
  verdict    (* the PipelineResult                                            *)

vars == <<mode, phase, task, returned, queue, results, waited, cancels, verdict>>

NoVerdict == [allowed |-> FALSE, text |-> Original, checks |-> << >>]

(***************************************************************************)
(* The walk over the results in slot order: the first BLOCK decides, and   *)
(* otherwise the last SANITIZE gives the text.                             *)
(***************************************************************************)
Earliest(S) == CHOOSE i \in S : \A j \in S : i <= j
Latest(S)   == CHOOSE i \in S : \A j \in S : j <= i

Blockers(res)   == {i \in DOMAIN res : res[i].decision = "block"}
Sanitizers(res) == {i \in DOMAIN res : res[i].decision = "sanitize"}

(* Seeded fault: the working text of a stage that blocks is not updated.     *)
FinalTextKeepsSanitized(res) ==
  IF Sanitizers(res) # {} THEN res[Latest(Sanitizers(res))].text ELSE Original

FinalText(res) ==
  IF Blockers(res) # {} THEN res[Earliest(Blockers(res))].text
  ELSE IF Sanitizers(res) # {} THEN res[Latest(Sanitizers(res))].text
  ELSE Original

Walk(res) ==
  [allowed |-> Blockers(res) = {}, text |-> FinalText(res), checks |-> res]

Decide(res) ==
  /\ verdict' = Walk(res)
  /\ phase' = "decided"

(***************************************************************************)
(* The guards.                                                             *)
(***************************************************************************)
(* Every guard, in every mode, is handed the text the caller sent.           *)
InputOf(g) == Original

Finish(g, r) ==
  /\ task[g] = "running"
  /\ task' = [task EXCEPT ![g] = "done"]
  /\ returned' = [returned EXCEPT ![g] = r]
  /\ queue' = IF mode = "as_completed" THEN Append(queue, g) ELSE queue
  /\ UNCHANGED <<mode, phase, results, waited, cancels, verdict>>

GuardAnswers(g) == \E r \in Answers(g) : Finish(g, r)

(* An exception of a guard is caught and counts as ALLOW.                    *)
GuardCrashes(g) == Finish(g, CrashResult(g))

(* A cancelled task ends.  One that returns all the same, as content safety  *)
(* does when it is cancelled after a Prompt Shields block, ends likewise:    *)
(* the loop has been left and nobody takes its result.                       *)
GuardCancelled(g) ==
  /\ task[g] = "cancelling"
  /\ task' = [task EXCEPT ![g] = "cancelled"]
  /\ UNCHANGED <<mode, phase, returned, queue, results, waited, cancels, verdict>>

CancelRunning ==
  task' = [g \in Guards |-> IF task[g] = "running" THEN "cancelling" ELSE task[g]]

(***************************************************************************)
(* The stage's coroutine.                                                  *)
(***************************************************************************)
CreateTasks ==
  /\ phase = "called"
  /\ mode \in {"as_completed", "gather"}
  /\ phase' = "running"
  /\ task' = [g \in Guards |-> "running"]
  /\ UNCHANGED <<mode, returned, queue, results, waited, cancels, verdict>>

(* Seeded fault: the loop leaves on a BLOCK before it has stored it.         *)
ConsumeNextBreaksFirst ==
  /\ mode = "as_completed"
  /\ phase = "running"
  /\ waited < N
  /\ queue # << >>
  /\ LET r == returned[Head(queue)]
         free == {i \in Guards : task[i] = "done" /\ results[i] = NoResult}
     IN  IF r.decision = "block"
         THEN phase' = "draining" /\ CancelRunning /\ UNCHANGED results
         ELSE results' = [results EXCEPT ![Earliest(free)] = r] /\ UNCHANGED <<phase, task>>
  /\ queue' = Tail(queue)
  /\ waited' = waited + 1
  /\ UNCHANGED <<mode, returned, cancels, verdict>>

(* The slots whose task is done and that hold no result yet.  The code       *)
(* takes the first of them for whichever result it has just awaited.         *)
Unclaimed == {i \in Guards : task[i] \in {"done", "cancelled"} /\ results[i] = NoResult}

ConsumeNext ==
  /\ mode = "as_completed"
  /\ phase = "running"
  /\ waited < N
  /\ queue # << >>
  /\ Unclaimed # {}
  /\ LET r == returned[Head(queue)]
     IN  /\ results' = [results EXCEPT ![Earliest(Unclaimed)] = r]
         /\ IF r.decision = "block"
            THEN phase' = "draining" /\ CancelRunning
            ELSE UNCHANGED <<phase, task>>
  /\ queue' = Tail(queue)
  /\ waited' = waited + 1
  /\ UNCHANGED <<mode, returned, cancels, verdict>>

(* The server cancels the request while the loop awaits: the except clause   *)
(* swallows the cancellation and the iteration is spent.                     *)
SwallowCancel ==
  /\ mode = "as_completed"
  /\ phase = "running"
  /\ waited < N
  /\ cancels < MaxCancels
  /\ cancels' = cancels + 1
  /\ waited' = waited + 1
  /\ UNCHANGED <<mode, phase, task, returned, queue, results, verdict>>

(* Anywhere else a cancellation ends the stage and its guards.               *)
AbortStage ==
  /\ phase = IF mode = "as_completed" THEN "draining" ELSE "running"
  /\ \E g \in Guards : task[g] \in {"running", "cancelling"}
  /\ cancels < MaxCancels
  /\ cancels' = cancels + 1
  /\ phase' = "aborted"
  /\ CancelRunning
  /\ UNCHANGED <<mode, returned, queue, results, waited, verdict>>

(* Seeded faults: the free slots are left empty; the entry written for a     *)
(* cancelled guard looks like its own answer.                                *)
FilledNot == results

FilledUnmarked ==
  [i \in Guards |-> IF results[i] = NoResult
                    THEN [CancelledResult(i) EXCEPT !.kind = "answer"]
                    ELSE results[i]]

Filled ==
  [i \in Guards |-> IF results[i] = NoResult THEN CancelledResult(i) ELSE results[i]]

(* Seeded faults: the loop ends one result early; the cancelled peers are    *)
(* awaited without return_exceptions.                                        *)
DecideOneShort ==
  /\ mode = "as_completed"
  /\ phase = "running" /\ waited >= N - 1
  /\ Decide(Filled)
  /\ UNCHANGED <<mode, task, returned, queue, results, waited, cancels>>

DecideWhenAllDone ==
  /\ mode = "as_completed"
  /\ \/ phase = "running" /\ waited = N
     \/ phase = "draining" /\ \A g \in Guards : task[g] = "done"
  /\ Decide(Filled)
  /\ UNCHANGED <<mode, task, returned, queue, results, waited, cancels>>

(* The loop is over, or every cancelled peer has ended.                      *)
DecideAsCompleted ==
  /\ mode = "as_completed"
  /\ \/ phase = "running" /\ waited = N
     \/ phase = "draining" /\ \A g \in Guards : task[g] \in {"done", "cancelled"}
  /\ Decide(Filled)
  /\ UNCHANGED <<mode, task, returned, queue, results, waited, cancels>>

DecideGather ==
  /\ mode = "gather"
  /\ phase = "running"
  /\ \A g \in Guards : task[g] = "done"
  /\ Decide(returned)
  /\ UNCHANGED <<mode, task, returned, queue, results, waited, cancels>>

(* The sequential loop: the next guard is called when every earlier one has  *)
(* answered and none of them blocked.                                        *)
CallGuard(g) ==
  /\ mode = "sequential"
  /\ phase \in {"called", "running"}
  /\ task[g] = "idle"
  /\ \A h \in 1 .. g - 1 : task[h] = "done" /\ returned[h].decision # "block"
  /\ phase' = "running"
  /\ task' = [task EXCEPT ![g] = "running"]
  /\ UNCHANGED <<mode, returned, queue, results, waited, cancels, verdict>>

(* The loop ends after its last guard or its first BLOCK; a stage without    *)
(* guards ends before its first.                                             *)
DecideSequential(k) ==
  /\ mode = "sequential"
  /\ phase \in {"called", "running"}
  /\ \A h \in 1 .. k : task[h] = "done"
  /\ k = N \/ (k > 0 /\ returned[k].decision = "block")
  /\ Decide(SubSeq(returned, 1, k))
  /\ UNCHANGED <<mode, task, returned, queue, results, waited, cancels>>

-----------------------------------------------------------------------------
Init ==
  /\ mode \in IF N > 1 THEN Modes ELSE {"sequential"}
  /\ phase = "called"
  /\ task = [g \in Guards |-> "idle"]
  /\ returned = [g \in Guards |-> NoResult]
  /\ queue = << >>
  /\ results = [g \in Guards |-> NoResult]
  /\ waited = 0
  /\ cancels = 0
  /\ verdict = NoVerdict

GuardStep(g) == GuardAnswers(g) \/ GuardCrashes(g) \/ GuardCancelled(g)

StageStep ==
  \/ CreateTasks
  \/ ConsumeNext
  \/ DecideAsCompleted
  \/ DecideGather
  \/ \E g \in Guards : CallGuard(g)
  \/ \E k \in 0 .. N : DecideSequential(k)

Next ==
  \/ StageStep
  \/ SwallowCancel
  \/ AbortStage
  \/ \E g \in Guards : GuardStep(g)

(* The event loop runs what is ready, and every guard ends: it computes on   *)
(* the text alone or calls a provider under an HTTP timeout.                 *)
Fairness ==
  /\ WF_vars(StageStep)
  /\ \A g \in Guards : WF_vars(GuardStep(g))

Spec == Init /\ [][Next]_vars /\ Fairness

-----------------------------------------------------------------------------
Slot == Result \cup {NoResult}

(* The type of every variable of the stage.                                  *)
TypeOK ==
  /\ mode \in {"as_completed", "gather", "sequential"}
  /\ phase \in {"called", "running", "draining", "decided", "aborted"}
  /\ task \in [Guards -> {"idle", "running", "done", "cancelling", "cancelled"}]
  /\ returned \in [Guards -> Slot]
  /\ queue \in Seq(Guards)
  /\ results \in [Guards -> Slot]
  /\ waited \in 0 .. N
  /\ cancels \in 0 .. MaxCancels
  /\ verdict \in [allowed : BOOLEAN, text : Text, checks : Seq(Result)]

Decided == phase = "decided"
Allowed == Decided /\ verdict.allowed
Refused == Decided /\ ~verdict.allowed

(* A stage that lets the text through has heard every guard, and none of     *)
(* them blocked: whatever slot the loop stored a result in, no BLOCK is      *)
(* lost.  A swallowed cancellation is the exception, so none is assumed.     *)
AllowHeardEveryGuard ==
  Allowed /\ cancels = 0 =>
    \A g \in Guards : task[g] = "done" /\ returned[g].decision \in {"allow", "sanitize"}

(* A refusal names a guard that really answered BLOCK, and shows its text.   *)
RefusalHasWitness ==
  Refused => \E i \in DOMAIN verdict.checks :
    /\ verdict.checks[i].decision = "block"
    /\ verdict.checks[i] = returned[verdict.checks[i].guard]
    /\ verdict.text = verdict.checks[i].text

(* Nothing in the trace is invented: each check is what the guard it names   *)
(* returned, or a "cancelled" entry.                                         *)
TraceIsGenuine ==
  Decided => \A i \in DOMAIN verdict.checks :
    LET c == verdict.checks[i]
    IN  c = returned[c.guard] \/ (c.kind = "cancelled" /\ c = CancelledResult(i))

(* The trace of a stage lists every guard of the stage (pipeline.py:28-29    *)
(* and 59-60), whatever order their answers came in.                         *)
TraceNamesEveryGuard ==
  Decided => \A g \in Guards : \E i \in DOMAIN verdict.checks : verdict.checks[i].guard = g

(* Every call of a stage comes to an end: no order of completions, crashes   *)
(* and cancellations leaves the loop waiting for a result that never comes.  *)
StageEnds == <>(phase \in {"decided", "aborted"})
=============================================================================
