------------------------------- MODULE Evaluation -------------------------------
(***************************************************************************)
(* One batch of evaluations (guardrails-service/app/evaluation): for each  *)
(* item the evaluators of its stage run at once, each in the SDK's call in *)
(* a thread of its own; a safety evaluator that hears nothing from the SDK *)
(* asks Content Safety itself; and the results are added up to a verdict.  *)
(* A single evaluation is a batch of one item.                             *)
(*                                                                         *)
(* What the SDK returns is reduced to a label and scores.                  *)
(***************************************************************************)
EXTENDS Integers, Collections

CONSTANTS
  Batches,      (* requests: sequences of items                              *)
  EvalSettings, (* deployments: what is installed and configured             *)
  SdkResults,   (* for each way of grading: results of the SDK               *)
  Severities    (* that Content Safety may report as the worst               *)

ASSUME EvaluationAssumption == Severities \subseteq Nat

VARIABLES
  eval,    (* the deployment                                                 *)
  items,   (* the request                                                    *)
  runs,    (* of each item and evaluator: how far it is                      *)
  reply    (* the status, and the verdict on each item                       *)

evalVars == <<eval, items, runs, reply>>

-----------------------------------------------------------------------------
(***************************************************************************)
(* The evaluators.                                                         *)
(***************************************************************************)
Ingoing  == {"api_input", "input", "tool_input"}
Outgoing == {"output", "tool_output", "api_output"}

Evaluator(category, grading, stages, needs, direct) ==
  [category |-> category, grading |-> grading, stages |-> stages, needs |-> needs,
   direct |-> direct]

Safety(grading, stages, direct) == Evaluator("safety", grading, stages, {"project"}, direct)
Quality(grading, stages, needs) == Evaluator("quality", grading, stages, {"openai"} \cup needs, FALSE)
Overlap == Evaluator("nlp", "overlap", Outgoing, {"ground_truth"}, FALSE)
Everywhere == Ingoing \cup Outgoing

SafetyEvaluators == [
  violence           |-> Safety("harm", Everywhere, TRUE),
  sexual             |-> Safety("harm", Everywhere, TRUE),
  self_harm          |-> Safety("harm", Everywhere, TRUE),
  hate_unfairness    |-> Safety("harm", Everywhere, TRUE),
  indirect_attack    |-> Safety("detection", Ingoing \cup {"tool_output"}, FALSE),
  protected_material |-> Safety("detection", Outgoing, FALSE),
  content_safety     |-> Safety("worst", Everywhere, TRUE)]

QualityEvaluators == [
  groundedness |-> Quality("score", Outgoing, {"context"}),
  coherence    |-> Quality("score", Everywhere, {}),
  fluency      |-> Quality("score", Outgoing, {}),
  relevance    |-> Quality("score", Everywhere, {}),
  similarity   |-> Quality("score", Outgoing, {"ground_truth"}),
  retrieval    |-> Quality("score", Outgoing, {"context"}),
  qa           |-> Quality("average", Outgoing, {"context", "ground_truth"})]

TextEvaluators == [
  bleu_score |-> Overlap, gleu_score |-> Overlap, meteor_score |-> Overlap,
  rouge_score |-> Overlap, f1_score |-> Overlap]

EvaluatorRegistry == Over(SafetyEvaluators, Over(QualityEvaluators, TextEvaluators))
Names == DOMAIN EvaluatorRegistry
Of(e) == EvaluatorRegistry[e]

CanonicalStage(stage) ==
  CASE stage = "llm_input" -> "input" [] stage = "llm_output" -> "output" [] OTHER -> stage

(* The evaluators of a stage, or those among them that are asked for: a name *)
(* that is unknown, or of another stage, is passed over in silence.          *)
EvaluatorsOf(item) ==
  {e \in Names : CanonicalStage(item.stage) \in Of(e).stages /\ (item.all \/ e \in item.asked)}

(* Configuration and fields of the request that an evaluator lacks.          *)
Lacking(item, e) == Of(e).needs \ (eval.has \cup item.has)

Maximum(s) == FoldLeft(LAMBDA a, b : IF a > b THEN a ELSE b, s[1], s)
Total(s) == FoldLeft(LAMBDA a, b : a + b, 0, s)

(* Whether a result passes.  Scores are in tenths; a result without one      *)
(* fails everywhere but in the composite of the safety evaluators.           *)
Passes(grading, raw) ==
  CASE grading = "harm"      -> raw.label = "safe" \/ (raw.scores # << >> /\ raw.scores[1] < 30)
    [] grading = "detection" -> raw.label # "detected"
    [] grading = "worst"     -> raw.scores = << >> \/ Maximum(raw.scores) < 30
    [] grading = "score"     -> raw.scores # << >> /\ raw.scores[1] >= 30
    [] grading = "average"   -> raw.scores # << >> /\ Total(raw.scores) >= 30 * Len(raw.scores)
    [] grading = "overlap"   -> raw.scores # << >> /\ raw.scores[1] > 1

Empty == [label |-> "empty", scores |-> << >>]

Status(passes) == IF passes THEN "passed" ELSE "failed"
Run(at, sdk, worst, status) == [at |-> at, sdk |-> sdk, worst |-> worst, status |-> status]
NotAsked == -1

-----------------------------------------------------------------------------
(* An evaluator that lacks something is skipped, and one that the installed  *)
(* SDK cannot build is an error.                                             *)
FirstRun(item, e) ==
  IF e \notin EvaluatorsOf(item) THEN Run("left_out", Empty, NotAsked, "none")
  ELSE IF ~eval.sdk \/ Lacking(item, e) # {} THEN Run("ended", Empty, NotAsked, "skipped")
  ELSE IF e \in eval.broken THEN Run("ended", Empty, NotAsked, "error")
  ELSE Run("sdk", Empty, NotAsked, "none")

StartEvaluation ==
  /\ reply.status = 0
  /\ runs = << >>
  /\ runs' = [i \in DOMAIN items |-> [e \in Names |-> FirstRun(items[i], e)]]
  /\ UNCHANGED <<eval, items, reply>>

Set(i, e, run) ==
  /\ runs' = [runs EXCEPT ![i][e] = run]
  /\ UNCHANGED <<eval, items, reply>>

IsAt(i, e, place) == runs # << >> /\ runs[i][e].at = place

(* An empty result of a safety evaluator is a skip, and its way to Content   *)
(* Safety if that is configured and has the category.                        *)
SdkReturns(i, e) ==
  /\ IsAt(i, e, "sdk")
  /\ \E raw \in SdkResults[Of(e).grading] :
       Set(i, e,
           IF raw = Empty /\ Of(e).category = "safety"
           THEN Run(IF Of(e).direct /\ eval.direct THEN "direct" ELSE "ended",
                    raw, NotAsked, "skipped")
           ELSE Run("ended", raw, NotAsked, Status(Passes(Of(e).grading, raw))))

SdkRaises(i, e) == IsAt(i, e, "sdk") /\ Set(i, e, Run("ended", Empty, NotAsked, "error"))

(* Seeded fault: the answer does not take the place of the skip.             *)
DirectAnswersInVain(i, e) ==
  /\ IsAt(i, e, "direct")
  /\ \E worst \in Severities : Set(i, e, Run("ended", Empty, worst, "skipped"))

DirectAnswers(i, e) ==
  /\ IsAt(i, e, "direct")
  /\ \E worst \in Severities : Set(i, e, Run("ended", Empty, worst, Status(worst < 40)))

(* Any error of the request leaves the skip.                                 *)
DirectFails(i, e) == IsAt(i, e, "direct") /\ Set(i, e, Run("ended", Empty, NotAsked, "skipped"))

(* The body is parsed outside the try: one of another shape raises.          *)
DirectRaises(i, e) == IsAt(i, e, "direct") /\ Set(i, e, Run("raised", Empty, NotAsked, "none"))

Raised == \E i \in DOMAIN runs : \E e \in Names : runs[i][e].at = "raised"

(* The first exception goes through both gathers: the whole batch fails at   *)
(* once, while its other evaluators go on.                                   *)
FailBatch ==
  /\ reply.status = 0
  /\ Raised
  /\ reply' = [status |-> 500, pass |-> << >>, overall |-> FALSE]
  /\ UNCHANGED <<eval, items, runs>>

(* Seeded fault: an item passes if nothing counts against it, or if a check  *)
(* that went wrong leaves it in doubt.                                       *)
OverallPassInDoubt(i) ==
  \/ \E e \in Names : runs[i][e].status = "error"
  \/ \A e \in Names : Of(e).category \in {"safety", "quality"} => runs[i][e].status # "failed"

(* Only what failed counts, and only in safety and quality.                  *)
OverallPass(i) ==
  \A e \in Names : Of(e).category \in {"safety", "quality"} => runs[i][e].status # "failed"

AnswerBatch ==
  /\ reply.status = 0
  /\ runs # << >>
  /\ \A i \in DOMAIN runs : \A e \in Names : runs[i][e].at \in {"left_out", "ended"}
  /\ LET verdicts == [i \in DOMAIN items |-> OverallPass(i)]
     IN  reply' = [status |-> 200, pass |-> verdicts,
                   overall |-> \A i \in DOMAIN items : verdicts[i]]
  /\ UNCHANGED <<eval, items, runs>>

-----------------------------------------------------------------------------
EvalInit ==
  /\ eval \in EvalSettings
  /\ items \in Batches
  /\ runs = << >>
  /\ reply = [status |-> 0, pass |-> << >>, overall |-> FALSE]

EvalStep(i, e) ==
  SdkReturns(i, e) \/ SdkRaises(i, e) \/ DirectAnswers(i, e) \/ DirectFails(i, e) \/ DirectRaises(i, e)

EvalNext ==
  \/ StartEvaluation
  \/ \E i \in DOMAIN items, e \in Names : EvalStep(i, e)
  \/ FailBatch
  \/ AnswerBatch

EvalSpec == EvalInit /\ [][EvalNext]_evalVars

-----------------------------------------------------------------------------
(* A failure that a safety or quality evaluator has found is never lost:     *)
(* nothing that comes later, from Content Safety, from another evaluator or  *)
(* as an error, takes its place, and once the batch is answered neither its  *)
(* item nor the batch passes.  Only an exception of some evaluator, which    *)
(* leaves no item with a verdict, can keep it from being told, and never     *)
(* does an answer come after one.  (Which results are failures is not asked  *)
(* here: qa passes on its average, whatever its parts.)                      *)
NoFailureIsLost ==
  [][\A i \in DOMAIN runs : \A e \in Names :
       /\ runs[i][e].status = "failed" =>
            /\ runs'[i][e] = runs[i][e]
            /\ reply'.status = 200 /\ Of(e).category \in {"safety", "quality"} =>
                 ~reply'.pass[i] /\ ~reply'.overall
       /\ runs[i][e].at = "raised" => reply'.status \in {0, 500} /\ reply'.pass = << >>]_evalVars
=============================================================================
