------------------------------- MODULE AgentTurn -------------------------------
(***************************************************************************)
(* One turn of the banking agent: LangGraphAgent.invoke (agent/app/        *)
(* providers/langgraph_provider.py) with its six calls of the guardrails   *)
(* service through RemoteGuardrailPipeline (agent/app/guardrails_client    *)
(* .py), from the start of the agent, which asks the service once which    *)
(* stages its policy has guards for.                                       *)
(*                                                                         *)
(* The tool calls the LLM plans are numbered in the order it plans them.   *)
(* A tool result is abstracted to the form in which it is passed on.       *)
(***************************************************************************)
EXTENDS Naturals, Sequences, FiniteSets

CONSTANTS
  MaxHops,     (* MAX_TOOL_HOPS: LLM calls in a turn                         *)
  MaxPlan      (* bound: tool calls the LLM plans in one answer              *)

ASSUME TurnAssumption == MaxHops \in Nat /\ MaxPlan \in Nat \ {0}

TurnStages == {"api_input", "input", "output", "api_output"}
ToolStages == {"tool_input", "tool_output"}
Stages     == TurnStages \cup ToolStages

(* _SKIP_IF_EMPTY, and the stages called with fail_closed=True.              *)
SkipIfEmpty == {"api_input", "tool_input", "tool_output", "api_output"}
FailClosed  == {"api_input", "input", "tool_input"}

VARIABLES
  policy,    (* the stages that the service's policy has guards for          *)
  known,     (* those the agent learnt at its start: _policy_guards          *)
  pc,        (* where invoke stands                                          *)
  hops,      (* LLM calls made                                               *)
  planned,   (* tool calls planned so far                                    *)
  cur,       (* the tool call at work; the ones before it are done with      *)
  passed,    (* what each stage of the turn made of its text                 *)
  admitted,  (* what TOOL_INPUT made of each call                            *)
  released,  (* what TOOL_OUTPUT made of each result                         *)
  effects,   (* the calls the bank has been asked to carry out, in order     *)
  conv,      (* the tool messages of "messages"                              *)
  report,    (* tools_called                                                 *)
  reply      (* the answer of the turn                                       *)

turn == <<hops, planned, cur, passed, admitted, released, effects, conv, report, reply>>
vars == <<policy, known, pc, turn>>

(* How a stage came to its decision.                                         *)
Verdict == [way : {"none", "checked", "skipped", "unreachable"},
            decision : {"allow", "sanitize", "block"}]

Unasked == [way |-> "none", decision |-> "block"]

Checked == [way : {"checked"}, decision : {"allow", "sanitize", "block"}]

(* What a call of the service may bring: nothing is asked for a stage that   *)
(* is believed to be empty, and an unreachable service decides by the stage. *)
Verdicts(s) ==
  IF s \in SkipIfEmpty \ known
  THEN {[way |-> "skipped", decision |-> "allow"]}
  ELSE Checked \cup
       {[way |-> "unreachable", decision |-> IF s \in FailClosed THEN "block" ELSE "allow"]}

Let(v) == v.decision # "block"

Answer(text, at) == [text |-> text, blocked_at |-> at]
NoReply          == Answer("none", "none")

(***************************************************************************)
(* The start of the agent.                                                 *)
(***************************************************************************)
(* warmup: on any error the agent goes on with every list empty.             *)
Warmup ==
  /\ pc = "boot"
  /\ known' \in {policy, {}}
  /\ pc' = "api_input"
  /\ UNCHANGED <<policy, turn>>

(***************************************************************************)
(* The four stages of the turn itself.                                     *)
(***************************************************************************)
CheckTurn(s, next) ==
  /\ pc = s
  /\ \E v \in Verdicts(s) :
       /\ passed' = [passed EXCEPT ![s] = v]
       /\ IF Let(v) THEN pc' = next /\ UNCHANGED reply
          ELSE pc' = "done" /\ reply' = Answer("block_message", s)
  /\ UNCHANGED <<policy, known, hops, planned, cur, admitted, released, effects, conv, report>>

CheckApiInput == CheckTurn("api_input", "input")
CheckInput    == CheckTurn("input", "llm")

(* Seeded fault: the reply is sent when OUTPUT let it pass.                  *)
CheckOutputLast == CheckTurn("output", "reply")

CheckOutput    == CheckTurn("output", "api_output")
CheckApiOutput == CheckTurn("api_output", "reply")

SendReply ==
  /\ pc = "reply"
  /\ pc' = "done"
  /\ reply' = Answer("final", "none")
  /\ UNCHANGED <<policy, known, hops, planned, cur, passed, admitted, released, effects, conv,
                 report>>

(***************************************************************************)
(* The hops.                                                               *)
(***************************************************************************)
(* AgentError, or an exception that nothing maps: the turn has no reply.     *)
Fail ==
  /\ pc' = "done"
  /\ reply' = Answer("error", "none")

(* Seeded faults: one hop too many; the budget is noticed one hop late.      *)
CallLLMOnceMore ==
  /\ pc = "llm"
  /\ hops <= MaxHops
  /\ hops' = hops + 1
  /\ \/ pc' = "output" /\ UNCHANGED planned
     \/ \E n \in 1 .. MaxPlan : planned' = planned + n /\ pc' = "tool_input"
  /\ UNCHANGED <<policy, known, cur, passed, admitted, released, effects, conv, report, reply>>

BudgetExhaustedLate ==
  /\ pc = "llm"
  /\ hops > MaxHops
  /\ Fail
  /\ UNCHANGED <<policy, known, hops, planned, cur, passed, admitted, released, effects, conv,
                 report>>

CallLLM ==
  /\ pc = "llm"
  /\ hops < MaxHops
  /\ hops' = hops + 1
  /\ \/ Fail /\ UNCHANGED planned
     \/ pc' = "output" /\ UNCHANGED <<planned, reply>>
     \/ /\ \E n \in 1 .. MaxPlan : planned' = planned + n
        /\ pc' = "tool_input"
        /\ UNCHANGED reply
  /\ UNCHANGED <<policy, known, cur, passed, admitted, released, effects, conv, report>>

BudgetExhausted ==
  /\ pc = "llm"
  /\ hops = MaxHops
  /\ Fail
  /\ UNCHANGED <<policy, known, hops, planned, cur, passed, admitted, released, effects, conv,
                 report>>

(* The next call of this hop, or the next hop.                               *)
NextCall ==
  /\ cur' = cur + 1
  /\ pc' = IF cur < planned THEN "tool_input" ELSE "llm"

Message(content) == [call |-> cur, content |-> content]

(* Seeded faults: a blocked call is recorded but not answered; it is marked  *)
(* as blocked and made all the same.                                         *)
CheckToolInputUntold ==
  /\ pc = "tool_input"
  /\ \E v \in Verdicts("tool_input") :
       /\ admitted' = Append(admitted, v)
       /\ IF Let(v)
          THEN pc' = "tool_call" /\ UNCHANGED <<cur, released, report>>
          ELSE /\ released' = Append(released, Unasked)
               /\ report' = Append(report, Message("refused"))
               /\ NextCall
  /\ UNCHANGED <<policy, known, hops, planned, passed, effects, conv, reply>>

CheckToolInputGoesOn ==
  /\ pc = "tool_input"
  /\ \E v \in Verdicts("tool_input") :
       /\ admitted' = Append(admitted, v)
       /\ pc' = "tool_call"
  /\ UNCHANGED <<policy, known, hops, planned, cur, passed, released, effects, conv, report, reply>>

(* A blocked call is answered with a marker and is not made.  A sanitized    *)
(* one is made as planned: the sanitized text is not used.                   *)
CheckToolInput ==
  /\ pc = "tool_input"
  /\ \E v \in Verdicts("tool_input") :
       /\ admitted' = Append(admitted, v)
       /\ IF Let(v)
          THEN pc' = "tool_call" /\ UNCHANGED <<cur, released, conv, report>>
          ELSE /\ released' = Append(released, Unasked)
               /\ conv' = Append(conv, Message("refused"))
               /\ report' = Append(report, Message("refused"))
               /\ NextCall
  /\ UNCHANGED <<policy, known, hops, planned, passed, effects, reply>>

(* The tool runs, whether its result or an error comes back: a timeout says  *)
(* nothing of what the bank has done.  A tool that does not exist has an     *)
(* error for its result and the bank is not asked.  Arguments that are no    *)
(* JSON, or not those of the tool, raise before the bank is asked.           *)
CallTool ==
  /\ pc = "tool_call"
  /\ \/ effects' = Append(effects, cur) /\ pc' = "tool_output" /\ UNCHANGED reply
     \/ pc' = "tool_output" /\ UNCHANGED <<effects, reply>>
     \/ Fail /\ UNCHANGED effects
  /\ UNCHANGED <<policy, known, hops, planned, cur, passed, admitted, released, conv, report>>

(* Seeded fault: the LLM is given the raw result of a blocked call.          *)
ToldRaw(v) == IF v.decision = "sanitize" THEN "sanitized" ELSE "raw"

(* What the LLM is told, and what the client is shown, of a result.  Only a  *)
(* block reaches the client's copy.                                          *)
Told(v) ==
  IF ~Let(v) THEN "withheld" ELSE IF v.decision = "sanitize" THEN "sanitized" ELSE "raw"
Shown(v) == IF Let(v) THEN "raw" ELSE "withheld"

CheckToolOutput ==
  /\ pc = "tool_output"
  /\ \E v \in Verdicts("tool_output") :
       /\ released' = Append(released, v)
       /\ conv' = Append(conv, Message(Told(v)))
       /\ report' = Append(report, Message(Shown(v)))
  /\ NextCall
  /\ UNCHANGED <<policy, known, hops, planned, passed, admitted, effects, reply>>

-----------------------------------------------------------------------------
Init ==
  /\ policy \in SUBSET SkipIfEmpty
  /\ known = {}
  /\ pc = "boot"
  /\ hops = 0
  /\ planned = 0
  /\ cur = 1
  /\ passed = [s \in TurnStages |-> Unasked]
  /\ admitted = << >>
  /\ released = << >>
  /\ effects = << >>
  /\ conv = << >>
  /\ report = << >>
  /\ reply = NoReply

Next ==
  \/ Warmup
  \/ CheckApiInput
  \/ CheckInput
  \/ CallLLM
  \/ BudgetExhausted
  \/ CheckToolInput
  \/ CallTool
  \/ CheckToolOutput
  \/ CheckOutput
  \/ CheckApiOutput
  \/ SendReply

(* The LLM, the bank and the service are called under a timeout each.        *)
Spec == Init /\ [][Next]_vars /\ WF_vars(Next)

-----------------------------------------------------------------------------
Calls    == 1 .. planned
Contents == {"raw", "sanitized", "withheld", "refused"}
Messages == [call : Nat, content : Contents]

(* The type of every variable.                                               *)
TypeOK ==
  /\ policy \subseteq SkipIfEmpty
  /\ known \in {policy, {}}
  /\ pc \in Stages \cup {"boot", "llm", "tool_call", "reply", "done"}
  /\ hops \in 0 .. MaxHops
  /\ planned \in Nat
  /\ cur \in 1 .. planned + 1
  /\ passed \in [TurnStages -> Verdict]
  /\ admitted \in Seq(Verdict)
  /\ released \in Seq(Verdict)
  /\ effects \in Seq(Nat)
  /\ conv \in Seq(Messages)
  /\ report \in Seq(Messages)
  /\ reply \in [text : {"none", "final", "block_message", "error"},
               blocked_at : TurnStages \cup {"none"}]

Cleared(stages) == \A s \in stages : Let(passed[s])

Made == {effects[i] : i \in DOMAIN effects}

(* The LLM is asked only in a turn whose message both input stages let pass, *)
(* and the bank only for calls that TOOL_INPUT let pass, in order and once   *)
(* for each call; and where the service could not be reached, neither.       *)
EffectsAreCleared ==
  /\ hops > 0 => \A s \in {"api_input", "input"} : Let(passed[s]) /\ passed[s].way # "unreachable"
  /\ effects # << >> => hops > 0
  /\ \A i \in DOMAIN effects :
       /\ effects[i] \in DOMAIN admitted
       /\ Let(admitted[effects[i]])
       /\ admitted[effects[i]].way # "unreachable"
  /\ \A i, j \in DOMAIN effects : i < j => effects[i] < effects[j]

(* A result that TOOL_OUTPUT blocked goes to neither the LLM nor the client, *)
(* and a result it sanitized goes to the LLM in no other form.               *)
BlockedResultsStay ==
  /\ \A i \in DOMAIN conv :
       conv[i].content = "raw" => released[conv[i].call].decision = "allow"
  /\ \A i \in DOMAIN report :
       report[i].content = "raw" => Let(released[report[i].call])

(* The reply of a turn is the LLM's only after all four stages let pass what *)
(* they saw; a block message names the one stage that blocked, the stages    *)
(* before it let pass, and one at an input stage means that neither the LLM  *)
(* nor the bank was asked for anything.                                      *)
ReplyIsCleared ==
  /\ reply.text = "final" => Cleared(TurnStages)
  /\ reply.text = "block_message" =>
       /\ passed[reply.blocked_at].way # "none"
       /\ ~Let(passed[reply.blocked_at])
       /\ reply.blocked_at \in {"output", "api_output"} => Cleared({"api_input", "input"})
       /\ reply.blocked_at = "api_output" => Cleared({"output"})
       /\ reply.blocked_at \in {"api_input", "input"} => hops = 0 /\ effects = << >>

(* Whenever the LLM is called, each tool call it has planned so far has been *)
(* answered by one tool message, in the order planned: the chat API refuses  *)
(* a conversation that leaves a call unanswered.  And whoever gets a reply   *)
(* gets the whole story: tool_calls lists every planned call once, in order, *)
(* says "blocked" of exactly those that TOOL_INPUT blocked, and so of none   *)
(* that the bank was asked for.                                              *)
EveryCallIsTold ==
  /\ pc = "llm" =>
       /\ Len(conv) = planned
       /\ \A c \in Calls : conv[c].call = c
  /\ reply.text \in {"final", "block_message"} =>
       /\ Len(report) = planned
       /\ \A c \in Calls :
            /\ report[c].call = c
            /\ (report[c].content = "refused") <=> ~Let(admitted[c])
       /\ \A c \in Made : c \in Calls /\ report[c].content # "refused"

(* Every turn ends, with a reply or with an error.                           *)
TurnEnds == <>(pc = "done")

(* An input stage that has guards is passed only by asking them: one is      *)
(* passed over only if it is empty (guardrails-service/README.md:722-723),   *)
(* and is closed when the service cannot be reached (README.md:727-729).     *)
InputStagesAreClosed ==
  /\ \A s \in TurnStages \cap FailClosed : passed[s].way = "skipped" => s \notin policy
  /\ \A c \in DOMAIN admitted : admitted[c].way = "skipped" => "tool_input" \notin policy
=============================================================================
