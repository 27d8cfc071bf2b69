---------------------------- MODULE AgentTurnProofs ----------------------------
(***************************************************************************)
(* Proofs about a turn of the agent, for any number of hops and of tool    *)
(* calls planned in each: nothing passes that its stage blocked, and every *)
(* planned call is answered and reported.                                  *)
(***************************************************************************)
EXTENDS AgentTurn, TLAPS

ToolSteps  == {"tool_input", "tool_call", "tool_output"}
BeforeLLM  == {"boot", "api_input", "input"}
AfterInput == ToolSteps \cup {"llm", "output", "api_output", "reply"}

(* An input stage that let its text pass was asked.                          *)
Open(v) == Let(v) /\ v.way # "unreachable"

(* What the stages have made of the turn by the time it stands at pc.        *)
StagesInOrder ==
  /\ pc \in BeforeLLM => hops = 0 /\ effects = << >>
  /\ pc \in AfterInput \cup {"input"} => Open(passed["api_input"])
  /\ pc \in AfterInput => Open(passed["input"])
  /\ pc \in {"api_output", "reply"} => Let(passed["output"])
  /\ pc = "reply" => Let(passed["api_output"])
  /\ pc \in ToolSteps \/ effects # << >> => hops > 0
  /\ hops > 0 => Open(passed["api_input"]) /\ Open(passed["input"])
  /\ pc # "done" => reply = NoReply

(* Every call before the one at work has an answer, a message and an entry.  *)
CallsAreCounted ==
  /\ Len(released) = cur - 1
  /\ Len(conv) = cur - 1
  /\ Len(report) = cur - 1
  /\ Len(admitted) \in {cur - 1, cur}
  /\ pc \in {"tool_call", "tool_output"} => Len(admitted) = cur
  /\ pc \notin {"tool_call", "tool_output", "done"} => Len(admitted) = cur - 1
  /\ pc \in ToolSteps => cur <= planned
  /\ pc \notin ToolSteps \cup {"done"} => cur = planned + 1
  /\ reply.text \in {"final", "block_message"} => cur = planned + 1

MessagesInOrder ==
  /\ \A i \in 1 .. Len(conv) : conv[i].call = i
  /\ \A i \in 1 .. Len(report) : report[i].call = i

(* The calls the bank was asked for, up to the one at work.                  *)
EffectsSoFar ==
  /\ \A i \in 1 .. Len(effects) :
       /\ effects[i] \in 1 .. Len(admitted)
       /\ Open(admitted[effects[i]])
       /\ IF pc = "tool_output" THEN effects[i] <= cur ELSE effects[i] < cur
  /\ \A i, j \in 1 .. Len(effects) : i < j => effects[i] < effects[j]
  /\ pc \in {"tool_call", "tool_output"} => Open(admitted[cur])

(* The report says "refused" of exactly the calls that TOOL_INPUT blocked.   *)
RefusalsAreShown ==
  \A k \in 1 .. Len(report) : (report[k].content = "refused") <=> ~Let(admitted[k])

(* A raw result is one that TOOL_OUTPUT let pass as it was.                  *)
RawIsAllowed ==
  /\ \A i \in 1 .. Len(conv) : conv[i].content = "raw" => released[i].decision = "allow"
  /\ \A i \in 1 .. Len(report) : report[i].content = "raw" => Let(released[i])

IInv ==
  /\ TypeOK
  /\ StagesInOrder
  /\ CallsAreCounted
  /\ MessagesInOrder
  /\ EffectsSoFar
  /\ RefusalsAreShown
  /\ RawIsAllowed
  /\ ReplyIsCleared

-----------------------------------------------------------------------------
(* Appending keeps what was there.                                           *)
LEMMA AppendKeeps ==
  ASSUME NEW S, NEW s \in Seq(S), NEW e \in S
  PROVE  /\ Append(s, e) \in Seq(S)
         /\ Len(Append(s, e)) = Len(s) + 1
         /\ \A i \in 1 .. Len(s) : Append(s, e)[i] = s[i]
         /\ Append(s, e)[Len(s) + 1] = e
         /\ Len(s) \in Nat
OBVIOUS

(* A stage answers with a verdict, and one that fails closed lets a text     *)
(* pass only when it was asked.                                              *)
LEMMA VerdictsAreVerdicts ==
  ASSUME NEW s, NEW v \in Verdicts(s)
  PROVE  /\ v \in Verdict
         /\ v.way # "none"
         /\ s \in FailClosed /\ Let(v) => Open(v)
BY DEF Verdicts, Verdict, Checked, Let, Open

LEMMA UnaskedType == Unasked \in Verdict
BY DEF Unasked, Verdict

LEMMA MessageType ==
  ASSUME TypeOK, NEW c \in Contents
  PROVE  Message(c) \in Messages /\ Message(c).call = cur /\ Message(c).content = c
<1>1. cur \in Nat
  BY DEF TypeOK
<1>2. QED
  BY <1>1 DEF Message, Messages

LEMMA InitHolds == ASSUME Init PROVE IInv
<1>1. /\ admitted = << >> /\ released = << >> /\ effects = << >>
      /\ conv = << >> /\ report = << >>
  BY DEF Init
<1>2. /\ << >> \in Seq(Verdict) /\ << >> \in Seq(Messages) /\ << >> \in Seq(Nat)
      /\ Len(<< >>) = 0
  OBVIOUS
<1>3. TypeOK
  BY <1>1, <1>2, UnaskedType, TurnAssumption
     DEF Init, TypeOK, NoReply, Answer, Stages, TurnStages, SkipIfEmpty
<1>4. StagesInOrder /\ CallsAreCounted /\ ReplyIsCleared
  BY <1>1, <1>2 DEF Init, StagesInOrder, CallsAreCounted, ReplyIsCleared, NoReply, Answer,
     BeforeLLM, AfterInput, ToolSteps
<1>5. MessagesInOrder /\ EffectsSoFar /\ RefusalsAreShown /\ RawIsAllowed
  BY <1>1, <1>2 DEF Init, MessagesInOrder, EffectsSoFar, RefusalsAreShown, RawIsAllowed
<1>6. QED
  BY <1>3, <1>4, <1>5 DEF IInv

-----------------------------------------------------------------------------
(* A step that leaves the calls alone and stays outside the tool steps.      *)
LEMMA CallsUntouched ==
  ASSUME IInv, UNCHANGED <<planned, cur, admitted, released, effects, conv, report>>,
         pc \notin ToolSteps, pc # "done", pc' \notin ToolSteps
  PROVE  CallsAreCounted' /\ MessagesInOrder' /\ EffectsSoFar' /\ RefusalsAreShown'
         /\ RawIsAllowed'
<1>1. CallsAreCounted'
  BY DEF IInv, CallsAreCounted, ToolSteps
<1>2. MessagesInOrder' /\ RefusalsAreShown' /\ RawIsAllowed'
  BY DEF IInv, MessagesInOrder, RefusalsAreShown, RawIsAllowed
<1>3. EffectsSoFar'
  BY DEF IInv, EffectsSoFar, ToolSteps
<1>4. QED
  BY <1>1, <1>2, <1>3

LEMMA WarmupKeeps == ASSUME IInv, Warmup PROVE IInv'
<1>1. TypeOK'
  BY DEF IInv, TypeOK, Warmup, turn, Stages, TurnStages
<1>2. StagesInOrder'
  BY DEF IInv, StagesInOrder, Warmup, turn, BeforeLLM, AfterInput, ToolSteps
<1>3. ReplyIsCleared'
  BY DEF IInv, ReplyIsCleared, Warmup, turn, Cleared
<1>4. QED
  BY <1>1, <1>2, <1>3, CallsUntouched DEF IInv, Warmup, turn, ToolSteps

(* The four stages of the turn and what follows each.                        *)
LEMMA CheckTurnKeeps ==
  ASSUME IInv, NEW s, NEW next, CheckTurn(s, next),
         \/ s = "api_input" /\ next = "input"
         \/ s = "input" /\ next = "llm"
         \/ s = "output" /\ next = "api_output"
         \/ s = "api_output" /\ next = "reply"
  PROVE  IInv'
<1>1. PICK v \in Verdicts(s) :
        /\ passed' = [passed EXCEPT ![s] = v]
        /\ IF Let(v) THEN pc' = next /\ UNCHANGED reply
           ELSE pc' = "done" /\ reply' = Answer("block_message", s)
  BY DEF CheckTurn
<1>2. /\ v \in Verdict /\ v.way # "none"
      /\ s \in FailClosed /\ Let(v) => Open(v)
  BY VerdictsAreVerdicts
<1>3. s \in TurnStages /\ passed \in [TurnStages -> Verdict] /\ pc = s /\ reply = NoReply
  BY DEF TurnStages, IInv, TypeOK, StagesInOrder, CheckTurn
<1>4. /\ passed' \in [TurnStages -> Verdict]
      /\ passed'[s] = v
      /\ \A t \in TurnStages \ {s} : passed'[t] = passed[t]
  BY <1>1, <1>2, <1>3
<1>5. TypeOK'
  BY <1>1, <1>3, <1>4 DEF IInv, TypeOK, CheckTurn, Answer, Stages, TurnStages
<1>6. UNCHANGED <<planned, cur, admitted, released, effects, conv, report, hops>>
  BY DEF CheckTurn
<1>7. pc \notin ToolSteps /\ pc # "done" /\ pc' \notin ToolSteps
  BY <1>1, <1>3 DEF ToolSteps
<1>8. StagesInOrder'
  <2>1. CASE s = "api_input"
    BY <2>1, <1>1, <1>2, <1>3, <1>4, <1>6
       DEF IInv, StagesInOrder, BeforeLLM, AfterInput, ToolSteps, FailClosed, TurnStages
  <2>2. CASE s = "input"
    BY <2>2, <1>1, <1>2, <1>3, <1>4, <1>6
       DEF IInv, StagesInOrder, BeforeLLM, AfterInput, ToolSteps, FailClosed, TurnStages
  <2>3. CASE s \in {"output", "api_output"}
    BY <2>3, <1>1, <1>2, <1>3, <1>4, <1>6
       DEF IInv, StagesInOrder, BeforeLLM, AfterInput, ToolSteps, TurnStages
  <2>4. QED
    BY <2>1, <2>2, <2>3
<1>9. ReplyIsCleared'
  <2>1. CASE Let(v)
    BY <2>1, <1>1, <1>3 DEF ReplyIsCleared, NoReply, Answer
  <2>2. CASE ~Let(v)
    <3>1. reply'.text = "block_message" /\ reply'.blocked_at = s
      BY <2>2, <1>1 DEF Answer
    <3>2. s \in {"output", "api_output"} => Let(passed["api_input"]) /\ Let(passed["input"])
      BY <1>3 DEF IInv, StagesInOrder, AfterInput, Open
    <3>3. s = "api_output" => Let(passed["output"])
      BY <1>3 DEF IInv, StagesInOrder
    <3>4. s \in {"api_input", "input"} => hops = 0 /\ effects = << >>
      BY <1>3 DEF IInv, StagesInOrder, BeforeLLM
    <3>5. QED
      BY <3>1, <3>2, <3>3, <3>4, <2>2, <1>2, <1>4, <1>6
         DEF ReplyIsCleared, Cleared, TurnStages
  <2>3. QED
    BY <2>1, <2>2
<1>10. QED
  BY <1>5, <1>6, <1>7, <1>8, <1>9, CallsUntouched DEF IInv

LEMMA SendReplyKeeps == ASSUME IInv, SendReply PROVE IInv'
<1>1. TypeOK'
  BY DEF IInv, TypeOK, SendReply, Answer
<1>2. StagesInOrder'
  BY DEF IInv, StagesInOrder, SendReply, BeforeLLM, AfterInput, ToolSteps
<1>3. ReplyIsCleared'
  BY DEF IInv, StagesInOrder, ReplyIsCleared, SendReply, Answer, Cleared, TurnStages, Open,
     AfterInput
<1>4. QED
  BY <1>1, <1>2, <1>3, CallsUntouched DEF IInv, SendReply, ToolSteps

(* A turn that ends in an error: nothing else is disturbed.                  *)
LEMMA FailKeeps ==
  ASSUME IInv, Fail, pc \in AfterInput \ {"tool_output"}, hops' \in 0 .. MaxHops, hops' >= hops,
         UNCHANGED <<policy, known, planned, cur, passed, admitted, released, effects, conv,
                     report>>
  PROVE  IInv'
<1>1. TypeOK'
  BY DEF IInv, TypeOK, Fail, Answer
<1>2. hops \in Nat /\ hops' \in Nat
  BY TurnAssumption DEF IInv, TypeOK
<1>3. StagesInOrder'
  BY <1>2 DEF IInv, StagesInOrder, Fail, BeforeLLM, AfterInput, ToolSteps
<1>4. CallsAreCounted'
  BY DEF IInv, CallsAreCounted, Fail, Answer, ToolSteps
<1>5. MessagesInOrder' /\ RefusalsAreShown' /\ RawIsAllowed'
  BY DEF IInv, MessagesInOrder, RefusalsAreShown, RawIsAllowed
<1>6. EffectsSoFar'
  BY DEF IInv, EffectsSoFar, Fail, AfterInput, ToolSteps
<1>7. ReplyIsCleared'
  BY DEF ReplyIsCleared, Fail, Answer
<1>8. QED
  BY <1>1, <1>3, <1>4, <1>5, <1>6, <1>7 DEF IInv

LEMMA BudgetExhaustedKeeps == ASSUME IInv, BudgetExhausted PROVE IInv'
<1>1. hops \in 0 .. MaxHops /\ hops >= hops
  BY TurnAssumption DEF IInv, TypeOK
<1>2. QED
  BY <1>1, FailKeeps DEF BudgetExhausted, AfterInput, ToolSteps

LEMMA CallLLMKeeps == ASSUME IInv, CallLLM PROVE IInv'
<1>1. /\ hops \in Nat /\ hops' = hops + 1 /\ hops' \in 0 .. MaxHops
      /\ planned \in Nat /\ cur = planned + 1 /\ pc = "llm"
  BY TurnAssumption DEF IInv, TypeOK, CallLLM, CallsAreCounted, ToolSteps
<1>2. CASE Fail /\ UNCHANGED planned
  BY <1>1, <1>2, FailKeeps DEF CallLLM, AfterInput, ToolSteps
<1>3. CASE pc' = "output" /\ UNCHANGED <<planned, reply>>
  <2>1. TypeOK'
    BY <1>1, <1>3 DEF IInv, TypeOK, CallLLM, Stages, TurnStages
  <2>2. StagesInOrder'
    BY <1>1, <1>3 DEF IInv, StagesInOrder, CallLLM, BeforeLLM, AfterInput, ToolSteps
  <2>3. ReplyIsCleared'
    BY <1>1, <1>3 DEF IInv, StagesInOrder, ReplyIsCleared, CallLLM, NoReply, Answer
  <2>4. QED
    BY <2>1, <2>2, <2>3, <1>1, <1>3, CallsUntouched DEF IInv, CallLLM, ToolSteps
<1>4. CASE /\ \E n \in 1 .. MaxPlan : planned' = planned + n
           /\ pc' = "tool_input" /\ UNCHANGED reply
  <2>1. planned' \in Nat /\ planned' > planned /\ cur <= planned'
    BY <1>1, <1>4, TurnAssumption
  <2>2. TypeOK'
    BY <1>1, <1>4, <2>1 DEF IInv, TypeOK, CallLLM, Stages, ToolStages
  <2>3. StagesInOrder'
    BY <1>1, <1>4 DEF IInv, StagesInOrder, CallLLM, BeforeLLM, AfterInput, ToolSteps
  <2>4. ReplyIsCleared'
    BY <1>1, <1>4 DEF IInv, StagesInOrder, ReplyIsCleared, CallLLM, NoReply, Answer
  <2>5. CallsAreCounted'
    BY <1>1, <1>4, <2>1 DEF IInv, CallsAreCounted, StagesInOrder, NoReply, Answer, CallLLM,
       ToolSteps
  <2>6. MessagesInOrder' /\ RefusalsAreShown' /\ RawIsAllowed'
    BY DEF IInv, MessagesInOrder, RefusalsAreShown, RawIsAllowed, CallLLM
  <2>7. EffectsSoFar'
    BY <1>1, <1>4 DEF IInv, EffectsSoFar, CallLLM
  <2>8. QED
    BY <2>2, <2>3, <2>4, <2>5, <2>6, <2>7 DEF IInv
<1>5. QED
  BY <1>2, <1>3, <1>4 DEF CallLLM

-----------------------------------------------------------------------------
(* Within the tool steps a turn has no reply.                                *)
LEMMA NoReplyYet ==
  ASSUME IInv, pc \in ToolSteps, UNCHANGED reply
  PROVE  /\ reply = NoReply
         /\ ReplyIsCleared'
         /\ reply'.text \notin {"final", "block_message"}
BY DEF IInv, StagesInOrder, ReplyIsCleared, NoReply, Answer, ToolSteps

(* A call is decided without being made, or after: its answer, its message   *)
(* and its entry are appended and the turn goes on.                          *)
LEMMA AnswerKeeps ==
  ASSUME IInv, pc \in {"tool_input", "tool_output"}, NEW r \in Verdict, NEW c \in Contents,
         NEW d \in Contents,
         released' = Append(released, r),
         conv' = Append(conv, Message(c)),
         report' = Append(report, Message(d)),
         Len(admitted') = cur, admitted' \in Seq(Verdict),
         \A i \in 1 .. Len(admitted) : admitted'[i] = admitted[i],
         NextCall,
         c = "raw" => r.decision = "allow",
         d = "raw" => Let(r),
         d = "refused" <=> ~Let(admitted'[cur]),
         UNCHANGED <<policy, known, hops, planned, passed, effects, reply>>
  PROVE  IInv'
<1>1. /\ cur \in Nat /\ planned \in Nat /\ cur <= planned
      /\ released \in Seq(Verdict) /\ conv \in Seq(Messages) /\ report \in Seq(Messages)
  BY DEF IInv, TypeOK, CallsAreCounted, ToolSteps
<1>2. /\ Message(c) \in Messages /\ Message(c).call = cur /\ Message(c).content = c
      /\ Message(d) \in Messages /\ Message(d).call = cur /\ Message(d).content = d
  BY MessageType DEF IInv
<1>3. /\ released' \in Seq(Verdict) /\ Len(released') = Len(released) + 1
      /\ \A i \in 1 .. Len(released) : released'[i] = released[i]
      /\ released'[Len(released) + 1] = r
  BY <1>1, AppendKeeps
<1>4. /\ conv' \in Seq(Messages) /\ Len(conv') = Len(conv) + 1
      /\ \A i \in 1 .. Len(conv) : conv'[i] = conv[i]
      /\ conv'[Len(conv) + 1] = Message(c)
  BY <1>1, <1>2, AppendKeeps
<1>5. /\ report' \in Seq(Messages) /\ Len(report') = Len(report) + 1
      /\ \A i \in 1 .. Len(report) : report'[i] = report[i]
      /\ report'[Len(report) + 1] = Message(d)
  BY <1>1, <1>2, AppendKeeps
<1>6. /\ Len(released) = cur - 1 /\ Len(conv) = cur - 1 /\ Len(report) = cur - 1
  BY DEF IInv, CallsAreCounted
<1>7. /\ cur' = cur + 1 /\ pc' \in {"tool_input", "llm"}
      /\ pc' = "tool_input" <=> cur < planned
  BY DEF NextCall
<1>8. TypeOK'
  BY <1>1, <1>3, <1>4, <1>5, <1>7 DEF IInv, TypeOK, Stages, ToolStages
<1>9. reply = NoReply /\ ReplyIsCleared' /\ reply'.text \notin {"final", "block_message"}
  BY NoReplyYet DEF ToolSteps
<1>10. StagesInOrder'
  BY <1>7, <1>9 DEF IInv, StagesInOrder, BeforeLLM, AfterInput, ToolSteps
<1>11. CallsAreCounted'
  BY <1>1, <1>3, <1>4, <1>5, <1>6, <1>7, <1>9 DEF CallsAreCounted, ToolSteps
<1>12. MessagesInOrder'
  BY <1>1, <1>2, <1>4, <1>5, <1>6 DEF IInv, MessagesInOrder
<1>13. effects \in Seq(Nat) /\ Len(effects) \in Nat /\ \A i \in 1 .. Len(effects) : effects[i] \in Nat
  BY DEF IInv, TypeOK
<1>14. EffectsSoFar'
  <2>1. ASSUME NEW i \in 1 .. Len(effects)
        PROVE  effects[i] <= cur /\ effects[i] \in 1 .. Len(admitted)
    <3>1. effects[i] \in 1 .. Len(admitted) /\ (effects[i] <= cur \/ effects[i] < cur)
      BY DEF IInv, EffectsSoFar
    <3>2. effects[i] \in Nat
      BY <1>13
    <3>3. QED
      BY <3>1, <3>2, <1>1
  <2>2. Len(admitted) \in Nat /\ Len(admitted) <= cur
    BY <1>1 DEF IInv, CallsAreCounted
  <2>3. ASSUME NEW i \in 1 .. Len(effects)
        PROVE  effects[i] \in 1 .. cur /\ Open(admitted'[effects[i]]) /\ effects[i] < cur + 1
    <3>1. effects[i] <= cur /\ effects[i] \in 1 .. Len(admitted) /\ effects[i] \in Nat
      BY <2>1, <1>13
    <3>2. Open(admitted[effects[i]])
      BY DEF IInv, EffectsSoFar
    <3>3. admitted'[effects[i]] = admitted[effects[i]]
      BY <3>1
    <3>4. QED
      BY <3>1, <3>2, <3>3, <2>2, <1>1
  <2>4. QED
    BY <2>3, <1>7, <1>13 DEF IInv, EffectsSoFar
<1>15. RefusalsAreShown'
  <2>1. ASSUME NEW k \in 1 .. Len(report')
        PROVE  (report'[k].content = "refused") <=> ~Let(admitted'[k])
    <3>1. CASE k \in 1 .. Len(report)
      <4>1. Len(admitted) \in {cur - 1, cur}
        BY DEF IInv, CallsAreCounted
      <4>2. report'[k] = report[k] /\ admitted'[k] = admitted[k]
        BY <3>1, <4>1, <1>1, <1>5, <1>6
      <4>3. (report[k].content = "refused") <=> ~Let(admitted[k])
        BY <3>1 DEF IInv, RefusalsAreShown
      <4>4. QED
        BY <4>2, <4>3
    <3>2. CASE k = cur
      BY <3>2, <1>1, <1>2, <1>5, <1>6
    <3>3. k \in 1 .. Len(report) \/ k = cur
      BY <1>1, <1>5, <1>6
    <3>4. QED
      BY <3>1, <3>2, <3>3
  <2>2. QED
    BY <2>1 DEF RefusalsAreShown
<1>16. RawIsAllowed'
  BY <1>1, <1>2, <1>3, <1>4, <1>5, <1>6 DEF IInv, RawIsAllowed
<1>17. QED
  BY <1>8, <1>9, <1>10, <1>11, <1>12, <1>14, <1>15, <1>16 DEF IInv

LEMMA CheckToolInputKeeps == ASSUME IInv, CheckToolInput PROVE IInv'
<1>1. PICK v \in Verdicts("tool_input") :
        /\ admitted' = Append(admitted, v)
        /\ IF Let(v)
           THEN pc' = "tool_call" /\ UNCHANGED <<cur, released, conv, report>>
           ELSE /\ released' = Append(released, Unasked)
                /\ conv' = Append(conv, Message("refused"))
                /\ report' = Append(report, Message("refused"))
                /\ NextCall
  BY DEF CheckToolInput
<1>2. v \in Verdict /\ (Let(v) => Open(v))
  BY VerdictsAreVerdicts DEF FailClosed
<1>3. /\ cur \in Nat /\ planned \in Nat /\ cur <= planned /\ pc = "tool_input"
      /\ admitted \in Seq(Verdict) /\ Len(admitted) = cur - 1
  BY DEF IInv, TypeOK, CallsAreCounted, ToolSteps, CheckToolInput
<1>4. /\ admitted' \in Seq(Verdict) /\ Len(admitted') = cur
      /\ \A i \in 1 .. Len(admitted) : admitted'[i] = admitted[i]
      /\ admitted'[cur] = v
  BY <1>1, <1>2, <1>3, AppendKeeps
<1>5. UNCHANGED <<policy, known, hops, planned, passed, effects, reply>>
  BY DEF CheckToolInput
<1>6. CASE Let(v)
  <2>1. pc' = "tool_call" /\ UNCHANGED <<cur, released, conv, report>>
    BY <1>1, <1>6
  <2>2. TypeOK'
    BY <2>1, <1>4, <1>5 DEF IInv, TypeOK
  <2>3. reply = NoReply /\ ReplyIsCleared' /\ reply'.text \notin {"final", "block_message"}
    BY <1>3, <1>5, NoReplyYet DEF ToolSteps
  <2>4. StagesInOrder'
    BY <2>1, <2>3, <1>3, <1>5 DEF IInv, StagesInOrder, BeforeLLM, AfterInput, ToolSteps
  <2>5. CallsAreCounted'
    BY <2>1, <2>3, <1>3, <1>4, <1>5 DEF IInv, CallsAreCounted, ToolSteps
  <2>6. MessagesInOrder' /\ RawIsAllowed'
    BY <2>1, <1>5 DEF IInv, MessagesInOrder, RawIsAllowed
  <2>7. EffectsSoFar'
    BY <2>1, <1>2, <1>3, <1>4, <1>5, <1>6 DEF IInv, TypeOK, EffectsSoFar
  <2>8. RefusalsAreShown'
    <3>1. Len(report) = cur - 1
      BY DEF IInv, CallsAreCounted
    <3>2. QED
      BY <3>1, <2>1, <1>3, <1>4 DEF IInv, RefusalsAreShown
  <2>9. QED
    BY <2>2, <2>3, <2>4, <2>5, <2>6, <2>7, <2>8 DEF IInv
<1>7. CASE ~Let(v)
  <2>1. "refused" \in Contents /\ "refused" # "raw"
    BY DEF Contents
  <2>2. QED
    BY <2>1, <1>1, <1>3, <1>4, <1>5, <1>7, UnaskedType, AnswerKeeps
<1>8. QED
  BY <1>6, <1>7

LEMMA CallToolKeeps == ASSUME IInv, CallTool PROVE IInv'
<1>1. /\ cur \in Nat /\ planned \in Nat /\ cur <= planned /\ pc = "tool_call"
      /\ Len(admitted) = cur /\ cur >= 1
  BY DEF IInv, TypeOK, CallsAreCounted, ToolSteps, CallTool
<1>2. CASE Fail /\ UNCHANGED effects
  <2>1. hops \in 0 .. MaxHops /\ hops >= hops /\ UNCHANGED hops
    BY TurnAssumption DEF IInv, TypeOK, CallTool
  <2>2. QED
    BY <2>1, <1>1, <1>2, FailKeeps DEF CallTool, AfterInput, ToolSteps
<1>3. CASE pc' = "tool_output" /\ UNCHANGED <<effects, reply>>
  <2>1. UNCHANGED <<policy, known, hops, planned, cur, passed, admitted, released, conv, report>>
    BY DEF CallTool
  <2>2. TypeOK'
    BY <2>1, <1>3 DEF IInv, TypeOK, Stages, ToolStages
  <2>3. reply = NoReply /\ ReplyIsCleared' /\ reply'.text \notin {"final", "block_message"}
    BY <1>1, <1>3, NoReplyYet DEF ToolSteps
  <2>4. StagesInOrder'
    BY <2>1, <2>3, <1>1, <1>3 DEF IInv, StagesInOrder, BeforeLLM, AfterInput, ToolSteps
  <2>5. CallsAreCounted'
    BY <2>1, <2>3, <1>1, <1>3 DEF IInv, CallsAreCounted, ToolSteps
  <2>6. MessagesInOrder' /\ RefusalsAreShown' /\ RawIsAllowed'
    BY <2>1 DEF IInv, MessagesInOrder, RefusalsAreShown, RawIsAllowed
  <2>7. EffectsSoFar'
    <3>1. effects \in Seq(Nat)
      BY DEF IInv, TypeOK
    <3>2. \A i \in 1 .. Len(effects) : effects[i] \in Nat /\ effects[i] < cur
      BY <3>1, <1>1 DEF IInv, EffectsSoFar
    <3>3. QED
      BY <3>2, <2>1, <1>1, <1>3 DEF IInv, EffectsSoFar
  <2>8. QED
    BY <2>2, <2>3, <2>4, <2>5, <2>6, <2>7 DEF IInv
<1>4. CASE effects' = Append(effects, cur) /\ pc' = "tool_output" /\ UNCHANGED reply
  <2>1. effects \in Seq(Nat)
    BY DEF IInv, TypeOK
  <2>2. /\ effects' \in Seq(Nat) /\ Len(effects') = Len(effects) + 1
        /\ \A i \in 1 .. Len(effects) : effects'[i] = effects[i]
        /\ effects'[Len(effects) + 1] = cur
        /\ Len(effects) \in Nat
    BY <2>1, <1>1, <1>4, AppendKeeps
  <2>3. UNCHANGED <<policy, known, hops, planned, cur, passed, admitted, released, conv, report>>
    BY DEF CallTool
  <2>4. TypeOK'
    BY <2>2, <2>3, <1>4 DEF IInv, TypeOK, Stages, ToolStages
  <2>5. reply = NoReply /\ ReplyIsCleared' /\ reply'.text \notin {"final", "block_message"}
    BY <1>1, <1>4, NoReplyYet DEF ToolSteps
  <2>6. StagesInOrder'
    BY <2>3, <2>5, <1>1, <1>4 DEF IInv, StagesInOrder, BeforeLLM, AfterInput, ToolSteps
  <2>7. CallsAreCounted'
    BY <2>3, <2>5, <1>1, <1>4 DEF IInv, CallsAreCounted, ToolSteps
  <2>8. MessagesInOrder' /\ RefusalsAreShown' /\ RawIsAllowed'
    BY <2>3 DEF IInv, MessagesInOrder, RefusalsAreShown, RawIsAllowed
  <2>9. \A i \in 1 .. Len(effects) : effects[i] \in Nat /\ effects[i] < cur
    BY <2>1, <1>1 DEF IInv, EffectsSoFar
  <2>10. EffectsSoFar'
    BY <2>2, <2>3, <2>9, <1>1, <1>4 DEF IInv, EffectsSoFar
  <2>11. QED
    BY <2>4, <2>5, <2>6, <2>7, <2>8, <2>10 DEF IInv
<1>5. QED
  BY <1>2, <1>3, <1>4 DEF CallTool

LEMMA CheckToolOutputKeeps == ASSUME IInv, CheckToolOutput PROVE IInv'
<1>1. PICK v \in Verdicts("tool_output") :
        /\ released' = Append(released, v)
        /\ conv' = Append(conv, Message(Told(v)))
        /\ report' = Append(report, Message(Shown(v)))
  BY DEF CheckToolOutput
<1>2. v \in Verdict
  BY VerdictsAreVerdicts
<1>3. /\ Told(v) \in Contents /\ (Told(v) = "raw" => v.decision = "allow")
      /\ Shown(v) \in Contents /\ (Shown(v) = "raw" => Let(v)) /\ Shown(v) # "refused"
  BY <1>2 DEF Told, Shown, Contents, Let, Verdict
<1>4. pc = "tool_output" /\ Len(admitted) = cur /\ admitted \in Seq(Verdict)
  BY DEF IInv, TypeOK, CallsAreCounted, CheckToolOutput
<1>5. UNCHANGED <<policy, known, hops, planned, passed, admitted, effects, reply>> /\ NextCall
  BY DEF CheckToolOutput
<1>6. Let(admitted[cur])
  BY <1>4 DEF IInv, EffectsSoFar, Open
<1>7. Shown(v) = "refused" <=> ~Let(admitted'[cur])
  BY <1>3, <1>5, <1>6
<1>8. QED
  BY <1>1, <1>2, <1>3, <1>4, <1>5, <1>7, AnswerKeeps

-----------------------------------------------------------------------------
LEMMA StepKeeps == ASSUME IInv, [Next]_vars PROVE IInv'
<1>1. CASE Warmup
  BY <1>1, WarmupKeeps
<1>2. CASE CheckApiInput
  BY <1>2, CheckTurnKeeps DEF CheckApiInput
<1>3. CASE CheckInput
  BY <1>3, CheckTurnKeeps DEF CheckInput
<1>4. CASE CallLLM
  BY <1>4, CallLLMKeeps
<1>5. CASE BudgetExhausted
  BY <1>5, BudgetExhaustedKeeps
<1>6. CASE CheckToolInput
  BY <1>6, CheckToolInputKeeps
<1>7. CASE CallTool
  BY <1>7, CallToolKeeps
<1>8. CASE CheckToolOutput
  BY <1>8, CheckToolOutputKeeps
<1>9. CASE CheckOutput
  BY <1>9, CheckTurnKeeps DEF CheckOutput
<1>10. CASE CheckApiOutput
  BY <1>10, CheckTurnKeeps DEF CheckApiOutput
<1>11. CASE SendReply
  BY <1>11, SendReplyKeeps
<1>12. CASE UNCHANGED vars
  BY <1>12 DEF vars, turn, IInv, TypeOK, StagesInOrder, CallsAreCounted, MessagesInOrder,
     EffectsSoFar, RefusalsAreShown, RawIsAllowed, ReplyIsCleared, Cleared
<1>13. QED
  BY <1>1, <1>2, <1>3, <1>4, <1>5, <1>6, <1>7, <1>8, <1>9, <1>10, <1>11, <1>12 DEF Next

LEMMA Invariant == Spec => []IInv
<1>1. Init => IInv
  BY InitHolds
<1>2. IInv /\ [Next]_vars => IInv'
  BY StepKeeps
<1>3. QED
  BY <1>1, <1>2, PTL DEF Spec

(* Every variable of a turn keeps its type, for any budget of hops and any   *)
(* number of tool calls planned at once.                                     *)
THEOREM TypeCorrect == Spec => []TypeOK
<1>1. IInv => TypeOK
  BY DEF IInv
<1>2. QED
  BY <1>1, Invariant, PTL

(* The LLM and the bank are asked only for what the input stages let pass    *)
(* after they were asked, and the bank once for each call and in order.      *)
THEOREM EffectsAlwaysCleared == Spec => []EffectsAreCleared
<1>1. ASSUME IInv PROVE EffectsAreCleared
  <2>1. effects \in Seq(Nat) /\ admitted \in Seq(Verdict)
    BY <1>1 DEF IInv, TypeOK
  <2>2. DOMAIN effects = 1 .. Len(effects) /\ DOMAIN admitted = 1 .. Len(admitted)
    BY <2>1
  <2>3. hops > 0 => \A s \in {"api_input", "input"} : Let(passed[s]) /\ passed[s].way # "unreachable"
    BY <1>1 DEF IInv, StagesInOrder, Open
  <2>4. effects # << >> => hops > 0
    BY <1>1 DEF IInv, StagesInOrder
  <2>5. \A i \in 1 .. Len(effects) :
          /\ effects[i] \in 1 .. Len(admitted)
          /\ Let(admitted[effects[i]]) /\ admitted[effects[i]].way # "unreachable"
    BY <1>1 DEF IInv, EffectsSoFar, Open
  <2>6. \A i, j \in 1 .. Len(effects) : i < j => effects[i] < effects[j]
    BY <1>1 DEF IInv, EffectsSoFar
  <2>7. QED
    BY <2>2, <2>3, <2>4, <2>5, <2>6 DEF EffectsAreCleared
<1>2. QED
  BY <1>1, Invariant, PTL

(* No result that TOOL_OUTPUT blocked is passed on, to the LLM or the client.*)
THEOREM BlockedResultsKept == Spec => []BlockedResultsStay
<1>1. ASSUME IInv PROVE BlockedResultsStay
  <2>1. conv \in Seq(Messages) /\ report \in Seq(Messages)
    BY <1>1 DEF IInv, TypeOK
  <2>2. DOMAIN conv = 1 .. Len(conv) /\ DOMAIN report = 1 .. Len(report)
    BY <2>1
  <2>3. QED
    BY <1>1, <2>2 DEF IInv, MessagesInOrder, RawIsAllowed, BlockedResultsStay
<1>2. QED
  BY <1>1, Invariant, PTL

(* A final reply has passed all four stages, and a block message names the   *)
(* stage that blocked.                                                       *)
THEOREM RepliesAreCleared == Spec => []ReplyIsCleared
<1>1. IInv => ReplyIsCleared
  BY DEF IInv
<1>2. QED
  BY <1>1, Invariant, PTL

(* The LLM never sees a planned call without an answer, and the client sees  *)
(* every one of them, marked as blocked exactly if TOOL_INPUT blocked it:    *)
(* what the bank was asked for never passes for a call not made.             *)
THEOREM EveryCallAlwaysTold == Spec => []EveryCallIsTold
<1>1. ASSUME IInv PROVE EveryCallIsTold
  <2>1. effects \in Seq(Nat) /\ DOMAIN effects = 1 .. Len(effects) /\ planned \in Nat
    BY <1>1 DEF IInv, TypeOK
  <2>2. pc = "llm" => Len(conv) = planned /\ \A c \in Calls : conv[c].call = c
    BY <1>1, <2>1 DEF IInv, CallsAreCounted, MessagesInOrder, ToolSteps, Calls
  <2>3. ASSUME reply.text \in {"final", "block_message"}
        PROVE  Len(report) = planned
    BY <1>1, <2>1, <2>3 DEF IInv, CallsAreCounted
  <2>4. ASSUME reply.text \in {"final", "block_message"}, NEW c \in Calls
        PROVE  report[c].call = c /\ ((report[c].content = "refused") <=> ~Let(admitted[c]))
    <3>1. c \in 1 .. Len(report)
      BY <2>3, <2>4 DEF Calls
    <3>2. report[c].call = c
      BY <1>1, <3>1 DEF IInv, MessagesInOrder
    <3>3. (report[c].content = "refused") <=> ~Let(admitted[c])
      BY <1>1, <3>1 DEF IInv, RefusalsAreShown
    <3>4. QED
      BY <3>2, <3>3
  <2>5. ASSUME reply.text \in {"final", "block_message"}, NEW c \in Made
        PROVE  c \in Calls /\ report[c].content # "refused"
    <3>1. PICK i \in 1 .. Len(effects) : effects[i] = c
      BY <2>1 DEF Made
    <3>2. c \in 1 .. Len(admitted) /\ Let(admitted[c]) /\ c <= cur
      BY <1>1, <2>1, <3>1 DEF IInv, TypeOK, EffectsSoFar, Open
    <3>3. pc # "tool_output"
      BY <1>1, <2>5 DEF IInv, StagesInOrder, NoReply, Answer
    <3>4. c < cur /\ cur = planned + 1 /\ cur \in Nat /\ c \in Nat
      BY <1>1, <2>1, <2>5, <3>1, <3>2, <3>3
         DEF IInv, TypeOK, EffectsSoFar, CallsAreCounted
    <3>5. c \in Calls
      BY <3>2, <3>4, <2>1 DEF Calls
    <3>6. QED
      BY <3>2, <3>5, <2>4, <2>5
  <2>6. QED
    BY <2>2, <2>3, <2>4, <2>5 DEF EveryCallIsTold
<1>2. QED
  BY <1>1, Invariant, PTL
=============================================================================
