-------------------------- MODULE MCGuardrailsService --------------------------
(***************************************************************************)
(* The guardrails service for TLC, part by part: the process with its      *)
(* policies and its cache, a check of an Azure guard, a check of a local   *)
(* guard, a batch of evaluations, and the bearer authentication.  They     *)
(* share no state, so each behaviour runs one of them and leaves the       *)
(* others idle.                                                            *)
(***************************************************************************)
EXTENDS CheckService, AzureGuards, LocalGuards, Evaluation, BearerAuth

VARIABLE part  (* the part that runs                                         *)

serviceVars == <<vars, azureVars, localVars, evalVars, authVars, part>>

ServiceIdle ==
  /\ files = << >> /\ env = << >> /\ capacity = 0 /\ allow = FALSE
  /\ phase = "idle" /\ policies = << >> /\ pipelines = << >>
  /\ cache = << >> /\ used = << >> /\ request = << >>
  /\ answer = [status |-> 0, guards |-> << >>]

AzureIdle == guard = << >> /\ at = "idle" /\ call = << >> /\ result = "none"
LocalIdle == local = [kind |-> "idle"] /\ text = [p \in Pieces |-> 0] /\ entities = << >>
EvalIdle  == eval = << >> /\ items = << >> /\ runs = << >> /\ reply = [status |-> 0]
AuthIdle  ==
  /\ settings = << >> /\ clock = 0 /\ version = 0 /\ lastServed = << >> /\ signing = 0
  /\ discovery = << >> /\ keySet = << >> /\ resolved = {}
  /\ caller = [c \in Callers |-> NewCaller]

Parts ==
  \/ /\ part = "service"
     /\ Init /\ AzureIdle /\ LocalIdle /\ EvalIdle /\ AuthIdle
  \/ /\ part = "azure"
     /\ ServiceIdle /\ AzureInit /\ LocalIdle /\ EvalIdle /\ AuthIdle
  \/ /\ part = "local"
     /\ ServiceIdle /\ AzureIdle /\ LocalInit /\ EvalIdle /\ AuthIdle
  \/ /\ part = "evaluation"
     /\ ServiceIdle /\ AzureIdle /\ LocalIdle /\ EvalInit /\ AuthIdle
  \/ /\ part = "auth"
     /\ ServiceIdle /\ AzureIdle /\ LocalIdle /\ EvalIdle /\ AuthInit

RunService ==
  part = "service" /\ Next /\ UNCHANGED <<azureVars, localVars, evalVars, authVars, part>>
RunAzure ==
  part = "azure" /\ AzureNext /\ UNCHANGED <<vars, localVars, evalVars, authVars, part>>
RunLocal ==
  part = "local" /\ LocalNext /\ UNCHANGED <<vars, azureVars, evalVars, authVars, part>>
RunEvaluation ==
  part = "evaluation" /\ EvalNext /\ UNCHANGED <<vars, azureVars, localVars, authVars, part>>
RunAuth ==
  part = "auth" /\ AuthNext /\ UNCHANGED <<vars, azureVars, localVars, evalVars, part>>

ServiceSpec ==
  Parts /\ [][RunService \/ RunAzure \/ RunLocal \/ RunEvaluation \/ RunAuth]_serviceVars

-----------------------------------------------------------------------------
(***************************************************************************)
(* The process: two policies over two guards, two folders, one of them     *)
(* with whatever an operator may have mounted there.                       *)
(***************************************************************************)
Guard(name, config)    == [guard |-> name, enabled |-> TRUE, config |-> config]
Disabled(name, config) == [guard |-> name, enabled |-> FALSE, config |-> config]

File(form, id, ingoing, outgoing) ==
  [form |-> form, id |-> id,
   stages |-> [s \in Stages |-> CASE s = "input"  -> ingoing
                                  [] s = "output" -> outgoing
                                  [] OTHER        -> << >>]]

Bank ==
  File("policy", "bank",
       <<Guard("pii", "min" :> "low"), Disabled("pii", "min" :> "bad"), Guard("harm", << >>)>>,
       <<Guard("pii", "endpoint" :> "high")>>)

(* The same id, as an operator has changed it.                               *)
Tightened ==
  File("policy", "bank",
       <<Disabled("nosuch", << >>), Guard("harm", "min" :> "high"), Guard("pii", "min" :> "high")>>,
       << >>)

(* One setting no constructor takes: a request that tunes it gets through.   *)
Retail == File("policy", "retail", <<Guard("pii", "min" :> "bad")>>, <<Guard("pii", "min" :> "low")>>)

Typo      == File("policy", "bank", <<Guard("nosuch", << >>)>>, << >>)
Unparsed  == File("unparsed", "bank", << >>, << >>)
Misshapen == File("misshapen", "bank", << >>, << >>)
Listing   == File("raises", "bank", << >>, << >>)

Mounted ==
  {<< >>, <<Bank, Retail>>, <<Bank, Tightened, Retail>>, <<Bank, Typo, Retail>>,
   <<Bank, Unparsed>>, <<Bank, Misshapen>>, <<Bank, Listing>>}

Bounds == {-1, 0, 1, 2}

Tuned(key, value) == [g \in {"pii", "harm"} |-> IF g = "pii" THEN key :> value ELSE << >>]

Variables == {Tuned("endpoint", "low"), Tuned("min", "low")}

AnyOverrides ==
  {<< >>, "pii" :> ("min" :> "low"), "pii" :> ("min" :> "high"), "pii" :> ("min" :> "bad"),
   "pii" :> ("endpoint" :> "high"), "nosuch" :> << >>}

AnyRequest ==
  [policy_id : {"", "retail", "unknown"}, stage : {"llm_input", "output"}, overrides : AnyOverrides]

(***************************************************************************)
(* The Azure guards: each with and without a key, open and closed, and the *)
(* early returns.                                                          *)
(***************************************************************************)
Plain(kind, open, key) ==
  [kind |-> kind, fail_open |-> open, key |-> key, blank |-> FALSE, given |-> TRUE,
   require |-> FALSE, endpoint |-> TRUE, calls |-> 1, input_family |-> TRUE, shield |-> TRUE,
   material |-> FALSE, threshold |-> 4, listed |-> {}, excluded |-> {}, mode |-> "sanitize"]

KindsOfAzure == {"content_safety", "topic", "pii", "groundedness", "adherence"}

OneQuestion == {Plain(kind, open, key) : kind \in KindsOfAzure, open \in BOOLEAN, key \in BOOLEAN}

AnyAzureCheck ==
  OneQuestion
  \cup {[c EXCEPT !.input_family = FALSE, !.material = m] : c \in OneQuestion, m \in BOOLEAN}
  \cup {[c EXCEPT !.calls = n] : c \in {c \in OneQuestion : c.kind = "topic"}, n \in {0, 3}}
  \cup {[c EXCEPT !.listed = {"Email", "Phone"}, !.excluded = {"Phone"}, !.mode = m] :
          c \in {c \in OneQuestion : c.kind = "pii"}, m \in {"sanitize", "block"}}
  \cup {[c EXCEPT !.blank = TRUE] : c \in OneQuestion}
  \cup {[c EXCEPT !.endpoint = FALSE] : c \in OneQuestion}
  \cup {[c EXCEPT !.given = FALSE, !.require = r] :
          c \in {c \in OneQuestion : c.kind \in {"groundedness", "adherence"}}, r \in BOOLEAN}

Finding(kind, level) == [kind |-> kind, level |-> level]
Yes(kind) == {{}, {Finding(kind, 0)}}

WhatAzureReports ==
  [shield |-> Yes("attack"), material |-> Yes("copy"), topic |-> Yes("category"),
   groundedness |-> Yes("claim"), adherence |-> Yes("drift"),
   content_safety |-> {{Finding("harm", 2)}, {Finding("harm", 4)}, {Finding("harm", 0), Finding("list", 0)}},
   pii |-> SUBSET {Finding("Email", 4), Finding("Phone", 4), Finding("Date", 4), Finding("Email", 3)}]

(***************************************************************************)
(* The local guards.                                                       *)
(***************************************************************************)
FourPieces == {"p1", "p2", "p3", "p4"}

Taking(a, b, c, d) == [p1 |-> a, p2 |-> b, p3 |-> c, p4 |-> d]

Settings == [least |-> 0, most |-> 2, threshold |-> 2, configured |-> TRUE, strict |-> FALSE,
             mode |-> "block", pieces |-> 5, entities |-> 0]

AnyLocalCheck ==
  LET Of1(kind, takes) == [kind |-> kind, sees |-> takes] @@ Settings
      Patterns == Of1("pattern", Taking("match", "none", "match", "none"))
      Weights == [weight |-> [p1 |-> 1, p2 |-> 1, p3 |-> 2, p4 |-> 0]]
                     @@ Of1("injection", Taking("match", "match", "match", "none"))
      Bias == Of1("bias", Taking("high", "medium", "low", "unranked"))
      Topic == Of1("topic", Taking("keyword", "phrase", "word", "none"))
      Scope == [block |-> 34, warn |-> 60] @@ Of1("scope", Taking("in", "out", "neither", "out"))
      Source == [block |-> 45, warn |-> 65]
                  @@ Of1("source", Taking("supported", "unsupported", "none", "supported"))
      Schema == [schema |-> "declared", lenient |-> FALSE, fail_open |-> FALSE]
                  @@ Of1("schema", Taking("violation", "none", "raises", "none"))
      Pii == [Of1("pii", Taking("match", "none", "none", "none")) EXCEPT !.pieces = 1, !.entities = 2]
  IN  {Patterns, [Patterns EXCEPT !.mode = "sanitize"], Weights,
       Of1("length", Taking("none", "none", "none", "none"))}
      \cup {[Bias EXCEPT !.least = n] : n \in {0, 3}}
      \cup {[Topic EXCEPT !.least = n, !.configured = c, !.threshold = r] :
              n \in {0, 2}, c \in BOOLEAN, r \in {0, 5}}
      \cup {[Scope EXCEPT !.least = n, !.strict = s] : n \in {0, 3}, s \in BOOLEAN}
      \cup {[c EXCEPT !.block = b] : c \in {Scope, Source}, b \in {0, 101}}
      \cup {[Source EXCEPT !.least = n, !.configured = c, !.strict = s] :
              n \in {0, 3}, c \in BOOLEAN, s \in BOOLEAN}
      \cup {[Schema EXCEPT !.schema = s, !.lenient = l, !.fail_open = l, !.strict = t] :
              s \in {"no_tool", "unknown", "declared"}, l \in BOOLEAN, t \in BOOLEAN}
      \cup {[Pii EXCEPT !.mode = m, !.configured = c] : m \in {"sanitize", "block"}, c \in BOOLEAN}
      \cup {[Pii EXCEPT !.pieces = 0, !.entities = 3, !.mode = "sanitize"]}

(* Every way two or three spans of five characters may lie, with labels      *)
(* shorter and longer than they are.                                         *)
SomeEntities ==
  {e \in [from : 0 .. 4, to : 1 .. 5, label : {1, 3}, score : {2}] : e.from < e.to}
  \cup {[from |-> 1, to |-> 4, label |-> 1, score |-> 1]}

(***************************************************************************)
(* Evaluations.                                                            *)
(***************************************************************************)
Item(stage, asked, has) == [stage |-> stage, all |-> FALSE, asked |-> asked, has |-> has]

SomeBatches ==
  {<<Item("llm_output", {"violence", "indirect_attack", "groundedness"}, {"context"})>>,
   <<Item("tool_output", {"content_safety", "indirect_attack", "nosuch"}, {})>>,
   <<Item("output", {"qa", "bleu_score", "protected_material"}, {"context", "ground_truth"})>>,
   <<Item("input", {"hate_unfairness"}, {}), Item("llm_input", {"relevance", "qa"}, {})>>,
   <<[Item("nosuch", {}, {}) EXCEPT !.all = TRUE]>>}

SomeEvalSettings ==
  LET Full == [sdk |-> TRUE, has |-> {"project", "openai"}, broken |-> {}, direct |-> TRUE]
  IN  {Full, [Full EXCEPT !.direct = FALSE], [Full EXCEPT !.has = {"openai"}],
       [Full EXCEPT !.broken = {"indirect_attack", "qa"}], [Full EXCEPT !.sdk = FALSE]}

Raw(label, scores) == [label |-> label, scores |-> scores]

SomeSdkResults ==
  [harm      |-> {Empty, Raw("safe", <<70>>), Raw("other", <<29>>), Raw("other", <<30>>)},
   detection |-> {Empty, Raw("detected", << >>), Raw("other", << >>)},
   worst     |-> {Empty, Raw("other", << >>), Raw("other", <<0, 30>>), Raw("other", <<29, 0>>)},
   score     |-> {Empty, Raw("other", <<29>>), Raw("other", <<30>>)},
   average   |-> {Empty, Raw("other", <<50, 10>>), Raw("other", <<20, 30>>)},
   overlap   |-> {Empty, Raw("other", <<1>>), Raw("other", <<2>>)}]

(***************************************************************************)
(* Authentication.                                                         *)
(***************************************************************************)
Jwt(issuer, key, audience, expires, app) ==
  [kind |-> "jwt", issuer |-> issuer, key |-> key, audience |-> audience, expires |-> expires, app |-> app]

SomeHeaders ==
  {[kind |-> "missing"], [kind |-> "static", token |-> "right"], [kind |-> "static", token |-> "wrong"],
   Jwt(0, 0, TRUE, 9, "agent"), Jwt(1, 0, TRUE, 9, "agent"), Jwt(0, 1, TRUE, 1, "agent"),
   Jwt(0, 0, TRUE, 9, "stranger"), Jwt(1, 1, FALSE, 9, "agent")}

SomeAuthSettings ==
  LET Full == [mode |-> "static_or_aad", secret |-> "right", tenant |-> TRUE, audience |-> TRUE,
               pyjwt |-> TRUE, pinned |-> {}, apps |-> {"agent"}]
  IN  {Full, [Full EXCEPT !.mode = "aad", !.apps = {}, !.pinned = {"keys"}],
       [Full EXCEPT !.pinned = {"issuer"}], [Full EXCEPT !.pinned = {"issuer", "keys"}],
       [Full EXCEPT !.mode = "static"], [Full EXCEPT !.mode = "aad", !.audience = FALSE],
       [Full EXCEPT !.secret = "", !.tenant = FALSE], [Full EXCEPT !.pyjwt = FALSE]}
=============================================================================
