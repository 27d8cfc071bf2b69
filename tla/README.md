# A TLA+ model of BankBuddy and its guardrails service

The repository holds two systems that work together. The *guardrails service*
answers one question, "may this text pass this stage", by running the guards a
policy lists for the stage. *BankBuddy* is a banking assistant: a web page, an
API with a session cookie, an agent that calls an LLM and the guardrails
service, and a mock bank. This project models the parts in which an order of
events nobody wrote a test for could go wrong, checks them with TLC, and proves
the results that should hold for every size with TLAPS.

Paths below are relative to `src/`; `gs/` is short for `guardrails-service/app/`
and `bb/` for `bankbuddy/services/`.

## 1. Inventory

### Guardrails service

| Part | State | Operations | Hard behaviours | What makes it correct |
|---|---|---|---|---|
| guard stage, `gs/core/pipeline.py`, `gs/core/base.py` | guard tasks, list of results, working text | `check_*` -> `_run` in three modes | completion order, cancelling peers, crashes of guards, cancellation of the request | no BLOCK is lost, refusals have a witness, the text returned is the sanitized one |
| Azure token cache, `gs/core/aad_cache.py` | cached token, async lock, fetches in executor threads | `get_bearer_token`, `invalidate` | double-checked lock, cancelled holders and waiters, failed fetches | lock never stuck, refreshes coalesced, never a due token from the cache |
| shared Azure HTTP client, `gs/core/azure_http.py`, `gs/core/guards/_azure_base.py` | the global `_client` | `get_client`, `aclose`, `_post_json` with one retry | concurrent resets, cancellation inside a reset | a closed client does not stay, clients are bounded |
| check handler, override cache, `gs/main.py` | pipelines by policy, LRU of override pipelines | `/v1/check`, readiness | pipelines cached for other requests, policy without a pipeline, bound of the cache | a request runs what its policy and its own overrides define |
| policy loader, registry, `gs/policies/loader.py`, `gs/core/registry.py` | policies read at start | load, merge, validate overrides | shadowing between directories, malformed files | precedence, disabled guards never run |
| bearer authentication, `gs/auth.py` | discovery document with its time, the key set and keys of `PyJWKClient` | `require_bearer` | overlapping fetches, a document and a key set that age apart, a tenant that changes its issuer and key | no issuer is trusted for longer than the lifetime, and no key the tenant never published |
| Azure guards, `gs/core/guards/azure_*.py` | tasks of one check | `check` by HTTP | fan-out, `fail_open`, errors among answers, cancellation | what the main calls answered decides; an error is let through only where `fail_open` says so; no call is left running |
| local guards, `gs/core/guards/*.py` | none | `check`, redaction | overlapping entities, thresholds that interact | more harm never brings a milder verdict; what is found is redacted |
| evaluation, `gs/evaluation/` | results of a batch | evaluators in threads, retry without the SDK, aggregation | partial failure, exceptions through two gathers | no failure that was found is lost |
| observability, `gs/core/observability.py` | counters, spans | emit | none | nothing reads it back |

### BankBuddy

| Part | State | Operations | Hard behaviours | What makes it correct |
|---|---|---|---|---|
| web UI and its proxy, `bb/ui/` | whom the page shows, the name it remembers, chats under way, the cookie jar of the proxy's client | load, sign in, silent sign-in, chat, sign out | several tabs share the cookie, all browsers share the jar, retries, timeouts | a message is acted on once, for whom the page shows |
| api service and sessions, `bb/api/app/` | none: the session is a JWT in a cookie | exchange, `/me`, `/chat`, logout | expiry between requests, timeout of the agent call | the principal is whom the browser's cookie names |
| agent turn, `bb/agent/app/providers/langgraph_provider.py`, with `guardrails_client.py`, `main.py`, `banking_tools.py` | messages, tools_called, hops, lists of guards learnt at start | `warmup`, `invoke` | stages skipped, fail-open and fail-closed in one turn, blocked calls among made ones | nothing acts uncleared, blocked results stay, each call answered and reported |
| mock bank: transfers, `bb/mock-bank/app/repositories.py`, `routers.py` | rows of accounts and transactions | `POST /transfers` | row locks, deadlock, broken connections, rounding | atomicity, no overdraft, the books balance |
| mock bank: cards, ATMs, loans, seed | other rows | mostly reads | two replicas seed at once | |
| LLM client, `bb/agent/app/llm/` | token provider | chat | timeouts | |
| shared contracts, deployment | | | | |

### How they interact

The page posts a message to its proxy, the proxy to the API, which names the
user from the cookie and asks the agent. The proxy uses one HTTP client for all
browsers, which keeps the cookies of the API and lends them to requests that
carry none. One turn of the agent asks the
guardrails service up to four times for the turn (`api_input`, `input`,
`output`, `api_output`) and twice for each tool call (`tool_input`,
`tool_output`), all by HTTP with a timeout. The service authenticates the
request, finds the pipeline, and runs one stage; the guards of a stage share the
token cache and the HTTP client, on one event loop, and the stage may cancel
them at any await. A tool call is an HTTP request to the mock bank, which runs
each request in a thread of its own with a database session of its own;
concurrent requests meet only in the database. No hop cancels the next: whoever
stops waiting leaves the work going on.

## 2. Modules

| Module | Models | Extends or uses |
|---|---|---|
| `StageVerdict` | what a stage promises, whatever its mode | |
| `GuardPipeline` | `GuardrailPipeline._run` task by task | |
| `AtomicTransfers` | what the bank promises of transfers | |
| `MockBank` | `POST /transfers` with locks and commits | instance of `AtomicTransfers` |
| `AgentTurn` | `LangGraphAgent.invoke` and the guardrails client | |
| `ChatPath` | a message from tabs of a browser over proxy and API to a turn and its transfers | composes what `AgentTurn` and `MockBank` say of one turn and one order |
| `CheckService` | the start of the service, `/v1/check` up to its stage, the cache of override pipelines | |
| `BearerAuth` | `require_bearer`, the discovery document and the keys of `PyJWKClient` | |
| `AzureGuards` | `check` of the five Azure guards | |
| `LocalGuards` | the verdicts of the other guards, redaction of entities | |
| `Evaluation` | a batch of evaluations and its verdicts | |
| `AadTokenCache` | `get_bearer_token` for one scope | |
| `AzureClient` | `get_client`, `aclose`, `_post_json` | |
| `Collections` | dict merge, item assignment and list comprehension, as definitions a proof can expand | used by `CheckService`, `LocalGuards`, `Evaluation` |
| `MCGuardPipeline` | the refinement mapping of the stage | instance of `StageVerdict` |
| `MCGuardrailsService` | `CheckService`, `AzureGuards`, `LocalGuards`, `Evaluation` and `BearerAuth`, one in each behaviour | extends the five |
| `MCAzureAccess` | `AadTokenCache` or `AzureClient` in each behaviour | extends the two |
| `MCMockBank`, `MCChatPath` | values of the constants | the module named |
| `CollectionProofs` | lemmas: induction, recursion, sums, folds, lists | `Collections`, the library's theorems, `TLAPS` |
| `GuardPipelineProofs`, `MockBankProofs`, `AgentTurnProofs`, `ChatPathProofs`, `AadTokenCacheProofs` | theorems | the module named, `TLAPS` |
| `GuardsProofs` | theorems of `AzureClient`, `AzureGuards` and `LocalGuards` | the three, `CollectionProofs` |
| `ServiceProofs` | theorems of `CheckService`, `Evaluation` and `BearerAuth` | the three, `CollectionProofs` |

**GuardPipeline.** `mode` is what `GUARDRAILS_SEQUENTIAL` and
`GUARDRAILS_CANCEL_ON_BLOCK` select. `task` and `returned` are the asyncio tasks,
`queue` the completed ones that `asyncio.as_completed` has not handed out,
`results` the list of that name. One iteration of the `as_completed` loop is
`ConsumeNext`: the code does not know which task it has just awaited and stores
the result in the first slot whose task is done and that is still empty, so a
result may land in the slot of another guard. The first BLOCK cancels the tasks
that are not done (`phase = "draining"`) and `DecideAsCompleted` follows when
`gather` has collected them; a cancelled guard that returns all the same, as
content safety can (`azure_content_safety.py:129-134`), returns to nobody.
`SwallowCancel` is the `except CancelledError` of
the loop met by a cancellation of the request itself. `FinalText` is the walk
over the results after any of the three ways. A text is the number of the guard
that rewrote it, 0 for the caller's.

**MockBank.** `Select` issues `SELECT ... FOR UPDATE`; the statement has no
`ORDER BY`, so it may reach its rows in any order (`Scans`); `LockRow` locks and
reads one row; `Reject` is every check on the rows; `Commit` writes both balances
from the values read, both ledger entries, and commits; `Reply` reads the
balances back. `AbortDeadlock` is the detector of the database and
`LoseConnection` a broken connection before or after the commit. Money is counted
in units, `Cent` of them to a cent, as a request may name fractions of a cent
which the columns round away.

**AgentTurn.** `pc` follows `invoke`; each stage is one action with the outcomes
of `RemoteGuardrailPipeline._check`: skipped when the agent believes the stage to
be empty, answered by the service, or decided by `fail_closed` when the service
cannot be reached. `Warmup` asks once for the stages that have guards. Planned
calls are numbered; `conv` is the tool messages the LLM sees, `report` is
`tools_called`, `effects` the calls that reached the bank. A call reaches it, is
turned into an error because the dispatcher does not know the tool
(`banking_tools.py:150`, caught at 116), when the turn goes on with that error for a
result, or ends the turn (`CallTool`).

**ChatPath.** `cookie` and `stored` (the local storage) belong to the browser,
`tab` to each page: whom it shows (`me`), the name it would silently sign in
again (`last`), and its requests under way. `call` is `api.chat` of each message,
`flight` a request that has left the page with the cookie of that moment, `turn`
what the agent does with it. `Refuse` is a 401: the first brings the silent
sign-in (`SignInAgain`, `Redirect`, `ReauthFails`), the second an error. `GiveUp`
stands for the proxy's 60 and the API's 180 seconds, `LoseOrder` for the bank
client's 10; neither takes anything back, so `Accept`, `EndTurn` and
`CarryOutLate` may follow. Each answer of a server is one action with the client
code that awaits it. `jar` is the cookie that the proxy's one `httpx` client keeps
(`ui/app/main.py:24-26`, 72-79): the client stores what the API sets for any browser
and adds it to a request that has no `Cookie` header, so `Principal` is the cookie
of the request or, without one, whoever the jar names. `Elsewhere` is another
browser signing in or out; an answer that is lost on its way to the page has still
set the jar. `Lapsed` marks a request whose cookie has ended: it has a header, so
the jar is not asked. `clean` is history: it says in which tab no exchange of
identity has crossed another one since the page was loaded, and whose page was not
filled from the jar.

**CheckService.** `Start` is `lifespan` with `load_policies` and
`build_pipeline`: `LoadPolicies` folds over the files in reading order, passing
over what is not YAML, misshapen or names an unknown guard; a file that cannot be
decoded, a document that is no mapping, a list as the config of a guard
(`loader.py:90`) or an id that cannot be hashed raises an exception that nothing
catches (`FailToStart`). `Check` has one
disjunct for each way `/v1/check` can end before its stage: 404, 403, 400, 503,
500, or the list of guards to run, taken from the policy's pipeline, from the
cache, or built and cached. A pipeline is, for each stage, the sequence of its
guards with their merged configuration; a configuration is a function from some
keys to values, so that overrides that differ only in the order of their keys are
equal, as in the code's canonical JSON. The handler is one step because nothing
in it lets go of the event loop before the stage is awaited: `aclose` of an
evicted pipeline awaits guards whose `aclose` does nothing.

**BearerAuth.** `RequireBearer` is the handler up to its end or to a fetch, which
FastAPI's thread pool may run several times at once. The document and the keys are
two caches. `TenantAnswers` fixes the document that is on its way, `KeepDocument`
stores it with the time read before the fetch, `FetchFails` is a 401. `FindKey` is
`get_signing_key_from_jwt`: a key found once (`resolved`, `cache_keys=True` at
`auth.py:76`) is never looked for again; otherwise it must be in a key set (`keySet`)
no older than `lifespan`, or the keys are fetched (`FetchKeys`, `KeysFail`). The
issuer (`version`) and the key (`signing`) change apart, by `Rotate` and `RotateKey`;
a deployment may pin the issuer, the address of the keys, or both. `lastServed` is
history. The caches inside `PyJWKClient` are modelled from how `auth.py` sets them
up, and marked external.

**AzureGuards.** `BeginCheck` has every early return; `TokenComes` is the await of
the token; `StartCalls` starts the task of each question, the preliminary one of
content safety (prompt shield or protected material) beside the harm analysis.
`PreludeEnds` awaits it and on a detection cancels the analysis
(`AnalysisDropped`); `Judge` reads the answers in order, where the first error
returns before later answers are looked at. A call may end in an error, with a
body of another shape, without the field looked for, or with findings. The error
of a preliminary call is passed over whatever `fail_open` says, as in the code.

**LocalGuards.** A text is a bag of pieces, each of which the guard takes for
something; one operator for each guard gives the verdict from the counts
(`PatternVerdict` serves the four that block a match and the one that replaces
it; of toxicity it is the engine that goes by words, the `detoxify` engine of
`toxicity.py:64-75` scores the whole text and is left out). Thresholds are those of
the guard's configuration, in percent for the two guards that compare a share
(`Scored`). Whether the validator of a schema raises depends on the text: a piece it
breaks on hides every violation, which under `fail_open` lets them all through.
`Write` adds a piece and `Report` an entity of Presidio, so that every step
compares a text with a longer one. `Replace` cuts and pastes as the Python slices
do. The code sorts the entities by their start, in reverse, and Python's sort keeps
the order of those that start together: `Leftmost` is the entity that comes last
in this order, and `Redact` replaces it after all others have been replaced.

**Evaluation.** `EvaluatorRegistry` is the registry with the stages and needs of
each evaluator. `StartEvaluation` decides for each item who is left out, skipped
or in error; `SdkReturns` and `SdkRaises` end a call of the SDK, an empty result
of a safety evaluator goes to Content Safety itself (`DirectAnswers`,
`DirectFails`, `DirectRaises`); `FailBatch` and `AnswerBatch` are the two ends.

**AadTokenCache.** `CallFast` and `CallSlow` are the two looks at the cache and
the `async with` of the lock; a thread of the executor (`thread`) goes on when
its caller is cancelled. `Age` is time passing over the skew and the expiry.

**AzureClient.** The clients are numbered; `current` is the global. `MeetStale`
is the `except` for protocol errors in `_post_json`; a reset is split at the one
await in it, the close of the old client (`BeginReset`, `FinishReset`).

Code without an await between two effects is one action, as nothing else of the
event loop can run between them. Definitions introduced by the comment "Seeded
fault" are not part of any specification: each is a variant of one definition
with a plausible mistake, kept to show that the property beside it can fail.

## 3. What TLC checks

| Run | Instance | Properties |
|---|---|---|
| `guard_stage` | 3 guards, all modes, 1 cancellation | `TypeOK`, `AllowHeardEveryGuard`, `RefusalHasWitness`, `TraceIsGenuine`, `StageEnds`, `KeepsPromise` (refines `StageVerdict`) |
| `stage_trace` | 2 guards, default mode | `TraceNamesEveryGuard`, violated |
| `bank_transfers` | 3 requests, any of 6 orders each | `TypeOK`, `NoOverdraft`, `AnswersAreTrue`, `BooksBalance`, `TransfersAreAtomic` (refines `AtomicTransfers`), `EveryRequestAnswered` |
| `bank_deadlock` | 2 requests | `NoDeadlock`, violated |
| `agent_turn` | 2 hops, 2 calls planned in each | `TypeOK`, `EffectsAreCleared`, `BlockedResultsStay`, `ReplyIsCleared`, `EveryCallIsTold`, `TurnEnds` |
| `agent_warmup` | 1 hop, 1 call | `InputStagesAreClosed`, violated |
| `azure_access` | two parts, one in each behaviour | token cache, 4 callers, token becomes due twice: `TypeOK`, `LockIsSound`, `RefreshesAreCoalesced`, `FreshTokensStay`, `EveryCallerIsServed`; HTTP client, 3 guards, 3 closes by the server: `ClientTypeOK`, `ClosedClientIsLeaving`, `ClientsAreAccounted`, `EveryCallEnds` |
| `azure_cancel` | 2 guards, 1 close | `ResetRestores`, violated |
| `chat_path` | 2 tabs, 2 people, 2 messages, 1 transfer, 3 events | `OneTurnPerMessage`, `ReplyCoversTheMoney`, `ShownUserActs`, `EverySendSettles` |
| `chat_jar` | 1 tab, 1 message, 2 events | `NoSessionIsRefused`, violated |
| `guardrails_service` | five parts, one in each behaviour | policies and cache: `LastGoodFileRules`, `ServedAsConfigured`, `CacheKeepsRecent`; Azure guards: `MainAnswersDecide`, `NoCallIsLeftBehind`; local guards: `NothingHelpsHarm`, `RedactionIsSafe`; evaluation: `NoFailureIsLost`; authentication: `AcceptedIsTrusted` |
| `azure_closed` | the Azure guards of `guardrails_service`, 1 main call | `FailClosedIsClosed`, violated |

What the passing runs show, beyond one instance of each theorem of section 4:

* `EveryCallIsTold`: the model gets one tool message for each call it planned, and a
  reply lists them all and marks as blocked exactly those `TOOL_INPUT` blocked; a
  call of an unknown tool, which asks nobody, is told like any other.
* `ShownUserActs`: a turn that starts on a cookie of the browser's own is for the
  user its page shows, across expiries, silent sign-ins and sign-outs and whatever
  other browsers do, as long as the sign-ins of the browser do not cross. Without
  that condition it is false, as "Observed while reading" says below; of a request
  without a cookie `chat_jar` shows that it is served.
* `MainAnswersDecide`: an Azure guard that is not `fail_open` lets a text through
  only when every main call was answered and no call found anything; one that is
  may besides when it could not ask or a main call failed. Whether the preliminary
  call was answered is not part of it: `azure_closed` shows what becomes of that.
* `EverySendSettles` and the other five liveness properties: nothing waits for
  ever, whatever is cancelled, lost or timed out.
* `NothingHelpsHarm`: nobody gets a text past a local guard by adding more of
  what it looks for, and nothing that speaks for a text turns a guard stricter,
  although thresholds, minimum lengths and the order of tests interact. Weights of an
  injection are natural numbers: a negative one, which `prompt_injection.py:57-59`
  would take, makes it false.
* `RedactionIsSafe`: entities that do not overlap are replaced exactly; those that
  do leave nothing as long as no label is longer than what it replaces.
* `NoFailureIsLost`: a failure that an evaluator of safety or quality has found is
  neither replaced nor overruled by anything that ends later, and no verdict follows
  an exception. What counts as a failure is not asked: see `qa` below.
* `AcceptedIsTrusted`: the issuer of an accepted token is pinned or stood in a
  document that the tenant served within its lifetime, whatever fetches overlap. Of
  the key it says only that the tenant has published it.
* `LastGoodFileRules`, `ServedAsConfigured`, `CacheKeepsRecent`: no bad file hides a
  good one, no request is served with another request's overrides, and no refused
  request displaces a cached pipeline.

### Bounds

* `guard_stage`: three guards, one that blocks, one that is finished but not
  consumed, one that still runs when the peers are cancelled. Two exchange slots
  already; a third shows that an exchange does not lose the BLOCK. `MaxCancels = 1`:
  a second cancellation of one request meets a coroutine in the same states.
* `bank_transfers`: three requests, as two can deadlock or lose an update and the
  third can come between the commit and the answer. The six orders are transfers
  both ways between two accounts of one customer, one of the whole balance (so that
  a second one is refused for want of funds) and one of half a cent, and one order
  for each other refusal: the same account twice, an account that does not exist,
  an account of another customer, a customer that does not exist. Every assignment
  of orders to requests is tried. `Cent = 2` makes half a cent one unit, the only
  tie.
* `agent_turn`: two hops, of which the second is the first with earlier messages in
  the conversation, and the last, after which the budget is exhausted. Two calls:
  one blocked before one made, and the other way round. The code's six hops repeat
  the second.
* `azure_access`, token cache: four callers, a holder, two waiters of which one is
  cancelled, and one that arrives late. `MaxAgings = 2` lets a token fall due
  while a refresh is under way and again after it.
* `azure_access`, client: three guards and three closes, so that two guards reset
  concurrently while a third sends. The two parts share no state, and a guard has
  its token before it posts, so they are checked one at a time.
* `chat_path`: two tabs of one browser, since every surprise is between two. Two
  messages, one in each tab or one after the other in one. `MaxEvents = 3` page
  loads, sign-ins, sign-outs, expiries and changes of the jar by other browsers, after
  one of four earlier visits: a known
  name without a session, with one, with the session of somebody else, and a browser
  that keeps no storage. One transfer: the account of each turn is its own.
* `guardrails_service`, policies: two ids, seven sets of mounted files (none, two
  good policies, a good file replacing one of the same id, and each way a file may
  be bad), 36 requests, two environments, bounds of the cache from -1 to 2. Four
  pairs of a policy and an override can be served, twice what the largest cache
  holds; the history is kept as the order of last uses only, so requests come in
  any number.
* Azure guards: each kind with and without a key and `fail_open`, both families of
  stages, every early return, PII with and without lists of categories, and up to
  `MaxCalls = 3` categories of a topic guard: one that fails, one that finds
  something, one that is clean, in every order. Severities and confidences lie on
  both sides of the threshold.
* Local guards: texts of up to five pieces of four kinds, enough to cross every
  threshold of a share (34, 45, 60 and 65 per cent, and 0 and 101, which nothing and
  everything is below) and of a count; two entities
  of every shape in five characters, and three with short labels.
* Evaluation: five batches of one or two items, chosen so that each way of grading,
  each stage name, each missing field and an unknown name occurs; scores and
  severities on both sides of their thresholds; five deployments.
* Authentication: two requests, a document that lives one tick of a clock of two
  (`MaxTicks`), a key set of the same tick only (`KeyLifetime = 0`: PyJWT counts a
  set of just that age as fresh), and one change each of issuer and key
  (`MaxRotations`), so that a fetch can begin under the old ones and end after
  newer ones were stored, and a document can be too old when it is stored; eight
  headers and eight deployments.
* `chat_jar`, `azure_closed`: the least instances that show the violation.

### Fairness

Weak fairness only, per actor. In `GuardPipeline`, `AadTokenCache` and
`AzureClient` an event loop runs every task that is ready, and everything a guard
awaits ends: local guards compute on the text, HTTP requests and credentials have
timeouts. In `MockBank` each request has a thread and every statement ends: a
waiting lock is granted after its holder's transaction ends and the database
breaks cycles. Strong fairness is not needed for the locks there since a request
is finite and is never repeated. In `AgentTurn` every call is under a timeout. In
`ChatPath` each message has its `Progress`: the server answers, the agent's turn
ends (`TurnEnds`), the bank answers (`EveryRequestAnswered`), and the client's code
runs on when an answer is there; people, expiries, orders and timeouts are not
forced. Nothing is assumed of cancellations, crashes, lost connections, closes by
the server or time, which may or may not happen. `CheckService`, `BearerAuth`,
`AzureGuards`, `LocalGuards` and `Evaluation` state no fairness, and no liveness.

Deadlock checking is off where the system stops by design: a stage that has
decided, a bank that has answered every request, a turn, a check or a batch that
is over, a browser whose bounded messages and events are spent.

### Where the code and its documents disagree

* `stage_trace`: `pipeline.py:228-231` means to map a completed task back to its
  index; the loop takes the first finished task with an empty slot. Which entry
  the trace holds for a guard that finished but was not consumed is then wrong:
  a guard may be named twice and another, whose entry is replaced by a
  "cancelled" one, not at all. Decisions are not affected (`AllowHeardEveryGuard`).
* `bank_deadlock`: the comment at `repositories.py:89` promises a deterministic
  order of locking; `WHERE id IN (...)` gives none. In the trace two transfers in
  the same direction reach the two rows in different orders.
* `agent_warmup`: an agent that starts while the guardrails service is down
  treats every skippable stage as empty from then on, `api_input` and
  `tool_input` included, although they are documented to fail closed.
* `azure_cancel`: a guard cancelled at the await of `aclose` leaves the closed
  client as the shared one, and `_post_json` does not retry the error this gives.
* `azure_closed`: `fail_open` false is documented to block on API errors
  (`azure_content_safety.py:47`), but an error of Prompt Shields or of the search for
  protected material is logged and passed over (148-156, 307-315).
* `chat_jar`: the API refuses a request without a session (`api/app/routers.py:90-91`),
  but the proxy's shared client adds the cookie of whoever signed in last to a
  request without one (`ui/app/main.py:72-79`), so that it is served.

### Observed while reading, without a run

Stage and agent. The sequential mode, meant for a guard that "depends on seeing a
prior guard's sanitized_text" (`pipeline.py:20-23`, 54-57), hands every guard the text
of the caller (173). The order in which sanitized texts win in the default mode is
the order of completion, which the comment at `pipeline.py:211-213` denies; a
sanitized `tool_input` text is ignored and the call is made as planned; a
`tool_output` that was sanitized is still raw in `tools_called` (which is why
`BlockedResultsStay` asks less of the report); the error of an exhausted budget
does not mention the calls that were carried out.

Chat. A sign-in in one tab changes whom the chat of another tab acts for, while
that page still shows the old name; the silent sign-in does not write the local
storage, so tabs may remember different names; a message of a user who has
signed out, refused late, is sent again under whoever signed in next in that
tab, and a silent sign-in under way restores a session that a sign-out has
removed; after an error for a timeout the turn and its transfer may still happen.
Through the jar of the proxy a page without a session may show, and act for, a user
of another browser.

Azure guards. The comment at `azure_content_safety.py:112-113` says that
"Whichever first decision says BLOCK wins", but the preliminary call is always
awaited first; `_run_text_analyze` is always given no metadata of the prompt
shield, so a passed shield is never shown; under `fail_open` the topic guard lets
through a category it detected if an earlier one failed (`MainAnswersDecide` names
this case); a check that is cancelled, or crashes, at its preliminary call leaves
the harm analysis running (`NoCallIsLeftBehind` names it).

Local guards. The topic guard without words of its topic ignores its forbidden
phrases; a severity of `bias-detect` that has no rank counts as none; a label
longer than the entity it replaces can leave the end of an entity around it.

Evaluation. `qa` is documented to fail if any of its parts fails
(`evaluators.py:968-970`) but passes on the average; the composite of the safety
evaluators passes without a score; the header counts 21 evaluators, the registry
has 19; "never raises" (`evaluators.py:25`) does not hold of the parsing outside
the `try` (328), whose exception fails the whole batch, although items are said to
be independent (`runner.py:369`); an evaluator that errors counts neither way, so that
a batch in which all of them error passes; unknown names of
evaluators are passed over, so that a request naming only such ones passes.

Other. `aad_cache.py:17-18` promises at most one refresh, which holds up to
failures and cancellations (`RefreshesAreCoalesced` states the exact bound); a
policy file whose document is a list keeps the service from starting, where every
other bad file is passed over; `GUARDRAILS_OVERRIDE_CACHE_MAX=-1` makes every
overridden check fail with 500; of overlapping fetches of the discovery document
an older one may replace a newer, within the lifetime that `AcceptedIsTrusted`
bounds; a signing key that a token was once found to be signed with is accepted for
the life of the process, also after the tenant has withdrawn it.

## 4. What is proved

All theorems are for arbitrary constants satisfying the named assumptions:
`StageAssumption`, `BankAssumption`, `TurnAssumption`, `ChatAssumption`,
`AuthAssumption`, `AzureAssumption`, `CacheAssumption`, `ClientAssumption`,
`ServiceAssumption`, `EvaluationAssumption`, `LocalAssumption`, each in the module
that declares the constants. They say what sort of thing a constant is: that sets
are finite, numbers natural, an entity a nonempty span of the text, a
configuration a function of keys. Every theorem goes the same way: an inductive
invariant (`IInv`, or a name of its own in a module with several parts) holds
initially (one lemma), is kept by every step (a lemma for each action or group of
actions, one step for each conjunct it can disturb), and implies the property.

Every safety invariant and every action property that a passing run checks is
also a theorem, and so are both refinements.

**Guard stage** (`GuardPipelineProofs`). `TypeCorrect`, `AllowIsSound`
(`AllowHeardEveryGuard`), `RefusalIsJustified` (`RefusalHasWitness`) and
`TraceNeverInvents` (`TraceIsGenuine`). None of the three is inductive. What a
slot holds says nothing of the slot's own guard, so `IInv` relates tasks, queue
and iterations instead: a guard has a result exactly when its task is done
(`DoneHasResult`); the queue names done tasks (`QueueIsDone`); each slot holds
what some guard returned (`SlotIsGenuine`); while the loop runs, every done task
is in the queue or has used up an iteration (`IterationsCounted`), so that a loop
that ends with no cancellation swallowed has consumed every task
(`FullLoopHeardAll`), and none it consumed answered BLOCK
(`ConsumedDidNotBlock`); once the peers are cancelled a BLOCK is in some slot
(`DrainingHoldsBlock`). Two lemmas show that the first blocking slot exists;
`LeastElement` goes by the well-foundedness of strict inclusion on finite sets.

`StageKeepsPromise` is the refinement: every step of a stage is a step of
`StageVerdict` or a stutter, under the mapping of `MCGuardPipeline`. It needs a
second invariant, `KeptInv`, because a stage could hear every guard and still
return the wrong text: each answer is in the queue or in some slot
(`AnswersAreKept`; the loop only ever fills an empty slot), texts are those of
their own guards (`AnswersAreOwn`), and a verdict comes last (`VerdictIsLast`).

**Transfers** (`MockBankProofs`). `TypeCorrect`, `NeverOverdrawn`,
`AnswersTellTheTruth`, `BooksAlwaysBalance`, `OwnersAlone` (a balance changes only
by the commit of an order of its owner; no run states it) and `BankIsAtomic`, the
refinement: initial states map to initial states and each
step to a step of `AtomicTransfers` or a stutter. `IInv` adds to the
type: a row that is locked has been read and its balance has not changed since
(`LockedRowIsRead`); a transaction at work holds each of its rows or has it still
to lock (`RowLockedOrListed`); locking starts only after the checks before the
SELECT (`LockingIsChecked`); balances and ledger entries are whole cents
(`WholeCents`); only committed requests have moved (`MovedIsCommitted`). The
arithmetic is in lemmas about `Round`: it gives whole cents, within half a cent,
and the two roundings of a transfer differ exactly on a tie.

**Agent turn** (`AgentTurnProofs`). `TypeCorrect`, `EffectsAlwaysCleared`
(`EffectsAreCleared`), `BlockedResultsKept` (`BlockedResultsStay`),
`RepliesAreCleared` (`ReplyIsCleared`) and `EveryCallAlwaysTold`
(`EveryCallIsTold`), for any number of hops and calls. `IInv` says what the stages
have made of a turn at each place of `invoke` (`StagesInOrder`), that every call
before the one at work has one verdict of each stage, one message and one entry of
the report (`CallsAreCounted`, `MessagesInOrder`), which calls the bank was asked
for so far (`EffectsSoFar`), that the report says "refused" of exactly those that
`TOOL_INPUT` blocked (`RefusalsAreShown`) and where a raw result may stand
(`RawIsAllowed`).

**Chat** (`ChatPathProofs`). `TypeCorrect`, `ActedOnOnce` (`OneTurnPerMessage`),
`RepliesCoverTheMoney` (`ReplyCoversTheMoney`) and the action property
`ChatsActForShown` (`ShownUserActs`), for any number of tabs, users, messages and
transfers. `ActedOnOnce` rests on `RequestsAreFirst`: a request still on
its way, or one about to be made again, has started no turn, since the client
repeats a request only on a 401, which the API gives before it asks the agent.
`RepliesCoverTheMoney` rests on `OrdersAreCounted`, which keeps the books of a turn
whether or not anybody still waits for it. `ChatsActForShown` adds an invariant of
its own, `IdentityInv`: in a tab that counts as `clean`, the cookie, the name it
would silently sign in again and the requests on their way name whom the page
shows or nobody (`ShownAgrees`, `CallAgrees`), and no other tab has a sign-in or
sign-out under way that could change the cookie (`Quiet`). The jar of the proxy is
left free: a request with a cookie of its own is decided by that cookie alone, and a
page that was filled from the jar does not count as `clean`.

**Policies and /v1/check** (`ServiceProofs`). `LoaderRules` (`LastGoodFileRules`),
`ServiceServes` (`ServedAsConfigured`) and `CacheKeeps` (`CacheKeepsRecent`), for
any folders, requests, environments and bounds of the cache. The loader is a fold
over the files: `LoadedByPosition` takes it apart file by file, and `RulesAfter`
is the induction over positions, that after so many files each id is the last
loadable file of that id among them. `ServiceInv` says that pipelines are built
from what was loaded (`LoadedIsRight`), that an entry of the cache is the pipeline
of its own key (`CachedIsRight`), that an answer is due (`AnsweredIsRight`), and,
of the order, that the keys of the cache are the last ones of the list of all keys
ever used, one for one, and that no key is listed twice (`RecentIsKept`). The last
two are needed together: `move_to_end` of a hit and the eviction of the oldest
entry shift both lists, and only distinct keys make them shift alike.

**Evaluation** (`ServiceProofs`). `FailuresAreKept` (the action property
`NoFailureIsLost`), for any batches, deployments and results, in any order. `EvalInv`:
an evaluator has failed only when it has ended (`RunsAreShaped`), after which no
action touches its record; and the reply is given when all have ended, from their
records, or without any verdict (`RepliesAreDue`).

**Authentication** (`ServiceProofs`). `AuthTypeCorrect` and `OnlyTrustedAccepted`
(`AcceptedIsTrusted`), for any lifetimes and any number of callers, rotations and
ticks, from `AuthInv`. The document that is kept was served no earlier than the time
kept with it, and keys that are kept were published (`KeptWasServed`); a request that
has its document, and may wait for the keys, got one that was served after it looked
at the clock (`RequestInv`): this is why overlapping fetches may end in any order, and
why it does not matter how long the keys take.

**Azure guards** (`GuardsProofs`). `AzureTypeCorrect`, `MainAnswersAlwaysDecide`
(`MainAnswersDecide`) and `CallsNeverLeft` (`NoCallIsLeftBehind`), for any set of
checks and reports and any number of calls. In `AzureInv`, `CallsFollow` says
which calls are under way at each await, and that the answers are read only after
the preliminary call found nothing.

**Local guards** (`GuardsProofs`). `NothingHelps` (the action property
`NothingHelpsHarm`) and `RedactionSafe` (`RedactionIsSafe`), for any guards, any
thresholds in percent, any weights that are natural numbers, and texts and labels
of any length. What a guard counts is a sum over pieces, and a piece more raises
by one the sums it belongs to (`NumberGrows`, `LengthGrows`); each guard then has
a lemma of its own (`PatternMoves` ... `PiiMoves`), where the shares of
`task_adherence` and `groundedness` are compared with any threshold by cross
products (`BelowMoves`). For the redaction the entities are replaced one set after
the other, each set by its leftmost entity last (`RedactedBySets`), and three
things are kept from set to set (`RedactsInOrder`):

* before the leftmost start the text is still the original (`IsUntouched`): this
  is why the offsets of the next entity are true;
* with labels no longer than what they replace, a character never stands to the
  right of where it was, and those that were covered are gone (`IsShifted`). The
  first half makes the second inductive: what is left behind the end of the next
  entity came from behind it;
* of entities that are disjoint, what is behind any place before the leftmost start
  is what they do not cover and one label of each (`IsShorn`).

**Token cache** (`AadTokenCacheProofs`). `TypeCorrect`, `LockAlwaysSound`
(`LockIsSound`, which is inductive by itself), `RefreshesCoalesce`
(`RefreshesAreCoalesced`) and the action property `FreshTokensKept`
(`FreshTokensStay`). The bound on fetches is not inductive: `IInv` adds where each
fetch is, spent, under way or in the cache (`FetchesAreCounted`), and that nobody
fetches while the cached token is fresh (`FetchIsNeeded`), without which the last
two could coincide. One lemma for each thing that happens to the lock's queue:
its head leaves, a cancelled waiter leaves from the middle, a new one joins.

**Shared client** (`GuardsProofs`). `ClientTypeCorrect`, `ClosedIsTransient`
(`ClosedClientIsLeaving`) and `ClientsAreBounded` (`ClientsAreAccounted`).
`ClientInv` adds that there is no shared client only before the first one is made
(`ClientStays`) and which try each call is at (`TriesAreCounted`): a reset is
always the end of a first try, so each retry pays for the client it makes.

**Folds and lists** (`CollectionProofs`). The library's induction theorems take a
predicate as an operator, which the provers cannot choose. Here a predicate is the
set of what satisfies it and the step of a recursion a function, so that both are
ordinary arguments: `NaturalInduction` and `SubsetInduction` follow from
well-foundedness, `FoldExists` shows that the recursive definition behind the
community modules' folds defines something on every finite set, and from it come
what a sum is (`SumWithout`, `SumOfMore`), that a fold over a list goes through
its positions from left to right (`FoldGoesLeft`), and what a list comprehension
keeps and in which order (`ChosenAreKept`, `ChosenOfBoth`). Everything about data
in `GuardsProofs` and `ServiceProofs` rests on these. No step of them is assumed.

**Only model-checked.** Liveness (`StageEnds`, `EveryRequestAnswered`,
`TurnEnds`, `EveryCallerIsServed`, `EveryCallEnds`, `EverySendSettles`), which
TLAPS cannot prove under fairness.

## 5. What is not modelled

* **Texts and what guards find in them.** Regular expressions, word lists, the
  scores of Presidio and the models of Azure are abstracted to what they find. A
  guard of a stage is any decision it may return, the LLM any answer, the bank (seen
  by the agent) a success or an error. The arithmetic of single scores of an
  evaluation is reduced to both sides of its threshold.
* **Observability** (logs, metrics, spans): nothing reads it back. The HTML report
  and the listing routes of the service and of the evaluation only read.
* **Cards, ATMs, loans, reads and the seed of the bank.** Blocking a card is one
  idempotent write and the rest are reads and float arithmetic. Two replicas that
  seed an empty database at once are listed as a hazard.
* **LLM client and its credentials**: a call of an external model, which
  `AgentTurn` has as an answer or an error.
* **Sign-in with Entra, account pages, rendering.** The path of the local provider
  is modelled; the other one cannot open a session in this version.
* **PyJWT's** checks of signature, audience, issuer and expiry are taken at their
  word. The tenant publishes one key at a time, at an address that never changes.
* The `detoxify` engine of the toxicity guard, and the redaction by patterns that the
  PII guard adds to Presidio's.
* **Shared contracts and deployment**: data classes and infrastructure scripts.
* `invalidate` of the token cache and `build_pipeline_from_settings` of the
  registry have no caller. Cancelling a guard in the fast path of
  `get_bearer_token` has no effect, as there is no await in it.

The database is modelled from how `repositories.py` uses it: row locks to the end
of the transaction, READ COMMITTED, deadlock detection. Parts of one process that
would multiply each other are checked apart: the client's and the token's modules
let any guard be cancelled at any await, which covers whatever a stage does to
them, and `ChatPath` takes from `AgentTurn` and `MockBank` that a turn ends and
that an order is carried out or refused once.

## 6. Plan

The core of both systems is modelled. What would come next, in this order:

1. The race of two replicas that seed the bank at once, as a module of its own
   beside `MockBank`.
2. The composition of a turn with the stages it asks for: `AgentTurn` takes each
   stage as one of its outcomes, which `StageVerdict` could give.
3. Sign-in with Entra in `ChatPath`, once the code has a way to open a session
   for it.
