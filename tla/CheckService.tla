------------------------------ MODULE CheckService ------------------------------
(***************************************************************************)
(* One process of the guardrails service around its stages: what it loads  *)
(* at its start (load_policies and build_pipeline of guardrails-service/   *)
(* app/policies/loader.py, lifespan of app/main.py), and how a request to  *)
(* /v1/check comes by its list of guards, with the cache of pipelines      *)
(* built for per-request overrides.                                        *)
(*                                                                         *)
(* The handler does not let go of the event loop before it awaits the      *)
(* stage: closing an evicted pipeline awaits only guards whose aclose does *)
(* nothing.  Each request is therefore one step up to its stage, which is  *)
(* GuardPipeline's.  A file stands for its YAML with the environment       *)
(* variables put in.                                                       *)
(***************************************************************************)
EXTENDS Integers, Collections

CONSTANTS
  Registered,    (* the guards in the registry                               *)
  Keys, Values,  (* of a guard's configuration                               *)
  Refused,       (* the values no guard's constructor takes                  *)
  Allowed,       (* GUARDRAILS_OVERRIDABLE_KEYS                              *)
  Forbidden,     (* GUARDRAILS_FORBIDDEN_OVERRIDE_KEYS                       *)
  Default,       (* GUARDRAILS_DEFAULT_POLICY_ID                             *)
  Folders,       (* sets of files the service may find, in reading order     *)
  Environments,  (* GUARD_<NAME>_CONFIG_OVERRIDE: a configuration per guard  *)
  Capacities,    (* values of GUARDRAILS_OVERRIDE_CACHE_MAX                  *)
  Requests       (* bodies of /v1/check                                      *)

Stages  == {"api_input", "input", "tool_input", "tool_output", "output", "api_output"}
Configs == UNION {[K -> Values] : K \in SUBSET Keys}

ASSUME ServiceAssumption ==
  /\ Refused \subseteq Values
  /\ Capacities \subseteq Int
  /\ \A e \in Environments : e \in [Registered -> Configs]
  /\ \A folder \in Folders :
       /\ folder \in Seq(ToSet(folder))
       /\ \A file \in ToSet(folder) : \A s \in Stages :
            file.stages[s] \in Seq(ToSet(file.stages[s]))
  /\ \A q \in Requests :
       /\ q.stage \in Stages \cup {"llm_input", "llm_output"}
       /\ \A g \in DOMAIN q.overrides : DOMAIN q.overrides[g] \subseteq Keys

VARIABLES
  files, env, capacity, allow,  (* the deployment, fixed                     *)
  phase,      (* of the process                                              *)
  policies,   (* app.state.policies: a file for each id                      *)
  pipelines,  (* app.state.pipelines                                         *)
  cache,      (* app.state.override_pipelines, least recently used first     *)
  used,       (* ghost: every key used so far, in the order of its last use  *)
  request,    (* the last request                                            *)
  answer      (* its status, and the guards that its stage runs               *)

deployment == <<files, env, capacity, allow>>
loaded     == <<phase, policies, pipelines>>
vars       == <<deployment, loaded, cache, used, request, answer>>

NoConfig == << >>

(***************************************************************************)
(* The start of the process.                                               *)
(***************************************************************************)
(* A spec with "enabled" false is dropped with all it says.                  *)
Enabled(specs) == Chosen(specs, {spec \in ToSet(specs) : spec.enabled})

(* Neither bad YAML nor a misshapen spec nor an unknown guard gets a file    *)
(* into the table.                                                           *)
IsLoadable(file) ==
  /\ file.form = "policy"
  /\ \A s \in Stages : \A spec \in ToSet(Enabled(file.stages[s])) : spec.guard \in Registered

(* Seeded fault: the first file of an id is kept.                            *)
LoadPoliciesKeepingFirst(all) ==
  FoldLeft(LAMBDA table, file : IF IsLoadable(file) /\ file.id \notin DOMAIN table
                               THEN Put(table, file.id, file) ELSE table,
           << >>, all)

(* The files are read in order, and a later one replaces an earlier one.     *)
LoadPolicies(all) ==
  FoldLeft(LAMBDA table, file : IF IsLoadable(file) THEN Put(table, file.id, file) ELSE table,
           << >>, all)

(* Policy, then environment, then request: each wins over the ones before.   *)
Merged(spec, overrides) ==
  LET asked == IF spec.guard \in DOMAIN overrides THEN overrides[spec.guard] ELSE NoConfig
  IN  Over(asked, Over(env[spec.guard], spec.config))

(* The guards of each stage, as they are configured.                         *)
Pipeline(policy, overrides) ==
  [s \in Stages |->
     LET specs == Enabled(policy.stages[s])
     IN  [i \in DOMAIN specs |->
            [guard |-> specs[i].guard, config |-> Merged(specs[i], overrides)]]]

(* A constructor that raises ends the building.                              *)
Builds(pipeline) ==
  \A s \in Stages : \A i \in DOMAIN pipeline[s] :
    \A k \in DOMAIN pipeline[s][i].config : pipeline[s][i].config[k] \notin Refused

(* A file that raises what nothing catches: it cannot be decoded, its        *)
(* document is no mapping, the config of a guard is a list of no pairs, or   *)
(* its id cannot be hashed.                                                  *)
Crashes == \E i \in DOMAIN files : files[i].form = "raises"

FailToStart ==
  /\ phase = "starting"
  /\ Crashes
  /\ phase' = "crashed"
  /\ UNCHANGED <<deployment, policies, pipelines, cache, used, request, answer>>

(* A pipeline that cannot be built leaves its policy known.                  *)
Start ==
  /\ phase = "starting"
  /\ ~Crashes
  /\ phase' = "serving"
  /\ policies' = LoadPolicies(files)
  /\ pipelines' =
       LET built(id) == Pipeline(policies'[id], << >>)
       IN  [id \in {id \in DOMAIN policies' : Builds(built(id))} |-> built(id)]
  /\ UNCHANGED <<deployment, cache, used, request, answer>>

(***************************************************************************)
(* POST /v1/check.                                                         *)
(***************************************************************************)
PolicyId(q) == IF q.policy_id = "" THEN Default ELSE q.policy_id

(* Two names of each of the LLM's stages.                                    *)
Stage(q) == CASE q.stage = "llm_input"  -> "input"
              [] q.stage = "llm_output" -> "output"
              [] OTHER -> q.stage

HasOverrides(q) == q.overrides # << >>

(* validate_request_overrides: only guards that the policy runs, only keys   *)
(* that are allowed, and no forbidden one even if it is allowed too.         *)
IsValid(q) ==
  LET policy == policies[PolicyId(q)]
      known  == UNION {{spec.guard : spec \in ToSet(Enabled(policy.stages[s]))} : s \in Stages}
  IN  \A g \in DOMAIN q.overrides :
        g \in known /\ DOMAIN q.overrides[g] \subseteq Allowed \ Forbidden

(* Seeded fault: the cache does not tell policies apart.                     *)
CacheKeyOfOverrides(q) == <<Default, q.overrides>>

CacheKey(q) == <<PolicyId(q), q.overrides>>

Hit(q) == \E i \in DOMAIN cache : cache[i].key = CacheKey(q)

Answer(q, status, guards) ==
  /\ request' = q
  /\ answer' = [status |-> status, guards |-> guards]
  /\ UNCHANGED <<deployment, loaded>>

Refuse(q, status) == Answer(q, status, << >>) /\ UNCHANGED <<cache, used>>

Serve(q, pipeline) == Answer(q, 200, pipeline[Stage(q)])

Use(q) == used' = Append(RemoveFirst(used, CacheKey(q)), CacheKey(q))

Knows(q) == phase = "serving" /\ PolicyId(q) \in DOMAIN policies

UnknownPolicy(q) == phase = "serving" /\ ~Knows(q) /\ Refuse(q, 404)

OverridesDisabled(q) == Knows(q) /\ HasOverrides(q) /\ ~allow /\ Refuse(q, 403)

InvalidOverrides(q) ==
  /\ Knows(q) /\ HasOverrides(q) /\ allow
  /\ ~IsValid(q)
  /\ Refuse(q, 400)

NoPipeline(q) ==
  /\ Knows(q) /\ ~HasOverrides(q)
  /\ PolicyId(q) \notin DOMAIN pipelines
  /\ Refuse(q, 503)

ServePolicy(q) ==
  /\ Knows(q) /\ ~HasOverrides(q)
  /\ PolicyId(q) \in DOMAIN pipelines
  /\ Serve(q, pipelines[PolicyId(q)])
  /\ UNCHANGED <<cache, used>>

(* Seeded fault: a hit does not count as a use.                              *)
ServeCachedInPlace(q) ==
  /\ Knows(q) /\ HasOverrides(q) /\ allow /\ IsValid(q)
  /\ \E i \in DOMAIN cache :
       /\ cache[i].key = CacheKey(q)
       /\ Serve(q, cache[i].pipeline)
  /\ Use(q)
  /\ UNCHANGED cache

ServeCached(q) ==
  /\ Knows(q) /\ HasOverrides(q) /\ allow /\ IsValid(q)
  /\ \E i \in DOMAIN cache :
       /\ cache[i].key = CacheKey(q)
       /\ cache' = Append(RemoveAt(cache, i), cache[i])
       /\ Serve(q, cache[i].pipeline)
  /\ Use(q)

(* A value that a constructor refuses is an internal error.                  *)
BuildFails(q) ==
  /\ Knows(q) /\ HasOverrides(q) /\ allow /\ IsValid(q)
  /\ ~Hit(q)
  /\ ~Builds(Pipeline(policies[PolicyId(q)], q.overrides))
  /\ Refuse(q, 500)

(* The oldest entries go until the rest fits.                                *)
Evict(entries) ==
  IF Len(entries) > capacity
  THEN SubSeq(entries, Len(entries) - capacity + 1, Len(entries)) ELSE entries

(* With a negative bound the loop pops on until the cache is empty, and then *)
(* raises.                                                                   *)
ServeBuilt(q) ==
  /\ Knows(q) /\ HasOverrides(q) /\ allow /\ IsValid(q)
  /\ ~Hit(q)
  /\ LET pipeline == Pipeline(policies[PolicyId(q)], q.overrides)
         entry    == [key |-> CacheKey(q), pipeline |-> pipeline]
     IN  /\ Builds(pipeline)
         /\ IF capacity < 0
            THEN Answer(q, 500, << >>) /\ cache' = << >> /\ UNCHANGED used
            ELSE Serve(q, pipeline) /\ cache' = Evict(Append(cache, entry)) /\ Use(q)

-----------------------------------------------------------------------------
Init ==
  /\ files \in Folders
  /\ env \in Environments
  /\ capacity \in Capacities
  /\ allow \in BOOLEAN
  /\ phase = "starting"
  /\ policies = << >>
  /\ pipelines = << >>
  /\ cache = << >>
  /\ used = << >>
  /\ request = << >>
  /\ answer = [status |-> 0, guards |-> << >>]

Check(q) ==
  \/ UnknownPolicy(q)
  \/ OverridesDisabled(q)
  \/ InvalidOverrides(q)
  \/ NoPipeline(q)
  \/ ServePolicy(q)
  \/ ServeCached(q)
  \/ BuildFails(q)
  \/ ServeBuilt(q)

Next == Start \/ FailToStart \/ \E q \in Requests : Check(q)

Spec == Init /\ [][Next]_vars

-----------------------------------------------------------------------------
(* A file that counts: well formed, with every guard it enables known.       *)
IsGood(file) ==
  /\ file.form = "policy"
  /\ \A s \in Stages : \A i \in DOMAIN file.stages[s] :
       file.stages[s][i].enabled => file.stages[s][i].guard \in Registered

(* The policy of an id is its last good file, in the order of the folders: a *)
(* bad file that the loader passes over hides no good one, of its own id or  *)
(* another's, and a good one replaces all before it.                         *)
LastGoodFileRules ==
  phase = "serving" =>
    /\ DOMAIN policies = {files[i].id : i \in {i \in DOMAIN files : IsGood(files[i])}}
    /\ \A id \in DOMAIN policies :
         \E i \in DOMAIN files :
           /\ policies[id] = files[i]
           /\ files[i].id = id
           /\ \A j \in DOMAIN files : j > i /\ files[j].id = id => ~IsGood(files[j])

(* What a request may tune of a guard.                                       *)
Tunes(q, g, k) ==
  g \in DOMAIN q.overrides /\ k \in DOMAIN q.overrides[g] /\ k \in Allowed \ Forbidden

(* A guard's settings: each key from the request that may tune it, else from *)
(* the environment, else from the policy.                                    *)
SettingsOf(q, spec) ==
  LET g == spec.guard
      tuned == {k \in Keys : Tunes(q, g, k)}
  IN  [k \in tuned \cup DOMAIN env[g] \cup DOMAIN spec.config |->
         IF k \in tuned THEN q.overrides[g][k]
         ELSE IF k \in DOMAIN env[g] THEN env[g][k] ELSE spec.config[k]]

(* A request that is served runs the enabled guards of its policy's file in  *)
(* their order, each configured by that file, the environment and what this  *)
(* request may tune, whatever requests before it put into the cache.         *)
ServedAsConfigured ==
  answer.status = 200 =>
    LET q     == request
        specs == Enabled(policies[PolicyId(q)].stages[Stage(q)])
    IN  /\ Len(answer.guards) = Len(specs)
        /\ \A i \in DOMAIN specs :
             answer.guards[i] = [guard |-> specs[i].guard, config |-> SettingsOf(q, specs[i])]

(* The cache holds the pipelines of the keys used last, as many as it may,   *)
(* and no request that is refused or fails displaces one.                    *)
CacheKeepsRecent ==
  LET bound == IF capacity < 0 THEN 0 ELSE capacity
      size  == IF Len(used) < bound THEN Len(used) ELSE bound
  IN  [i \in DOMAIN cache |-> cache[i].key] = SubSeq(used, Len(used) - size + 1, Len(used))
=============================================================================
