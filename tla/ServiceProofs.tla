----------------------------- MODULE ServiceProofs -----------------------------
(***************************************************************************)
(* Proofs about what the guardrails service does around its guards, in     *)
(* three parts that share no state: the policies and the cached pipelines  *)
(* behind /v1/check, the evaluation of batches, and the authentication of  *)
(* requests.  They hold for any folders of policies, requests, bounds of the*)
(* cache, batches, headers and deployments, and any number of steps.       *)
(***************************************************************************)
EXTENDS CheckService, Evaluation, BearerAuth, CollectionProofs

(***************************************************************************)
(* The policies and /v1/check.                                             *)
(***************************************************************************)
(* Tables of files for their ids, and one that is loaded file by file.       *)
Tables(F) == UNION {[D -> F] : D \in SUBSET {file.id : file \in F}}

LoadsOf(p, F, all) ==
  /\ p \in [0 .. Len(all) -> Tables(F)]
  /\ p[0] = << >>
  /\ \A k \in 1 .. Len(all) :
       p[k] = IF IsLoadable(all[k]) THEN Put(p[k - 1], all[k].id, all[k]) ELSE p[k - 1]

LEMMA PutInTable ==
  ASSUME NEW F, NEW table \in Tables(F), NEW file \in F
  PROVE  Put(table, file.id, file) \in Tables(F)
<1>1. PICK D \in SUBSET {f.id : f \in F} : table \in [D -> F]
  BY DEF Tables
<1>2. Put(table, file.id, file) \in [D \cup {file.id} -> F]
  BY <1>1 DEF Put
<1>3. D \cup {file.id} \in SUBSET {f.id : f \in F}
  OBVIOUS
<1>4. QED
  BY <1>2, <1>3 DEF Tables

LEMMA LoadedByPosition ==
  ASSUME NEW F, NEW all \in Seq(F)
  PROVE  \E p : LoadsOf(p, F, all) /\ p[Len(all)] = LoadPolicies(all)
<1> DEFINE n == Len(all)
<1> DEFINE Body(f) == [T \in SUBSET DOMAIN all |->
                         IF T = {} THEN << >>
                         ELSE IF IsLoadable(all[Max(T)])
                              THEN Put(f[T \ {Max(T)}], all[Max(T)].id, all[Max(T)])
                              ELSE f[T \ {Max(T)}]]
<1> DEFINE it == CHOOSE f : f = Body(f)
<1>1. LoadPolicies(all) = it[DOMAIN all]
  BY DEF LoadPolicies, FoldLeft, MapThenFoldSet
<1>d. PICK D : D = DOMAIN all
  OBVIOUS
<1>2. D = DOMAIN all /\ D = 1 .. n /\ n \in Nat
  BY <1>d
<1>v. \A x \in D : all[x] \in F
  BY <1>2
<1> DEFINE step == [x \in D |-> [v \in Tables(F) |->
                      IF IsLoadable(all[x]) THEN Put(v, all[x].id, all[x]) ELSE v]]
<1>s. \A x \in D, v \in Tables(F) :
        step[x][v] = IF IsLoadable(all[x]) THEN Put(v, all[x].id, all[x]) ELSE v
  OBVIOUS
<1> HIDE DEF step, n
<1>3. Stays(step, D, Tables(F))
  BY <1>s, <1>v, PutInTable DEF Stays
<1>4. << >> \in Tables(F) /\ ArePositions(D, n)
  <2>1. << >> \in [{} -> F]
    OBVIOUS
  <2>2. {} \in SUBSET {f.id : f \in F}
    OBVIOUS
  <2>3. QED
    BY <1>2, <2>1, <2>2 DEF Tables, ArePositions
<1>5. PICK f : IsLeftFold(f, n, D, Tables(F), << >>, step)
  BY <1>2, <1>3, <1>4, LeftFoldExists
<1>6. PICK p : GoesBy(p, n, Tables(F), << >>, step) /\ p[n] = f[D]
  BY <1>5, FoldGoesLeft
<1>7. \A T \in SUBSET D : T # {} => Max(T) \in T
  BY <1>2, MaxOfPositions
<1>f. f \in [SUBSET D -> Tables(F)] /\ f[{}] = << >>
  BY <1>5 DEF IsLeftFold
<1>8. ASSUME NEW T \in SUBSET D, T # {}
      PROVE  f[T] = IF IsLoadable(all[Max(T)])
                    THEN Put(f[T \ {Max(T)}], all[Max(T)].id, all[Max(T)])
                    ELSE f[T \ {Max(T)}]
  <2>1. f[T] = step[Max(T)][f[T \ {Max(T)}]]
    BY <1>5, <1>8 DEF IsLeftFold
  <2>2. Max(T) \in D /\ f[T \ {Max(T)}] \in Tables(F)
    BY <1>f, <1>7, <1>8
  <2>3. QED
    BY <2>1, <2>2, <1>s
<1>9. f = Body(f)
  BY <1>2, <1>f, <1>8
<1>10. it = Body(it)
  BY <1>9
<1> HIDE DEF it
<1>11. it[{}] = << >>
  BY <1>10
<1>12. ASSUME NEW T \in SUBSET D, T # {}, it[T \ {Max(T)}] = f[T \ {Max(T)}]
       PROVE  it[T] = f[T]
  <2>1. it[T] = IF IsLoadable(all[Max(T)])
                THEN Put(it[T \ {Max(T)}], all[Max(T)].id, all[Max(T)])
                ELSE it[T \ {Max(T)}]
    BY <1>2, <1>10, <1>12
  <2> PICK m : m = Max(T)
    OBVIOUS
  <2> PICK U : U = T \ {m}
    OBVIOUS
  <2>2. it[T] = IF IsLoadable(all[m]) THEN Put(it[U], all[m].id, all[m]) ELSE it[U]
    BY <2>1
  <2>3. f[T] = IF IsLoadable(all[m]) THEN Put(f[U], all[m].id, all[m]) ELSE f[U]
    BY <1>8, <1>12
  <2>4. it[U] = f[U]
    BY <1>12
  <2>5. QED
    BY <2>2, <2>3, <2>4
<1>13. it[D] = f[D]
  <2>1. Follows(it, f, D)
    BY <1>f, <1>11, <1>12 DEF Follows
  <2>2. QED
    BY <1>5, <2>1, LeftFoldAgrees
<1>15. LoadsOf(p, F, all)
  <2>1. ASSUME NEW k \in 1 .. n
        PROVE  p[k] = IF IsLoadable(all[k]) THEN Put(p[k - 1], all[k].id, all[k]) ELSE p[k - 1]
    <3>1. p[k] = step[k][p[k - 1]]
      BY <1>6 DEF GoesBy
    <3>2. p[k - 1] \in Tables(F) /\ k \in D
      BY <1>2, <1>6 DEF GoesBy
    <3>3. QED
      BY <3>1, <3>2, <1>s
  <2>2. QED
    BY <1>6, <2>1 DEF LoadsOf, GoesBy, n
<1>16. QED
  BY <1>1, <1>2, <1>6, <1>13, <1>15 DEF n

(* What the table of the first k files is.                                   *)
RulesAfter(table, all, k) ==
  /\ DOMAIN table = {all[i].id : i \in {i \in 1 .. k : IsLoadable(all[i])}}
  /\ \A id \in DOMAIN table :
       \E i \in 1 .. k :
         /\ table[id] = all[i]
         /\ all[i].id = id
         /\ IsLoadable(all[i])
         /\ \A j \in 1 .. k : j > i /\ all[j].id = id => ~IsLoadable(all[j])

LEMMA OneMoreFile ==
  ASSUME NEW table, NEW all, NEW k \in Nat, RulesAfter(table, all, k), NEW next,
         next = IF IsLoadable(all[k + 1]) THEN Put(table, all[k + 1].id, all[k + 1]) ELSE table
  PROVE  RulesAfter(next, all, k + 1)
<1>1. \A i : i \in 1 .. (k + 1) <=> i \in 1 .. k \/ i = k + 1
  OBVIOUS
<1>2. CASE IsLoadable(all[k + 1])
  <2>1. next = Put(table, all[k + 1].id, all[k + 1])
    BY <1>2
  <2>2. DOMAIN next = DOMAIN table \cup {all[k + 1].id}
    BY <2>1 DEF Put
  <2>3. DOMAIN next = {all[i].id : i \in {i \in 1 .. (k + 1) : IsLoadable(all[i])}}
    <3>1. DOMAIN table = {all[i].id : i \in {i \in 1 .. k : IsLoadable(all[i])}}
      BY DEF RulesAfter
    <3>2. QED
      BY <1>1, <1>2, <2>2, <3>1
  <2>4. ASSUME NEW id \in DOMAIN next
        PROVE  \E i \in 1 .. (k + 1) :
                 /\ next[id] = all[i]
                 /\ all[i].id = id
                 /\ IsLoadable(all[i])
                 /\ \A j \in 1 .. (k + 1) : j > i /\ all[j].id = id => ~IsLoadable(all[j])
    <3>1. CASE id = all[k + 1].id
      <4>1. next[id] = all[k + 1]
        BY <2>1, <2>2, <3>1 DEF Put
      <4>2. \A j \in 1 .. (k + 1) : ~(j > k + 1)
        OBVIOUS
      <4>3. k + 1 \in 1 .. (k + 1)
        OBVIOUS
      <4>4. QED
        BY <1>2, <3>1, <4>1, <4>2, <4>3
    <3>2. CASE id # all[k + 1].id
      <4>1. id \in DOMAIN table /\ next[id] = table[id]
        BY <2>1, <2>2, <3>2 DEF Put
      <4>2. PICK i \in 1 .. k :
              /\ table[id] = all[i]
              /\ all[i].id = id
              /\ IsLoadable(all[i])
              /\ \A j \in 1 .. k : j > i /\ all[j].id = id => ~IsLoadable(all[j])
        BY <4>1 DEF RulesAfter
      <4>3. QED
        BY <1>1, <3>2, <4>1, <4>2
    <3>3. QED
      BY <3>1, <3>2
  <2>5. QED
    BY <2>3, <2>4 DEF RulesAfter
<1>3. CASE ~IsLoadable(all[k + 1])
  <2>1. next = table
    BY <1>3
  <2>2. QED
    BY <1>1, <1>3, <2>1 DEF RulesAfter
<1>4. QED
  BY <1>2, <1>3

LEMMA LastLoadableRules ==
  ASSUME NEW F, NEW all \in Seq(F)
  PROVE  LoadPolicies(all) \in Tables(F) /\ RulesAfter(LoadPolicies(all), all, Len(all))
<1>1. PICK p : LoadsOf(p, F, all) /\ p[Len(all)] = LoadPolicies(all)
  BY LoadedByPosition
<1>2. Len(all) \in Nat
  OBVIOUS
<1> DEFINE P == {k \in Nat : k <= Len(all) => RulesAfter(p[k], all, k)}
<1>3. 0 \in P
  <2>1. p[0] = << >> /\ DOMAIN << >> = {}
    BY <1>1 DEF LoadsOf
  <2>2. 1 .. 0 = {}
    OBVIOUS
  <2>3. QED
    BY <2>1, <2>2 DEF RulesAfter
<1>4. ASSUME NEW k \in Nat, k \in P PROVE k + 1 \in P
  <2> SUFFICES ASSUME k + 1 <= Len(all) PROVE RulesAfter(p[k + 1], all, k + 1)
    OBVIOUS
  <2>1. k + 1 \in 1 .. Len(all) /\ k + 1 - 1 = k
    BY <1>2
  <2>2. p[k + 1] = IF IsLoadable(all[k + 1]) THEN Put(p[k], all[k + 1].id, all[k + 1]) ELSE p[k]
    BY <1>1, <2>1 DEF LoadsOf
  <2>3. RulesAfter(p[k], all, k)
    BY <1>2, <1>4
  <2>4. QED
    BY <2>2, <2>3, OneMoreFile
<1>5. \A k \in Nat : k \in P => k + 1 \in P
  BY <1>4
<1> HIDE DEF P
<1>6. Nat \subseteq P
  BY <1>3, <1>5, NaturalInduction
<1>7. RulesAfter(p[Len(all)], all, Len(all))
  BY <1>2, <1>6 DEF P
<1>8. p[Len(all)] \in Tables(F)
  BY <1>1, <1>2 DEF LoadsOf
<1>9. QED
  BY <1>1, <1>7, <1>8

-----------------------------------------------------------------------------
UsedKeys == {CacheKey(q) : q \in Requests}
Entry(q) == [key |-> CacheKey(q), pipeline |-> Pipeline(policies[PolicyId(q)], q.overrides)]
Entries  == {Entry(q) : q \in {q \in Requests : PolicyId(q) \in DOMAIN policies}}

(* The deployment is one of those there are, and what is loaded is its.      *)
LoadedIsRight ==
  /\ files \in Folders /\ env \in Environments /\ capacity \in Int
  /\ phase = "serving" => policies = LoadPolicies(files)
  /\ phase # "serving" => cache = << >> /\ used = << >> /\ answer.status = 0
  /\ \A id \in DOMAIN pipelines :
       id \in DOMAIN policies /\ pipelines[id] = Pipeline(policies[id], << >>)

(* An entry of the cache is the pipeline of its key.                         *)
CachedIsRight == cache \in Seq(Entries)

AnsweredIsRight ==
  answer.status = 200 =>
    /\ request \in Requests
    /\ Knows(request)
    /\ HasOverrides(request) => IsValid(request)
    /\ answer.guards = Pipeline(policies[PolicyId(request)], request.overrides)[Stage(request)]

(* How many pipelines the cache may hold.                                    *)
Size ==
  LET bound == IF capacity < 0 THEN 0 ELSE capacity
  IN  IF Len(used) < bound THEN Len(used) ELSE bound

(* CacheKeepsRecent, entry by entry; and no key is listed twice.             *)
RecentIsKept ==
  /\ used \in Seq(UsedKeys)
  /\ Distinct(used)
  /\ Len(cache) = Size
  /\ \A i \in 1 .. Len(cache) : cache[i].key = used[Len(used) - Len(cache) + i]

ServiceInv == LoadedIsRight /\ CachedIsRight /\ AnsweredIsRight /\ RecentIsKept

-----------------------------------------------------------------------------
(* A table only holds files of the folder.                                   *)
LEMMA PoliciesAreFiles ==
  ASSUME ServiceInv, phase = "serving"
  PROVE  \A id \in DOMAIN policies : policies[id] \in ToSet(files)
<1>1. files \in Seq(ToSet(files)) /\ policies = LoadPolicies(files)
  BY ServiceAssumption DEF ServiceInv, LoadedIsRight
<1>2. policies \in Tables(ToSet(files))
  BY <1>1, LastLoadableRules
<1>3. QED
  BY <1>2 DEF Tables

LEMMA FilesHaveStages ==
  ASSUME ServiceInv, NEW file \in ToSet(files), NEW s \in Stages
  PROVE  file.stages[s] \in Seq(ToSet(file.stages[s]))
BY ServiceAssumption DEF ServiceInv, LoadedIsRight

-----------------------------------------------------------------------------
LEMMA ServiceInitHolds == ASSUME Init PROVE ServiceInv
<1> USE DEF Init
<1>1. LoadedIsRight
  BY ServiceAssumption DEF LoadedIsRight
<1>2. CachedIsRight
  BY DEF CachedIsRight
<1>3. AnsweredIsRight
  BY DEF AnsweredIsRight
<1>4. RecentIsKept
  <2>1. capacity \in Int
    BY ServiceAssumption
  <2>2. Len(used) = 0 /\ Len(cache) = 0
    OBVIOUS
  <2>3. Size = 0
    BY <2>1, <2>2 DEF Size
  <2>4. << >> \in Seq(UsedKeys)
    OBVIOUS
  <2>5. QED
    BY <2>2, <2>3, <2>4 DEF RecentIsKept, Distinct
<1>5. QED
  BY <1>1, <1>2, <1>3, <1>4 DEF ServiceInv

(* Loading comes before the first request.                                   *)
LEMMA StartKeepsService == ASSUME ServiceInv, Start PROVE ServiceInv'
<1>1. /\ phase = "starting" /\ phase' = "serving"
      /\ policies' = LoadPolicies(files)
      /\ UNCHANGED <<deployment, cache, used, request, answer>>
  BY DEF Start
<1>2. files' = files /\ env' = env /\ capacity' = capacity /\ cache' = cache /\ used' = used
      /\ answer' = answer
  BY <1>1 DEF deployment
<1>3. cache = << >> /\ answer.status = 0
  BY <1>1 DEF ServiceInv, LoadedIsRight
<1>4. \A id \in DOMAIN pipelines' :
        id \in DOMAIN policies' /\ pipelines'[id] = Pipeline(policies'[id], << >>)
  BY DEF Start
<1>5. \A id : Pipeline(policies[id], << >>)' = Pipeline(policies'[id], << >>)
  BY <1>2 DEF Pipeline, Merged
<1>6. LoadedIsRight'
  BY <1>1, <1>2, <1>4, <1>5 DEF ServiceInv, LoadedIsRight
<1>7. CachedIsRight'
  BY <1>2, <1>3 DEF CachedIsRight
<1>8. AnsweredIsRight'
  BY <1>2, <1>3 DEF AnsweredIsRight
<1>9. UsedKeys' = UsedKeys
  BY DEF UsedKeys, CacheKey, PolicyId
<1>10. RecentIsKept'
  BY <1>2, <1>9 DEF ServiceInv, RecentIsKept, Size
<1>11. QED
  BY <1>6, <1>7, <1>8, <1>10 DEF ServiceInv

-----------------------------------------------------------------------------
LEMMA LoadedStays ==
  ASSUME ServiceInv, phase = "serving", UNCHANGED <<deployment, loaded>>
  PROVE  LoadedIsRight' /\ Entries' = Entries
<1>1. /\ files' = files /\ env' = env /\ capacity' = capacity
      /\ phase' = phase /\ policies' = policies /\ pipelines' = pipelines
  BY DEF deployment, loaded
<1>2. \A id : Pipeline(policies[id], << >>)' = Pipeline(policies[id], << >>)
  BY <1>1 DEF Pipeline, Merged
<1>3. \A q : Entry(q)' = Entry(q)
  BY <1>1 DEF Entry, Pipeline, Merged, CacheKey, PolicyId
<1>4. LoadedIsRight'
  BY <1>1, <1>2 DEF ServiceInv, LoadedIsRight
<1>5. Entries' = Entries
  BY <1>1, <1>3 DEF Entries, PolicyId
<1>6. QED
  BY <1>4, <1>5

LEMMA AnswerIsRight ==
  ASSUME ServiceInv, phase = "serving", NEW q \in Requests, NEW status, NEW guards,
         Answer(q, status, guards),
         status = 200 =>
           /\ Knows(q)
           /\ HasOverrides(q) => IsValid(q)
           /\ guards = Pipeline(policies[PolicyId(q)], q.overrides)[Stage(q)]
  PROVE  AnsweredIsRight'
<1>1. /\ request' = q /\ answer' = [status |-> status, guards |-> guards]
      /\ UNCHANGED <<deployment, loaded>>
  BY DEF Answer
<1>2. env' = env /\ policies' = policies /\ phase' = phase
  BY <1>1 DEF deployment, loaded
<1>3. Pipeline(policies[PolicyId(request)], request.overrides)'
        = Pipeline(policies[PolicyId(q)], q.overrides)
  BY <1>1, <1>2 DEF Pipeline, Merged, PolicyId
<1>4. Knows(request)' <=> Knows(q)
  BY <1>1, <1>2 DEF Knows, PolicyId
<1>5. IsValid(request)' <=> IsValid(q)
  BY <1>1, <1>2 DEF IsValid, PolicyId
<1>6. (HasOverrides(request))' <=> HasOverrides(q)
  BY <1>1 DEF HasOverrides
<1>7. Stage(request)' = Stage(q)
  BY <1>1 DEF Stage
<1>8. answer'.status = status /\ answer'.guards = guards
  BY <1>1
<1>9. QED
  BY <1>1, <1>3, <1>4, <1>5, <1>6, <1>7, <1>8 DEF AnsweredIsRight

(* The lists stay as they are with the deployment.                           *)
LEMMA ListsStay ==
  ASSUME ServiceInv, phase = "serving",
         UNCHANGED <<deployment, loaded>>, UNCHANGED <<cache, used>>
  PROVE  CachedIsRight' /\ RecentIsKept'
<1>1. cache' = cache /\ used' = used /\ capacity' = capacity
  BY DEF deployment
<1>2. CachedIsRight'
  BY <1>1, LoadedStays DEF ServiceInv, CachedIsRight
<1>3. UsedKeys' = UsedKeys
  BY DEF UsedKeys, CacheKey, PolicyId
<1>4. RecentIsKept'
  BY <1>1, <1>3 DEF ServiceInv, RecentIsKept, Size
<1>5. QED
  BY <1>2, <1>4

LEMMA RefusedKeeps ==
  ASSUME ServiceInv, phase = "serving", NEW q \in Requests, NEW status, status # 200,
         Refuse(q, status)
  PROVE  ServiceInv'
<1>1. Answer(q, status, << >>) /\ UNCHANGED <<cache, used>> /\ UNCHANGED <<deployment, loaded>>
  BY DEF Refuse, Answer
<1>2. AnsweredIsRight'
  BY <1>1, AnswerIsRight
<1>3. QED
  BY <1>1, <1>2, ListsStay, LoadedStays DEF ServiceInv

LEMMA ServePolicyKeeps ==
  ASSUME ServiceInv, NEW q \in Requests, ServePolicy(q)
  PROVE  ServiceInv'
<1>1. /\ Knows(q) /\ ~HasOverrides(q) /\ PolicyId(q) \in DOMAIN pipelines /\ phase = "serving"
      /\ Answer(q, 200, pipelines[PolicyId(q)][Stage(q)])
      /\ UNCHANGED <<cache, used>> /\ UNCHANGED <<deployment, loaded>>
  BY DEF ServePolicy, Serve, Answer, Knows
<1>2. pipelines[PolicyId(q)] = Pipeline(policies[PolicyId(q)], q.overrides)
  BY <1>1 DEF ServiceInv, LoadedIsRight, HasOverrides
<1>3. AnsweredIsRight'
  BY <1>1, <1>2, AnswerIsRight
<1>4. QED
  BY <1>1, <1>3, ListsStay, LoadedStays DEF ServiceInv

-----------------------------------------------------------------------------
LEMMA CachedIsItsOwn ==
  ASSUME ServiceInv, NEW q \in Requests, NEW i \in DOMAIN cache, cache[i].key = CacheKey(q)
  PROVE  cache[i].pipeline = Pipeline(policies[PolicyId(q)], q.overrides)
<1>1. cache[i] \in Entries
  BY DEF ServiceInv, CachedIsRight
<1>2. PICK other \in Requests : cache[i] = Entry(other)
  BY <1>1 DEF Entries
<1>3. PolicyId(other) = PolicyId(q) /\ other.overrides = q.overrides
  BY <1>2 DEF Entry, CacheKey
<1>4. QED
  BY <1>2, <1>3 DEF Entry

LEMMA ServeCachedKeeps ==
  ASSUME ServiceInv, NEW q \in Requests, ServeCached(q)
  PROVE  ServiceInv'
<1>1. PICK i \in DOMAIN cache :
        /\ cache[i].key = CacheKey(q)
        /\ cache' = Append(RemoveAt(cache, i), cache[i])
        /\ Answer(q, 200, cache[i].pipeline[Stage(q)])
  BY DEF ServeCached, Serve
<1>2. Knows(q) /\ IsValid(q) /\ phase = "serving" /\ Use(q) /\ UNCHANGED <<deployment, loaded>>
  BY <1>1 DEF ServeCached, Knows, Answer
<1>3. AnsweredIsRight'
  BY <1>1, <1>2, AnswerIsRight, CachedIsItsOwn
<1>4. cache \in Seq(Entries) /\ i \in 1 .. Len(cache) /\ Len(cache) \in Nat
  BY DEF ServiceInv, CachedIsRight
<1> PICK r : r = RemoveAt(cache, i)
  OBVIOUS
<1>5. /\ r \in Seq(Entries) /\ Len(r) = Len(cache) - 1
      /\ \A j \in 1 .. Len(cache) - 1 : r[j] = IF j < i THEN cache[j] ELSE cache[j + 1]
  BY <1>4, RemovedAt
<1>6. cache[i] \in Entries /\ cache' = Append(r, cache[i])
  BY <1>1, <1>4
<1>7. cache' \in Seq(Entries) /\ Len(cache') = Len(cache)
  BY <1>4, <1>5, <1>6
<1>8. ASSUME NEW j \in 1 .. Len(cache)
      PROVE  cache'[j] = IF j < i THEN cache[j]
                         ELSE IF j < Len(cache) THEN cache[j + 1] ELSE cache[i]
  <2>1. CASE j < Len(cache)
    <3>1. j \in 1 .. Len(r) /\ j \in 1 .. Len(cache) - 1
      BY <1>4, <1>5, <2>1
    <3>2. cache'[j] = r[j]
      BY <1>5, <1>6, <3>1
    <3>3. QED
      BY <1>5, <2>1, <3>1, <3>2
  <2>2. CASE ~(j < Len(cache))
    <3>1. j = Len(r) + 1 /\ ~(j < i)
      BY <1>4, <1>5, <2>2
    <3>2. cache'[j] = cache[i]
      BY <1>5, <1>6, <3>1
    <3>3. QED
      BY <2>2, <3>1, <3>2
  <2>3. QED
    BY <2>1, <2>2
<1>9. CachedIsRight'
  BY <1>2, <1>7, LoadedStays DEF CachedIsRight
<1>10. RecentIsKept'
  <2>1. /\ used \in Seq(UsedKeys) /\ Len(used) \in Nat
        /\ Distinct(used)
        /\ Len(cache) = Size
        /\ \A j \in 1 .. Len(cache) : cache[j].key = used[Len(used) - Len(cache) + j]
    BY DEF ServiceInv, RecentIsKept
  <2>2. capacity \in Int /\ capacity' = capacity
    BY <1>2 DEF ServiceInv, LoadedIsRight, deployment
  <2>3. Len(cache) <= Len(used)
    BY <2>1, <2>2 DEF Size
  <2>m. PICK m : m = Len(used) - Len(cache) + i
    OBVIOUS
  <2>4. m \in 1 .. Len(used) /\ used[m] = CacheKey(q)
    BY <1>1, <1>4, <2>1, <2>3, <2>m
  <2>5. used' = Append(RemoveFirst(used, used[m]), used[m])
    BY <1>2, <2>4 DEF Use
  <2>6. IsMoved(used', used, m, UsedKeys) /\ Distinct(used')
    BY <2>1, <2>4, <2>5, UsedAgain
  <2>7. Size' = Size
    BY <2>2, <2>6 DEF Size, IsMoved
  <2>8. ASSUME NEW j \in 1 .. Len(cache)
        PROVE  cache'[j].key = used'[Len(used) - Len(cache) + j]
    <3> PICK l : l = Len(used) - Len(cache) + j
      OBVIOUS
    <3>1. /\ l \in 1 .. Len(used)
          /\ l < m <=> j < i
          /\ l < Len(used) <=> j < Len(cache)
      BY <1>4, <2>1, <2>3, <2>m
    <3>2. used'[l] = IF l < m THEN used[l] ELSE IF l < Len(used) THEN used[l + 1] ELSE used[m]
      BY <2>6, <3>1 DEF IsMoved
    <3>3. cache[j].key = used[l]
      BY <2>1
    <3>4. j < Len(cache) => cache[j + 1].key = used[l + 1]
      <4>1. HAVE j < Len(cache)
      <4>2. j + 1 \in 1 .. Len(cache) /\ l + 1 = Len(used) - Len(cache) + (j + 1)
        BY <1>4, <2>1, <4>1
      <4>3. QED
        BY <2>1, <4>2
    <3>5. cache[i].key = used[m]
      BY <1>1, <2>4
    <3>6. cache'[j].key = used'[l]
      BY <1>8, <3>1, <3>2, <3>3, <3>4, <3>5
    <3>7. QED
      BY <3>6
  <2>9. UsedKeys' = UsedKeys
    BY DEF UsedKeys, CacheKey, PolicyId
  <2>10. QED
    BY <1>7, <2>1, <2>6, <2>7, <2>8, <2>9 DEF RecentIsKept, IsMoved
<1>11. QED
  BY <1>2, <1>3, <1>9, <1>10, LoadedStays DEF ServiceInv

(* What stays of a list that is at most one longer than it may be.           *)
LEMMA EvictedFirst ==
  ASSUME NEW X, NEW s \in Seq(X), capacity \in Nat, Len(s) <= capacity + 1
  PROVE  /\ Evict(s) \in Seq(X)
         /\ Len(Evict(s)) = IF Len(s) > capacity THEN capacity ELSE Len(s)
         /\ \A j \in 1 .. Len(Evict(s)) :
              Evict(s)[j] = IF Len(s) > capacity THEN s[j + 1] ELSE s[j]
<1>1. Len(s) \in Nat
  OBVIOUS
<1>2. CASE Len(s) > capacity
  <2>1. Len(s) = capacity + 1 /\ Len(s) - capacity + 1 = 2
    BY <1>1, <1>2
  <2>2. Evict(s) = SubSeq(s, 2, Len(s))
    BY <1>2, <2>1 DEF Evict
  <2>3. SubSeq(s, 2, Len(s)) \in Seq(X) /\ Len(SubSeq(s, 2, Len(s))) = capacity
    BY <1>1, <2>1
  <2>4. \A j \in 1 .. capacity : SubSeq(s, 2, Len(s))[j] = s[j + 1]
    BY <1>1, <2>1
  <2>5. QED
    BY <1>2, <2>2, <2>3, <2>4
<1>3. CASE ~(Len(s) > capacity)
  BY <1>3 DEF Evict
<1>4. QED
  BY <1>2, <1>3

(* A pipeline that is built with a bound of zero or more comes last.         *)
LEMMA BuiltIsKept ==
  ASSUME ServiceInv, NEW q \in Requests, Knows(q), ~Hit(q), capacity >= 0,
         cache' = Evict(Append(cache, Entry(q))), Use(q), capacity' = capacity,
         Entries' = Entries
  PROVE  CachedIsRight' /\ RecentIsKept'
<1> DEFINE key == CacheKey(q)
<1> DEFINE n == Len(used)
<1> DEFINE size == Len(cache)
<1> DEFINE more == Append(cache, Entry(q))
<1>1. /\ used \in Seq(UsedKeys) /\ n \in Nat /\ Distinct(used)
      /\ size = Size
      /\ \A j \in 1 .. size : cache[j].key = used[n - size + j]
  BY DEF ServiceInv, RecentIsKept
<1>2. capacity \in Nat
  BY DEF ServiceInv, LoadedIsRight
<1>3. size = IF n < capacity THEN n ELSE capacity
  BY <1>1, <1>2 DEF Size
<1>4. cache \in Seq(Entries) /\ size \in Nat /\ Entry(q) \in Entries /\ key \in UsedKeys
  BY DEF ServiceInv, CachedIsRight, Entries, Knows, UsedKeys
<1>5. /\ more \in Seq(Entries) /\ Len(more) = size + 1
      /\ \A j \in 1 .. size : more[j] = cache[j]
      /\ more[size + 1] = Entry(q)
  BY <1>4
<1> HIDE DEF more
<1>6. /\ cache' \in Seq(Entries)
      /\ Len(cache') = IF size = capacity THEN capacity ELSE size + 1
      /\ \A j \in 1 .. Len(cache') : cache'[j] = IF size = capacity THEN more[j + 1] ELSE more[j]
  <2>1. Len(more) <= capacity + 1 /\ (Len(more) > capacity <=> size = capacity)
    BY <1>1, <1>2, <1>3, <1>4, <1>5
  <2>2. cache' = Evict(more)
    BY DEF more
  <2>3. QED
    BY <1>2, <1>5, <2>1, <2>2, EvictedFirst
<1>7. CachedIsRight'
  BY <1>6 DEF CachedIsRight
<1>8. Entry(q).key = key
  BY DEF Entry
<1>9. UsedKeys' = UsedKeys
  BY DEF UsedKeys, CacheKey, PolicyId
<1>10. \A j \in 1 .. size : cache[j].key # key
  BY <1>4 DEF Hit
<1>11. used' = Append(RemoveFirst(used, key), key)
  BY DEF Use
<1> HIDE DEF key
<1>12. CASE IsNew(key, used)
  <2>1. IsAdded(used', used, key, UsedKeys) /\ Distinct(used')
    BY <1>1, <1>4, <1>11, <1>12, UsedFirst
  <2>2. /\ used' \in Seq(UsedKeys) /\ Len(used') = n + 1
        /\ \A j \in 1 .. n : used'[j] = used[j]
        /\ used'[n + 1] = key
    BY <2>1 DEF IsAdded
  <2>3. Len(cache') = Size'
    BY <1>1, <1>2, <1>3, <1>4, <1>6, <2>2 DEF Size
  <2>4. ASSUME NEW j \in 1 .. Len(cache')
        PROVE  cache'[j].key = used'[Len(used') - Len(cache') + j]
    <3>1. CASE size = capacity
      <4>1. Len(cache') = size /\ j + 1 \in 1 .. size + 1 /\ cache'[j] = more[j + 1]
        BY <1>2, <1>6, <3>1
      <4>2. Len(used') - Len(cache') + j = n - size + (j + 1)
        BY <1>1, <1>4, <2>2, <4>1
      <4>3. CASE j + 1 \in 1 .. size
        <5>1. cache'[j].key = used[n - size + (j + 1)]
          BY <1>1, <1>5, <4>1, <4>3
        <5>2. n - size + (j + 1) \in 1 .. n
          BY <1>1, <1>2, <1>3, <1>4, <4>3
        <5>3. QED
          BY <2>2, <4>2, <5>1, <5>2
      <4>4. CASE j + 1 = size + 1
        <5>1. cache'[j].key = key
          BY <1>5, <1>8, <4>1, <4>4
        <5>2. n - size + (j + 1) = n + 1
          BY <1>1, <1>4, <4>4
        <5>3. QED
          BY <2>2, <4>2, <5>1, <5>2
      <4>5. QED
        BY <1>4, <4>1, <4>3, <4>4
    <3>2. CASE size # capacity
      <4>1. size = n /\ Len(cache') = n + 1 /\ cache'[j] = more[j]
        BY <1>1, <1>3, <1>6, <3>2
      <4>2. Len(used') - Len(cache') + j = j
        BY <1>1, <2>2, <4>1
      <4>3. CASE j \in 1 .. n
        <5>1. cache'[j].key = used[n - size + j]
          BY <1>1, <1>5, <4>1, <4>3
        <5>2. n - size + j = j
          BY <1>1, <4>1
        <5>3. QED
          BY <2>2, <4>2, <4>3, <5>1, <5>2
      <4>4. CASE j = n + 1
        BY <1>5, <1>8, <2>2, <4>1, <4>2, <4>4
      <4>5. j \in 1 .. n \/ j = n + 1
        BY <1>1, <4>1
      <4>6. QED
        BY <4>3, <4>4, <4>5
    <3>3. QED
      BY <3>1, <3>2
  <2>5. QED
    BY <1>7, <1>9, <2>1, <2>2, <2>3, <2>4 DEF RecentIsKept
<1>13. CASE ~IsNew(key, used)
  <2>1. PICK m \in 1 .. n : used[m] = key
    BY <1>13 DEF IsNew
  <2>2. m <= n - size
    <3>1. CASE m > n - size
      <4>1. m - (n - size) \in 1 .. size /\ n - size + (m - (n - size)) = m
        BY <1>1, <1>4, <3>1
      <4>2. cache[m - (n - size)].key = key
        BY <1>1, <2>1, <4>1
      <4>3. QED
        BY <1>10, <4>1, <4>2
    <3>2. QED
      BY <1>1, <1>4, <3>1
  <2>3. size = capacity
    BY <1>1, <1>2, <1>3, <2>1, <2>2
  <2>4. IsMoved(used', used, m, UsedKeys) /\ Distinct(used')
    BY <1>1, <1>11, <2>1, UsedAgain
  <2>5. /\ used' \in Seq(UsedKeys) /\ Len(used') = n
        /\ \A j \in 1 .. n :
             used'[j] = IF j < m THEN used[j] ELSE IF j < n THEN used[j + 1] ELSE used[m]
    BY <2>4 DEF IsMoved
  <2>6. Len(cache') = size /\ Len(cache') = Size'
    BY <1>1, <1>2, <1>3, <1>6, <2>3, <2>5 DEF Size
  <2>7. ASSUME NEW j \in 1 .. size
        PROVE  cache'[j].key = used'[n - size + j]
    <3>1. cache'[j] = more[j + 1]
      BY <1>6, <2>3, <2>6
    <3>2. n - size + j \in 1 .. n /\ ~(n - size + j < m)
      <4>1. m \in Nat /\ m >= 1 /\ j \in Nat /\ j >= 1 /\ j <= size
        BY <1>1, <1>4
      <4>2. n - size + j \in Int /\ n - size + j >= m + j /\ n - size + j <= n
        BY <1>1, <1>4, <2>2, <4>1
      <4>3. QED
        BY <1>1, <4>1, <4>2
    <3>3. CASE j < size
      <4>1. j + 1 \in 1 .. size /\ n - size + j < n
        BY <1>1, <1>4, <3>3
      <4>2. cache'[j].key = used[n - size + (j + 1)]
        BY <1>1, <1>5, <3>1, <4>1
      <4>3. used'[n - size + j] = used[n - size + j + 1]
        BY <2>5, <3>2, <4>1
      <4>4. n - size + (j + 1) = n - size + j + 1
        BY <1>1, <1>4
      <4>5. QED
        BY <4>2, <4>3, <4>4
    <3>4. CASE j = size
      <4>1. cache'[j].key = key
        BY <1>5, <1>8, <3>1, <3>4
      <4>2. n - size + j = n
        BY <1>1, <1>4, <3>4
      <4>3. used'[n - size + j] = key
        BY <2>1, <2>5, <3>2, <4>2
      <4>4. QED
        BY <4>1, <4>3
    <3>5. QED
      BY <1>4, <3>3, <3>4
  <2>8. QED
    BY <1>7, <1>9, <2>4, <2>5, <2>6, <2>7 DEF RecentIsKept
<1>14. QED
  BY <1>12, <1>13

LEMMA ServeBuiltKeeps ==
  ASSUME ServiceInv, NEW q \in Requests, ServeBuilt(q)
  PROVE  ServiceInv'
<1> DEFINE pipeline == Pipeline(policies[PolicyId(q)], q.overrides)
<1>1. Knows(q) /\ HasOverrides(q) /\ IsValid(q) /\ ~Hit(q) /\ phase = "serving"
  BY DEF ServeBuilt, Knows
<1>2. CASE capacity < 0
  <2>1. Answer(q, 500, << >>) /\ cache' = << >> /\ used' = used
        /\ UNCHANGED <<deployment, loaded>> /\ capacity' = capacity
    BY <1>2 DEF ServeBuilt, Answer, deployment
  <2>2. AnsweredIsRight'
    BY <1>1, <2>1, AnswerIsRight
  <2>3. CachedIsRight'
    BY <2>1 DEF CachedIsRight
  <2>4. RecentIsKept'
    <3>1. used \in Seq(UsedKeys) /\ Distinct(used) /\ capacity \in Int /\ Len(used) \in Nat
      BY DEF ServiceInv, RecentIsKept, LoadedIsRight
    <3>2. Size' = 0 /\ Len(cache') = 0
      BY <1>2, <2>1, <3>1 DEF Size
    <3>3. UsedKeys' = UsedKeys
      BY DEF UsedKeys, CacheKey, PolicyId
    <3>4. QED
      BY <2>1, <3>1, <3>2, <3>3 DEF RecentIsKept
  <2>5. QED
    BY <1>1, <2>1, <2>2, <2>3, <2>4, LoadedStays DEF ServiceInv
<1>3. CASE ~(capacity < 0)
  <2>1. /\ Answer(q, 200, pipeline[Stage(q)])
        /\ cache' = Evict(Append(cache, [key |-> CacheKey(q), pipeline |-> pipeline]))
        /\ Use(q) /\ UNCHANGED <<deployment, loaded>> /\ capacity' = capacity
    BY <1>3 DEF ServeBuilt, Serve, Answer, deployment
  <2>2. AnsweredIsRight'
    BY <1>1, <2>1, AnswerIsRight
  <2>3. cache' = Evict(Append(cache, Entry(q)))
    BY <2>1 DEF Entry
  <2>4. capacity >= 0
    BY <1>3 DEF ServiceInv, LoadedIsRight
  <2>5. LoadedIsRight' /\ Entries' = Entries
    BY <1>1, <2>1, LoadedStays
  <2>6. CachedIsRight' /\ RecentIsKept'
    BY <1>1, <2>1, <2>3, <2>4, <2>5, BuiltIsKept
  <2>7. QED
    BY <2>2, <2>5, <2>6 DEF ServiceInv
<1>4. QED
  BY <1>2, <1>3

LEMMA FailToStartKeeps == ASSUME ServiceInv, FailToStart PROVE ServiceInv'
<1>1. /\ phase = "starting" /\ phase' = "crashed"
      /\ UNCHANGED <<deployment, policies, pipelines, cache, used, request, answer>>
  BY DEF FailToStart
<1>2. /\ files' = files /\ env' = env /\ capacity' = capacity /\ cache' = cache
      /\ used' = used /\ answer' = answer /\ policies' = policies /\ pipelines' = pipelines
  BY <1>1 DEF deployment
<1>3. cache = << >> /\ used = << >> /\ answer.status = 0
  BY <1>1 DEF ServiceInv, LoadedIsRight
<1>4. \A id : Pipeline(policies[id], << >>)' = Pipeline(policies[id], << >>)
  BY <1>2 DEF Pipeline, Merged
<1>5. LoadedIsRight'
  BY <1>1, <1>2, <1>3, <1>4 DEF ServiceInv, LoadedIsRight
<1>6. CachedIsRight'
  BY <1>2, <1>3 DEF CachedIsRight
<1>7. AnsweredIsRight'
  BY <1>2, <1>3 DEF AnsweredIsRight
<1>8. UsedKeys' = UsedKeys
  BY DEF UsedKeys, CacheKey, PolicyId
<1>9. RecentIsKept'
  BY <1>2, <1>8 DEF ServiceInv, RecentIsKept, Size
<1>10. QED
  BY <1>5, <1>6, <1>7, <1>9 DEF ServiceInv

LEMMA CheckKeeps ==
  ASSUME ServiceInv, NEW q \in Requests, Check(q)
  PROVE  ServiceInv'
<1>1. CASE UnknownPolicy(q)
  BY <1>1, RefusedKeeps DEF UnknownPolicy
<1>2. CASE OverridesDisabled(q)
  BY <1>2, RefusedKeeps DEF OverridesDisabled, Knows
<1>3. CASE InvalidOverrides(q)
  BY <1>3, RefusedKeeps DEF InvalidOverrides, Knows
<1>4. CASE NoPipeline(q)
  BY <1>4, RefusedKeeps DEF NoPipeline, Knows
<1>5. CASE ServePolicy(q)
  BY <1>5, ServePolicyKeeps
<1>6. CASE ServeCached(q)
  BY <1>6, ServeCachedKeeps
<1>7. CASE BuildFails(q)
  BY <1>7, RefusedKeeps DEF BuildFails, Knows
<1>8. CASE ServeBuilt(q)
  BY <1>8, ServeBuiltKeeps
<1>9. QED
  BY <1>1, <1>2, <1>3, <1>4, <1>5, <1>6, <1>7, <1>8 DEF Check

LEMMA ServiceStays == ASSUME ServiceInv, UNCHANGED vars PROVE ServiceInv'
<1>1. /\ files' = files /\ env' = env /\ capacity' = capacity /\ allow' = allow
      /\ phase' = phase /\ policies' = policies /\ pipelines' = pipelines
      /\ cache' = cache /\ used' = used /\ request' = request /\ answer' = answer
  BY DEF vars, deployment, loaded
<1>3. \A id : Pipeline(policies[id], << >>)' = Pipeline(policies[id], << >>)
  BY <1>1 DEF Pipeline, Merged
<1>4. LoadedIsRight'
  BY <1>1, <1>3 DEF ServiceInv, LoadedIsRight
<1>5. \A q : Entry(q)' = Entry(q)
  BY <1>1 DEF Entry, Pipeline, Merged, CacheKey, PolicyId
<1>6. Entries' = Entries
  BY <1>1, <1>5 DEF Entries, PolicyId
<1>7. CachedIsRight'
  BY <1>1, <1>6 DEF ServiceInv, CachedIsRight
<1>8. Pipeline(policies[PolicyId(request)], request.overrides)'
        = Pipeline(policies[PolicyId(request)], request.overrides)
  BY <1>1 DEF Pipeline, Merged, PolicyId
<1>9. (Knows(request)' <=> Knows(request)) /\ (IsValid(request)' <=> IsValid(request))
  BY <1>1 DEF Knows, IsValid, PolicyId
<1>10. ((HasOverrides(request))' <=> HasOverrides(request)) /\ Stage(request)' = Stage(request)
  BY <1>1 DEF HasOverrides, Stage
<1>11. AnsweredIsRight'
  BY <1>1, <1>8, <1>9, <1>10 DEF ServiceInv, AnsweredIsRight
<1>12. UsedKeys' = UsedKeys
  BY DEF UsedKeys, CacheKey, PolicyId
<1>13. RecentIsKept'
  BY <1>1, <1>12 DEF ServiceInv, RecentIsKept, Size
<1>14. QED
  BY <1>4, <1>7, <1>11, <1>13 DEF ServiceInv

LEMMA ServiceStepKeeps == ServiceInv /\ [Next]_vars => ServiceInv'
<1> SUFFICES ASSUME ServiceInv, [Next]_vars PROVE ServiceInv'
  OBVIOUS
<1>1. CASE Start
  BY <1>1, StartKeepsService
<1>2. CASE FailToStart
  BY <1>2, FailToStartKeeps
<1>3. CASE \E q \in Requests : Check(q)
  BY <1>3, CheckKeeps
<1>4. CASE UNCHANGED vars
  BY <1>4, ServiceStays
<1>5. QED
  BY <1>1, <1>2, <1>3, <1>4 DEF Next

-----------------------------------------------------------------------------
LEMMA LoadableIsGood ==
  ASSUME ServiceInv, NEW file \in ToSet(files)
  PROVE  IsLoadable(file) <=> IsGood(file)
<1>1. ASSUME NEW s \in Stages
      PROVE  (\A spec \in ToSet(Enabled(file.stages[s])) : spec.guard \in Registered)
               <=> \A i \in DOMAIN file.stages[s] :
                     file.stages[s][i].enabled => file.stages[s][i].guard \in Registered
  <2> DEFINE specs == file.stages[s]
  <2>1. specs \in Seq(ToSet(specs))
    BY FilesHaveStages
  <2>2. ToSet(Enabled(specs)) = ToSet(specs) \cap {spec \in ToSet(specs) : spec.enabled}
    BY <2>1, ChosenAreKept DEF Enabled
  <2>3. ToSet(specs) = {specs[i] : i \in DOMAIN specs}
    BY DEF ToSet
  <2> HIDE DEF specs
  <2>4. (\A spec \in ToSet(Enabled(specs)) : spec.guard \in Registered)
           <=> \A i \in DOMAIN specs : specs[i].enabled => specs[i].guard \in Registered
    BY <2>2, <2>3
  <2>5. QED
    BY <2>4 DEF specs
<1>2. QED
  BY <1>1 DEF IsLoadable, IsGood

LEMMA LastGoodRules == ServiceInv => LastGoodFileRules
<1> SUFFICES ASSUME ServiceInv, phase = "serving"
             PROVE  /\ DOMAIN policies = {files[i].id : i \in {i \in DOMAIN files : IsGood(files[i])}}
                    /\ \A id \in DOMAIN policies :
                         \E i \in DOMAIN files :
                           /\ policies[id] = files[i]
                           /\ files[i].id = id
                           /\ \A j \in DOMAIN files : j > i /\ files[j].id = id => ~IsGood(files[j])
  BY DEF LastGoodFileRules
<1>1. files \in Seq(ToSet(files)) /\ policies = LoadPolicies(files)
  BY ServiceAssumption DEF ServiceInv, LoadedIsRight
<1>2. RulesAfter(policies, files, Len(files))
  BY <1>1, LastLoadableRules
<1>3. DOMAIN files = 1 .. Len(files)
  BY <1>1
<1>4. \A i \in DOMAIN files : IsLoadable(files[i]) <=> IsGood(files[i])
  <2>1. \A i \in DOMAIN files : files[i] \in ToSet(files)
    BY DEF ToSet
  <2>2. QED
    BY <2>1, LoadableIsGood
<1>5. QED
  BY <1>2, <1>3, <1>4 DEF RulesAfter

LEMMA TunedAsAsked ==
  ASSUME ServiceInv, NEW q \in Requests, HasOverrides(q) => IsValid(q), NEW spec
  PROVE  Merged(spec, q.overrides) = SettingsOf(q, spec)
<1> DEFINE g == spec.guard
<1> DEFINE asked == IF g \in DOMAIN q.overrides THEN q.overrides[g] ELSE << >>
<1> DEFINE tuned == {k \in Keys : Tunes(q, g, k)}
<1>1. CASE g \in DOMAIN q.overrides
  <2>1. HasOverrides(q)
    BY <1>1 DEF HasOverrides
  <2>2. DOMAIN q.overrides[g] \subseteq Allowed \ Forbidden
    BY <1>1, <2>1 DEF IsValid
  <2>3. DOMAIN q.overrides[g] \subseteq Keys
    BY <1>1, ServiceAssumption
  <2>4. tuned = DOMAIN asked
    BY <1>1, <2>2, <2>3 DEF Tunes
  <2>5. \A k \in tuned : asked[k] = q.overrides[g][k]
    BY <1>1
  <2>6. QED
    BY <2>4, <2>5 DEF Merged, SettingsOf, Over, NoConfig
<1>2. CASE g \notin DOMAIN q.overrides
  <2>1. tuned = {} /\ asked = << >> /\ DOMAIN << >> = {}
    BY <1>2 DEF Tunes
  <2>2. QED
    BY <1>2, <2>1 DEF Merged, SettingsOf, Over, NoConfig
<1>3. QED
  BY <1>1, <1>2

LEMMA ServedRight == ServiceInv => ServedAsConfigured
<1> SUFFICES ASSUME ServiceInv, answer.status = 200 PROVE ServedAsConfigured
  BY DEF ServedAsConfigured
<1> DEFINE q == request
<1> DEFINE specs == Enabled(policies[PolicyId(q)].stages[Stage(q)])
<1>1. /\ q \in Requests /\ Knows(q) /\ (HasOverrides(q) => IsValid(q))
      /\ answer.guards = Pipeline(policies[PolicyId(q)], q.overrides)[Stage(q)]
  BY DEF ServiceInv, AnsweredIsRight
<1>2. Stage(q) \in Stages
  <2>1. q.stage \in Stages \cup {"llm_input", "llm_output"}
    BY <1>1, ServiceAssumption
  <2>2. QED
    BY <2>1 DEF Stage, Stages
<1>3. answer.guards = [i \in DOMAIN specs |->
                         [guard |-> specs[i].guard, config |-> Merged(specs[i], q.overrides)]]
  BY <1>1, <1>2 DEF Pipeline
<1>4. policies[PolicyId(q)] \in ToSet(files)
  BY <1>1, PoliciesAreFiles DEF Knows
<1> PICK X : X = ToSet(policies[PolicyId(q)].stages[Stage(q)])
  OBVIOUS
<1>5. policies[PolicyId(q)].stages[Stage(q)] \in Seq(X)
  BY <1>2, <1>4, FilesHaveStages
<1>6. specs \in Seq(X)
  BY <1>5, ChosenIsSequence DEF Enabled
<1>7. \A spec : Merged(spec, q.overrides) = SettingsOf(q, spec)
  BY <1>1, TunedAsAsked
<1> HIDE DEF specs
<1>8. Len(answer.guards) = Len(specs)
  <2>1. DOMAIN specs = 1 .. Len(specs) /\ Len(specs) \in Nat
    BY <1>6
  <2>2. QED
    BY <1>3, <2>1
<1>9. \A i \in DOMAIN specs :
        answer.guards[i] = [guard |-> specs[i].guard, config |-> SettingsOf(q, specs[i])]
  BY <1>3, <1>7
<1>10. QED
  BY <1>8, <1>9 DEF ServedAsConfigured, specs

LEMMA RecentAreKept == ServiceInv => CacheKeepsRecent
<1> SUFFICES ASSUME ServiceInv PROVE CacheKeepsRecent
  OBVIOUS
<1>1. /\ used \in Seq(UsedKeys) /\ Len(used) \in Nat
      /\ Len(cache) = Size
      /\ \A i \in 1 .. Len(cache) : cache[i].key = used[Len(used) - Len(cache) + i]
  BY DEF ServiceInv, RecentIsKept
<1>2. Len(cache) \in Nat /\ DOMAIN cache = 1 .. Len(cache) /\ capacity \in Int
  BY DEF ServiceInv, CachedIsRight, LoadedIsRight
<1>3. Size <= Len(used)
  BY <1>1, <1>2 DEF Size
<1>4. [i \in DOMAIN cache |-> cache[i].key] = SubSeq(used, Len(used) - Size + 1, Len(used))
  <2> DEFINE from == Len(used) - Size + 1
  <2>1. from \in 1 .. Len(used) + 1 /\ Len(used) - from + 1 = Len(cache)
    BY <1>1, <1>2, <1>3
  <2>2. SubSeq(used, from, Len(used)) = [i \in 1 .. Len(cache) |-> used[i + from - 1]]
    BY <1>1, <2>1
  <2>3. \A i \in 1 .. Len(cache) : i + from - 1 = Len(used) - Len(cache) + i
    BY <1>1, <1>2
  <2>4. QED
    BY <1>1, <1>2, <2>2, <2>3
<1>5. QED
  BY <1>4 DEF CacheKeepsRecent, Size

(* Whatever a folder holds and in whatever order its files come, the service *)
(* serves the ids of its good files, each as the last of them says: a bad    *)
(* file hides no good one (load_policies).                                   *)
THEOREM LoaderRules == Spec => []LastGoodFileRules
<1>1. Init => ServiceInv
  BY ServiceInitHolds
<1>2. QED
  BY <1>1, ServiceStepKeeps, LastGoodRules, PTL DEF Spec

(* An answer comes from the guards that its policy enables for its stage, in *)
(* their order, each with the settings of the policy, the environment and    *)
(* what this request may tune, whether the pipeline was prepared, cached or  *)
(* built for it, after any requests and for any bound of the cache.          *)
THEOREM ServiceServes == Spec => []ServedAsConfigured
<1>1. Init => ServiceInv
  BY ServiceInitHolds
<1>2. QED
  BY <1>1, ServiceStepKeeps, ServedRight, PTL DEF Spec

(* The cache holds the pipelines used last, in that order, and no more than  *)
(* its bound, for any bound and any run of requests (_resolve_pipeline).     *)
THEOREM CacheKeeps == Spec => []CacheKeepsRecent
<1>1. Init => ServiceInv
  BY ServiceInitHolds
<1>2. QED
  BY <1>1, ServiceStepKeeps, RecentAreKept, PTL DEF Spec

-----------------------------------------------------------------------------
(***************************************************************************)
(* The evaluation.                                                         *)
(***************************************************************************)
(* A run has failed only when it has ended.                                  *)
RunsAreShaped ==
  \/ runs = << >>
  \/ /\ DOMAIN runs = DOMAIN items
     /\ \A i \in DOMAIN items :
          /\ DOMAIN runs[i] = Names
          /\ \A e \in Names : runs[i][e].status = "failed" => runs[i][e].at = "ended"

AllHaveEnded ==
  /\ runs # << >>
  /\ \A i \in DOMAIN items : \A e \in Names : runs[i][e].at \in {"left_out", "ended"}

RepliesAreDue ==
  /\ reply.status \in {0, 200, 500}
  /\ reply.status = 200 =>
       /\ AllHaveEnded
       /\ reply.pass = [i \in DOMAIN items |-> OverallPass(i)]
       /\ reply.overall => \A i \in DOMAIN items : OverallPass(i)
  /\ reply.status # 200 => reply.pass = << >>

EvalInv == RunsAreShaped /\ RepliesAreDue

-----------------------------------------------------------------------------
LEMMA EvalInitHolds == ASSUME EvalInit PROVE EvalInv
BY DEF EvalInit, EvalInv, RunsAreShaped, RepliesAreDue

LEMMA StartKeeps == ASSUME EvalInv, StartEvaluation PROVE EvalInv'
<1>1. /\ runs' = [i \in DOMAIN items |-> [e \in Names |-> FirstRun(items[i], e)]]
      /\ UNCHANGED <<eval, items, reply>> /\ reply.status = 0
  BY DEF StartEvaluation
<1>2. \A i \in DOMAIN items, e \in Names : FirstRun(items[i], e).status # "failed"
  BY DEF FirstRun, Run
<1>3. QED
  BY <1>1, <1>2 DEF EvalInv, RunsAreShaped, RepliesAreDue

(* A step of one evaluator leaves all the others, and the reply, alone.      *)
StepOf(i, e) ==
  /\ runs # << >>
  /\ runs[i][e].at \in {"sdk", "direct"}
  /\ \E run : /\ run.status = "failed" => run.at = "ended"
              /\ runs' = [runs EXCEPT ![i][e] = run]
  /\ UNCHANGED <<eval, items, reply>>

LEMMA StepsAreOfOne ==
  ASSUME NEW i \in DOMAIN items, NEW e \in Names, EvalStep(i, e)
  PROVE  StepOf(i, e)
<1> DEFINE returned(raw) ==
             IF raw = Empty /\ Of(e).category = "safety"
             THEN Run(IF Of(e).direct /\ eval.direct THEN "direct" ELSE "ended",
                      raw, NotAsked, "skipped")
             ELSE Run("ended", raw, NotAsked, Status(Passes(Of(e).grading, raw)))
<1>1. ASSUME NEW run, Set(i, e, run), run.status = "failed" => run.at = "ended",
             runs # << >>, runs[i][e].at \in {"sdk", "direct"}
      PROVE  StepOf(i, e)
  BY <1>1 DEF Set, StepOf
<1>2. CASE SdkReturns(i, e)
  <2>1. PICK raw \in SdkResults[Of(e).grading] : Set(i, e, returned(raw))
    BY <1>2 DEF SdkReturns
  <2>2. returned(raw).status = "failed" => returned(raw).at = "ended"
    BY DEF Run
  <2>3. runs # << >> /\ runs[i][e].at = "sdk"
    BY <1>2 DEF SdkReturns, IsAt
  <2> HIDE DEF returned
  <2>4. QED
    BY <2>1, <2>2, <2>3, <1>1
<1>3. CASE SdkRaises(i, e)
  BY <1>1, <1>3 DEF SdkRaises, IsAt, Run
<1>4. CASE DirectAnswers(i, e)
  BY <1>1, <1>4 DEF DirectAnswers, IsAt, Run
<1>5. CASE DirectFails(i, e)
  BY <1>1, <1>5 DEF DirectFails, IsAt, Run
<1>6. CASE DirectRaises(i, e)
  BY <1>1, <1>6 DEF DirectRaises, IsAt, Run
<1>7. QED
  BY <1>2, <1>3, <1>4, <1>5, <1>6 DEF EvalStep

(* What has ended or raised stays as it is, whatever happens next.           *)
LEMMA OthersStay ==
  ASSUME EvalInv, NEW i \in DOMAIN items, NEW e \in Names, StepOf(i, e)
  PROVE  /\ DOMAIN runs' = DOMAIN items /\ \A j \in DOMAIN items : DOMAIN runs'[j] = Names
         /\ runs'[i][e].status = "failed" => runs'[i][e].at = "ended"
         /\ \A j \in DOMAIN items, d \in Names : j # i \/ d # e => runs'[j][d] = runs[j][d]
         /\ UNCHANGED <<items, reply>>
<1>1. PICK run : /\ run.status = "failed" => run.at = "ended"
                 /\ runs' = [runs EXCEPT ![i][e] = run]
  BY DEF StepOf
<1>2. DOMAIN runs = DOMAIN items /\ \A j \in DOMAIN items : DOMAIN runs[j] = Names
  BY DEF StepOf, EvalInv, RunsAreShaped
<1>3. QED
  BY <1>1, <1>2 DEF StepOf

LEMMA OneStepKeeps ==
  ASSUME EvalInv, NEW i \in DOMAIN items, NEW e \in Names, StepOf(i, e)
  PROVE  EvalInv'
<1>1. /\ DOMAIN runs' = DOMAIN items /\ \A j \in DOMAIN items : DOMAIN runs'[j] = Names
      /\ runs'[i][e].status = "failed" => runs'[i][e].at = "ended"
      /\ \A j \in DOMAIN items, d \in Names : j # i \/ d # e => runs'[j][d] = runs[j][d]
      /\ UNCHANGED <<items, reply>>
  BY OthersStay
<1>2. RunsAreShaped'
  BY <1>1 DEF StepOf, EvalInv, RunsAreShaped
<1>3. reply.status # 200
  BY DEF StepOf, EvalInv, RepliesAreDue, AllHaveEnded
<1>4. QED
  BY <1>1, <1>2, <1>3 DEF EvalInv, RepliesAreDue

LEMMA FailBatchKeeps == ASSUME EvalInv, FailBatch PROVE EvalInv'
BY DEF FailBatch, EvalInv, RunsAreShaped, RepliesAreDue

LEMMA AnswerBatchKeeps == ASSUME EvalInv, AnswerBatch PROVE EvalInv'
<1>1. RunsAreShaped'
  BY DEF AnswerBatch, EvalInv, RunsAreShaped
<1>2. DOMAIN runs = DOMAIN items
  BY DEF AnswerBatch, EvalInv, RunsAreShaped
<1>3. AllHaveEnded'
  BY <1>2 DEF AnswerBatch, AllHaveEnded
<1>4. \A i : OverallPass(i)' <=> OverallPass(i)
  BY DEF AnswerBatch, OverallPass
<1>5. RepliesAreDue'
  BY <1>3, <1>4 DEF AnswerBatch, RepliesAreDue, OverallPass
<1>6. QED
  BY <1>1, <1>5 DEF EvalInv

LEMMA EvalStutterKeeps == ASSUME EvalInv, UNCHANGED evalVars PROVE EvalInv'
<1>1. runs' = runs /\ items' = items /\ reply' = reply
  BY DEF evalVars
<1>2. RunsAreShaped' /\ (AllHaveEnded => AllHaveEnded')
  BY <1>1 DEF EvalInv, RunsAreShaped, AllHaveEnded
<1>3. \A i \in DOMAIN items : OverallPass(i)' = OverallPass(i)
  BY <1>1, Zenon DEF OverallPass
<1>4. [i \in DOMAIN items |-> OverallPass(i)'] = [i \in DOMAIN items |-> OverallPass(i)]
  BY <1>3, Zenon
<1>5. RepliesAreDue
  BY DEF EvalInv
<1>6. ASSUME reply.status = 200
      PROVE  /\ reply.pass = [i \in DOMAIN items |-> OverallPass(i)']
             /\ reply.overall => \A i \in DOMAIN items : OverallPass(i)'
  BY <1>3, <1>4, <1>5, <1>6, Zenon DEF RepliesAreDue
<1>7. RepliesAreDue'
  BY <1>1, <1>2, <1>5, <1>6 DEF RepliesAreDue
<1>8. QED
  BY <1>2, <1>7 DEF EvalInv

LEMMA EvalStepKeeps == EvalInv /\ [EvalNext]_evalVars => EvalInv'
<1> SUFFICES ASSUME EvalInv, [EvalNext]_evalVars PROVE EvalInv'
  OBVIOUS
<1>1. CASE StartEvaluation
  BY <1>1, StartKeeps
<1>2. CASE \E i \in DOMAIN items, e \in Names : EvalStep(i, e)
  BY <1>2, StepsAreOfOne, OneStepKeeps
<1>3. CASE FailBatch
  BY <1>3, FailBatchKeeps
<1>4. CASE AnswerBatch
  BY <1>4, AnswerBatchKeeps
<1>5. CASE UNCHANGED evalVars
  BY <1>5, EvalStutterKeeps
<1>6. QED
  BY <1>1, <1>2, <1>3, <1>4, <1>5 DEF EvalNext

(* A run that has ended, or raised, is never run again.                      *)
LEMMA EndedStays ==
  ASSUME EvalInv, EvalNext \/ UNCHANGED evalVars, NEW i \in DOMAIN runs, NEW e \in Names,
         runs[i][e].at \notin {"sdk", "direct"}
  PROVE  runs # << >> /\ items' = items /\ i \in DOMAIN items /\ runs'[i][e] = runs[i][e]
<1>1. runs # << >> /\ i \in DOMAIN items
  BY DEF EvalInv, RunsAreShaped
<1>2. CASE \E j \in DOMAIN items, d \in Names : EvalStep(j, d)
  <2>1. PICK j \in DOMAIN items, d \in Names : EvalStep(j, d)
    BY <1>2
  <2>2. StepOf(j, d)
    BY <2>1, StepsAreOfOne
  <2>3. j # i \/ d # e
    BY <2>2 DEF StepOf
  <2>4. QED
    BY <1>1, <2>2, <2>3, OthersStay
<1>3. CASE FailBatch \/ AnswerBatch \/ UNCHANGED evalVars
  BY <1>1, <1>3 DEF FailBatch, AnswerBatch, evalVars
<1>4. QED
  BY <1>1, <1>2, <1>3 DEF EvalNext, StartEvaluation

(* No failure that a safety or quality evaluator has found is lost, for any  *)
(* batch, any deployment, anything the SDK or Content Safety returns and any *)
(* order of the evaluators.                                                  *)
THEOREM FailuresAreKept == EvalSpec => NoFailureIsLost
<1>1. EvalInit => EvalInv
  BY EvalInitHolds
<1> DEFINE Told ==
      \A i \in DOMAIN runs : \A e \in Names :
        /\ runs[i][e].status = "failed" =>
             /\ runs'[i][e] = runs[i][e]
             /\ reply'.status = 200 /\ Of(e).category \in {"safety", "quality"} =>
                  ~reply'.pass[i] /\ ~reply'.overall
        /\ runs[i][e].at = "raised" => reply'.status \in {0, 500} /\ reply'.pass = << >>
<1>2. ASSUME EvalInv, [EvalNext]_evalVars
      PROVE  Told
  <2>1. EvalInv'
    BY <1>2, EvalStepKeeps
  <2>2. ASSUME NEW i \in DOMAIN runs, NEW e \in Names, runs[i][e].status = "failed"
        PROVE  /\ runs'[i][e] = runs[i][e]
               /\ reply'.status = 200 /\ Of(e).category \in {"safety", "quality"} =>
                    ~reply'.pass[i] /\ ~reply'.overall
    <3>1. runs[i][e].at = "ended"
      BY <1>2, <2>2 DEF EvalInv, RunsAreShaped
    <3>2. items' = items /\ i \in DOMAIN items /\ runs'[i][e] = runs[i][e]
      BY <1>2, <3>1, EndedStays
    <3>3. ASSUME reply'.status = 200, Of(e).category \in {"safety", "quality"}
          PROVE  ~reply'.pass[i] /\ ~reply'.overall
      <4>1. ~OverallPass(i)'
        BY <2>2, <3>2, <3>3 DEF OverallPass
      <4>2. /\ reply'.pass = [j \in DOMAIN items' |-> OverallPass(j)']
            /\ reply'.overall => \A j \in DOMAIN items' : OverallPass(j)'
        BY <2>1, <3>3 DEF EvalInv, RepliesAreDue
      <4>3. reply'.pass[i] = OverallPass(i)'
        BY <3>2, <4>2
      <4>4. QED
        BY <3>2, <4>1, <4>2, <4>3
    <3>4. QED
      BY <3>2, <3>3
  <2>3. ASSUME NEW i \in DOMAIN runs, NEW e \in Names, runs[i][e].at = "raised"
        PROVE  reply'.status \in {0, 500} /\ reply'.pass = << >>
    <3>1. items' = items /\ i \in DOMAIN items /\ runs'[i][e] = runs[i][e]
      BY <1>2, <2>3, EndedStays
    <3>2. ~AllHaveEnded'
      BY <2>3, <3>1 DEF AllHaveEnded
    <3>3. QED
      BY <2>1, <3>2 DEF EvalInv, RepliesAreDue
  <2>4. QED
    BY <2>2, <2>3
<1>3. QED
  BY <1>1, <1>2, EvalStepKeeps, PTL DEF EvalSpec, NoFailureIsLost

-----------------------------------------------------------------------------
(***************************************************************************)
(* The authentication.                                                     *)
(***************************************************************************)
Versions == 0 .. MaxRotations

Statuses == {0, 200, 401, 403, 500}

Caller ==
  [at : {"new", "fetching", "received", "keys", "done"}, header : Authorizations \cup {"none"},
   now : Nat, document : Versions \cup {None}, since : Nat, status : Statuses]

(* The type of every variable.                                               *)
AuthTypeOK ==
  /\ clock \in Nat
  /\ version \in Versions
  /\ lastServed \in [Versions -> Nat]
  /\ signing \in Versions
  /\ discovery \in [document : Versions \cup {None}, time : Nat]
  /\ keySet \in [key : Versions \cup {None}, time : Nat]
  /\ resolved \subseteq Versions
  /\ caller \in [Callers -> Caller]

(* The tenant serves its version now.                                        *)
ServedNow == lastServed[version] = clock

NothingServedLater == \A v \in Versions : lastServed[v] <= clock

(* A document was served no earlier than the time kept with it, and the keys *)
(* that are kept were published.                                             *)
KeptWasServed ==
  /\ discovery.document # None => lastServed[discovery.document] >= discovery.time
  /\ keySet.key # None => keySet.key \in 0 .. signing
  /\ resolved \subseteq 0 .. signing

(* The document may still speak for its issuer.                              *)
MaySpeak(document, now) ==
  \/ "issuer" \in settings.pinned
  \/ document \in Versions /\ lastServed[document] > now - Lifetime

AadAsked == settings.mode # "static" /\ AadConfigured /\ settings.pyjwt

(* What is asked of a request that is let in.                                *)
Trusted(header, now, document) ==
  \/ /\ settings.mode # "aad"
     /\ header.kind = "static"
     /\ header.token = settings.secret
  \/ /\ AadAsked
     /\ header.kind = "jwt" /\ header.audience
     /\ settings.apps = {} \/ header.app \in settings.apps
     /\ header.key \in 0 .. signing
     /\ header.issuer = Issuer(document)
     /\ MaySpeak(document, now)

(* A request that fetches is one that the mode sends to the tenant; the      *)
(* document it got was served after it looked at the clock.                  *)
RequestInv(r) ==
  /\ r.at \in {"fetching", "received", "keys"} => AadAsked
  /\ r.at \in {"fetching", "received"} => r.now <= clock
  /\ r.at = "received" => r.document \in Versions /\ lastServed[r.document] >= r.now
  /\ r.at = "keys" => r.header.kind = "jwt" /\ MaySpeak(r.document, r.now)
  /\ r.status = 200 => Trusted(r.header, r.now, r.document)

AuthInv ==
  /\ AuthTypeOK
  /\ ServedNow
  /\ NothingServedLater
  /\ KeptWasServed
  /\ \A c \in Callers : RequestInv(caller[c])

-----------------------------------------------------------------------------
(* A decision that lets a request in has looked at all of the token.         *)
LEMMA DecidedType ==
  ASSUME NEW header, NEW document
  PROVE  /\ Decided(header, document) \in {200, 401, 403}
         /\ Decided(header, document) = 200 =>
              /\ CheckClaims(header, document)
              /\ settings.apps = {} \/ header.app \in settings.apps
BY DEF Decided

LEMMA DecidedIsTrusted ==
  ASSUME NEW header, NEW now, NEW document
  PROVE  (/\ AadAsked /\ MaySpeak(document, now)
          /\ header.kind = "jwt" /\ header.key \in 0 .. signing
          /\ Decided(header, document) = 200)
            => Trusted(header, now, document)
<1> SUFFICES ASSUME AadAsked, MaySpeak(document, now), header.kind = "jwt",
                    header.key \in 0 .. signing, Decided(header, document) = 200
             PROVE  Trusted(header, now, document)
  OBVIOUS
<1>1. /\ CheckClaims(header, document)
      /\ settings.apps = {} \/ header.app \in settings.apps
  BY DecidedType
<1>2. header.audience /\ header.issuer = Issuer(document)
  BY <1>1, Zenon DEF CheckClaims
<1>3. QED
  BY <1>1, <1>2, Zenon DEF Trusted

(* What a request is asked is about the tenant as it is, and about no cache. *)
LEMMA RequestInvStays ==
  ASSUME AuthInv, UNCHANGED tenantVars, NEW r \in Caller, RequestInv(r)
  PROVE  RequestInv(r)'
<1>1. UNCHANGED <<settings, clock, version, lastServed, signing>>
  BY DEF tenantVars
<1>2. QED
  BY <1>1 DEF RequestInv, Trusted, MaySpeak, AadAsked, AadConfigured, Issuer

(* Only the record of the request itself has to be looked at.                *)
LEMMA RequestMoves ==
  ASSUME AuthInv, NEW c \in Callers, NEW r \in Caller, RequestInv(r),
         caller' = [caller EXCEPT ![c] = r],
         UNCHANGED tenantVars,
         discovery' \in [document : Versions \cup {None}, time : Nat],
         keySet' \in [key : Versions \cup {None}, time : Nat],
         resolved' \subseteq Versions,
         KeptWasServed'
  PROVE  AuthInv'
<1>1. UNCHANGED <<settings, clock, version, lastServed, signing>>
  BY DEF tenantVars
<1>2. caller \in [Callers -> Caller]
  BY DEF AuthInv, AuthTypeOK
<1>3. /\ caller' \in [Callers -> Caller]
      /\ caller'[c] = r
      /\ \A d \in Callers \ {c} : caller'[d] = caller[d]
  BY <1>2
<1>4. AuthTypeOK'
  BY <1>1, <1>3 DEF AuthInv, AuthTypeOK
<1>5. ServedNow' /\ NothingServedLater'
  BY <1>1 DEF AuthInv, ServedNow, NothingServedLater
<1>6. ASSUME NEW d \in Callers
      PROVE  RequestInv(caller[d])'
  <2>1. CASE d = c
    <3>1. RequestInv(r)'
      BY RequestInvStays
    <3>2. QED
      BY <3>1, <2>1, <1>3 DEF RequestInv
  <2>2. CASE d # c
    <3>1. PICK q \in Caller : q = caller[d]
      BY <1>2
    <3>2. RequestInv(q)
      BY <3>1 DEF AuthInv
    <3>3. RequestInv(q)'
      BY <3>2, RequestInvStays
    <3>4. caller'[d] = q
      BY <3>1, <2>2, <1>3
    <3>5. QED
      BY <3>3, <3>4 DEF RequestInv
  <2>3. QED
    BY <2>1, <2>2
<1>7. QED
  BY <1>4, <1>5, <1>6 DEF AuthInv

(* A request that is settled or waits, with the caches as they may be kept.  *)
LEMMA RequestEnds ==
  ASSUME AuthInv, NEW c \in Callers, NEW header \in Authorizations \cup {"none"}, NEW now \in Nat,
         NEW document \in Versions \cup {None}, NEW status \in Statuses,
         Settled(c, header, now, document, status),
         status = 200 => Trusted(header, now, document),
         UNCHANGED tenantVars,
         discovery' \in [document : Versions \cup {None}, time : Nat],
         keySet' \in [key : Versions \cup {None}, time : Nat],
         resolved' \subseteq Versions,
         KeptWasServed'
  PROVE  AuthInv'
<1> DEFINE r == [at |-> "done", header |-> header, now |-> now, document |-> document,
                 since |-> 0, status |-> status]
<1>1. r \in Caller /\ caller' = [caller EXCEPT ![c] = r]
  BY DEF Caller, Settled
<1>2. /\ r.at = "done" /\ r.status = status
      /\ r.header = header /\ r.now = now /\ r.document = document
  OBVIOUS
<1> HIDE DEF r
<1>3. RequestInv(r)
  BY <1>2 DEF RequestInv
<1>4. QED
  BY <1>1, <1>3, RequestMoves

LEMMA RequestWaits ==
  ASSUME AuthInv, NEW c \in Callers, NEW at \in {"fetching", "received", "keys"},
         NEW header \in Authorizations \cup {"none"}, NEW now \in Nat,
         NEW document \in Versions \cup {None}, NEW since \in Nat,
         Waits(c, at, header, now, document, since),
         AadAsked,
         at \in {"fetching", "received"} => now <= clock,
         at = "received" => document \in Versions /\ lastServed[document] >= now,
         at = "keys" => header.kind = "jwt" /\ MaySpeak(document, now),
         UNCHANGED tenantVars,
         discovery' \in [document : Versions \cup {None}, time : Nat],
         keySet' \in [key : Versions \cup {None}, time : Nat],
         resolved' \subseteq Versions,
         KeptWasServed'
  PROVE  AuthInv'
<1> DEFINE r == [at |-> at, header |-> header, now |-> now, document |-> document,
                 since |-> since, status |-> 0]
<1>1. r \in Caller /\ caller' = [caller EXCEPT ![c] = r]
  BY DEF Caller, Waits, Statuses
<1>2. /\ r.at = at /\ r.status = 0
      /\ r.header = header /\ r.now = now /\ r.document = document
  OBVIOUS
<1> HIDE DEF r
<1>3. RequestInv(r)
  BY <1>2 DEF RequestInv
<1>4. QED
  BY <1>1, <1>3, RequestMoves

LEMMA AuthInitHolds == ASSUME AuthInit PROVE AuthInv
<1>1. AuthTypeOK
  BY AuthAssumption DEF AuthInit, AuthTypeOK, NewCaller, Caller, Versions, Statuses, None
<1>2. ServedNow /\ NothingServedLater /\ KeptWasServed
  BY AuthAssumption DEF AuthInit, Versions, None, ServedNow, NothingServedLater, KeptWasServed
<1>3. \A c \in Callers : RequestInv(caller[c])
  BY DEF AuthInit, NewCaller, RequestInv
<1>4. QED
  BY <1>1, <1>2, <1>3 DEF AuthInv

-----------------------------------------------------------------------------
(* The caches when a step leaves all but the resolved keys alone.            *)
LEMMA CachesStay ==
  ASSUME AuthInv, UNCHANGED <<tenantVars, discovery, keySet>>,
         resolved' = resolved \/ \E k \in 0 .. signing : resolved' = resolved \cup {k}
  PROVE  /\ UNCHANGED tenantVars
         /\ discovery' \in [document : Versions \cup {None}, time : Nat]
         /\ keySet' \in [key : Versions \cup {None}, time : Nat]
         /\ resolved' \subseteq Versions
         /\ KeptWasServed'
<1>1. UNCHANGED <<settings, clock, version, lastServed, signing>>
  BY DEF tenantVars
<1>2. 0 .. signing \subseteq Versions
  BY AuthAssumption DEF AuthInv, AuthTypeOK, Versions
<1>3. QED
  BY <1>1, <1>2 DEF AuthInv, AuthTypeOK, KeptWasServed

(* The key of a token is looked for once its document may speak.             *)
LEMMA FindKeyKeeps ==
  ASSUME AuthInv, NEW c \in Callers, NEW header \in Authorizations \cup {"none"}, NEW now \in Nat,
         NEW document \in Versions \cup {None},
         AadAsked, MaySpeak(document, now),
         FindKey(c, header, now, document),
         UNCHANGED <<tenantVars, keySet>>,
         discovery' \in [document : Versions \cup {None}, time : Nat],
         discovery'.document # None => lastServed[discovery'.document] >= discovery'.time
  PROVE  AuthInv'
<1>1. UNCHANGED <<settings, clock, version, lastServed, signing>>
  BY DEF tenantVars
<1>2. /\ keySet' \in [key : Versions \cup {None}, time : Nat]
      /\ signing \in Nat /\ 0 .. signing \subseteq Versions
      /\ resolved \subseteq 0 .. signing
      /\ keySet.key # None => keySet.key \in 0 .. signing
  BY AuthAssumption DEF AuthInv, AuthTypeOK, Versions, KeptWasServed
<1>3. CASE resolved' = resolved
  <2>1. resolved' \subseteq Versions /\ KeptWasServed'
    BY <1>1, <1>2, <1>3 DEF KeptWasServed
  <2>2. CASE Settled(c, header, now, document, 401)
    <3>1. 401 \in Statuses /\ (401 = 200 => Trusted(header, now, document))
      BY DEF Statuses
    <3>2. QED
      BY <3>1, <2>1, <2>2, <1>2, RequestEnds
  <2>3. CASE header.kind = "jwt" /\ Waits(c, "keys", header, now, document, signing)
    BY <2>1, <2>3, <1>2, RequestWaits
  <2>4. CASE ~(\/ Settled(c, header, now, document, 401)
               \/ header.kind = "jwt" /\ Waits(c, "keys", header, now, document, signing))
    <3>1. /\ header.kind = "jwt" /\ KeyIsKnown(header.key)
          /\ Settled(c, header, now, document, Decided(header, document))
      BY <2>4 DEF FindKey
    <3>2. header.key \in 0 .. signing
      BY <3>1, <1>2 DEF KeyIsKnown, KeySetIsFresh
    <3>3. PICK status \in Statuses : status = Decided(header, document)
      BY DecidedType DEF Statuses
    <3>4. ASSUME status = 200
          PROVE  Trusted(header, now, document)
      <4>1. Decided(header, document) = 200 /\ header.kind = "jwt"
        BY <3>1, <3>3, <3>4
      <4>2. QED
        BY <4>1, <3>2, DecidedIsTrusted
    <3>5. Settled(c, header, now, document, status)
      BY <3>1, <3>3
    <3>6. QED
      BY <3>4, <3>5, <2>1, <1>2, RequestEnds
  <2>5. QED
    BY <2>2, <2>3, <2>4
<1>4. CASE resolved' # resolved
  <2>1. /\ header.kind = "jwt" /\ KeyIsKnown(header.key)
        /\ Settled(c, header, now, document, Decided(header, document))
        /\ resolved' = resolved \cup {header.key}
    BY <1>4 DEF FindKey
  <2>2. header.key \in 0 .. signing
    BY <2>1, <1>2 DEF KeyIsKnown, KeySetIsFresh
  <2>3. resolved' \subseteq Versions /\ KeptWasServed'
    BY <1>1, <1>2, <2>1, <2>2 DEF KeptWasServed
  <2>4. PICK status \in Statuses : status = Decided(header, document)
    BY DecidedType DEF Statuses
  <2>5. ASSUME status = 200
        PROVE  Trusted(header, now, document)
    <3>1. Decided(header, document) = 200 /\ header.kind = "jwt"
      BY <2>1, <2>4, <2>5
    <3>2. QED
      BY <3>1, <2>2, DecidedIsTrusted
  <2>6. Settled(c, header, now, document, status)
    BY <2>1, <2>4
  <2>7. QED
    BY <2>3, <2>5, <2>6, <1>2, RequestEnds
<1>5. QED
  BY <1>3, <1>4

(* A cached document that is not older than the lifetime.                    *)
LEMMA FreshIsServed ==
  ASSUME AuthInv, IsFresh
  PROVE  discovery.document \in Versions /\ MaySpeak(discovery.document, clock)
<1>1. discovery.document \in Versions /\ discovery.time \in Nat /\ clock \in Nat
  BY DEF AuthInv, AuthTypeOK, IsFresh
<1>2. lastServed[discovery.document] \in Nat
  BY <1>1 DEF AuthInv, AuthTypeOK
<1>3. lastServed[discovery.document] >= discovery.time /\ clock - discovery.time < Lifetime
  BY DEF AuthInv, KeptWasServed, IsFresh
<1>4. lastServed[discovery.document] > clock - Lifetime
  BY <1>1, <1>2, <1>3, AuthAssumption
<1>5. QED
  BY <1>1, <1>4 DEF MaySpeak

LEMMA CheckAadTokenKeeps ==
  ASSUME AuthInv, NEW c \in Callers, NEW header \in Authorizations,
         settings.mode = "aad" \/ (settings.mode # "static" /\ AadConfigured),
         CheckAadToken(c, header),
         UNCHANGED <<tenantVars, discovery, keySet>>
  PROVE  AuthInv'
<1>1. clock \in Nat /\ None \in Versions \cup {None} /\ header \in Authorizations \cup {"none"}
  BY DEF AuthInv, AuthTypeOK
<1>2. /\ UNCHANGED <<tenantVars, keySet>>
      /\ discovery' \in [document : Versions \cup {None}, time : Nat]
      /\ discovery'.document # None => lastServed[discovery'.document] >= discovery'.time
  BY DEF AuthInv, AuthTypeOK, KeptWasServed
<1>3. CASE ~settings.pyjwt \/ ~AadConfigured
  <2>1. Settled(c, header, clock, None, 500) /\ resolved' = resolved
    BY <1>3 DEF CheckAadToken
  <2>2. 500 \in Statuses /\ 500 # 200
    BY DEF Statuses
  <2>3. QED
    BY <2>1, <2>2, <1>1, CachesStay, RequestEnds
<1>4. CASE settings.pyjwt /\ AadConfigured
  <2>1. AadAsked
    BY <1>4 DEF AadAsked
  <2>2. CASE settings.pinned = {"issuer", "keys"}
    <3>1. FindKey(c, header, clock, None) /\ MaySpeak(None, clock)
      BY <2>2, <1>4 DEF CheckAadToken, MaySpeak
    <3>2. QED
      BY <3>1, <2>1, <1>1, <1>2, FindKeyKeeps
  <2>3. CASE settings.pinned # {"issuer", "keys"} /\ IsFresh
    <3>1. PICK d \in Versions \cup {None} : d = discovery.document
      BY DEF AuthInv, AuthTypeOK
    <3>2. FindKey(c, header, clock, d) /\ MaySpeak(d, clock)
      BY <3>1, <2>3, <1>4, FreshIsServed DEF CheckAadToken
    <3>3. QED
      BY <3>2, <2>1, <1>1, <1>2, FindKeyKeeps
  <2>4. CASE settings.pinned # {"issuer", "keys"} /\ ~IsFresh
    <3>1. Waits(c, "fetching", header, clock, None, 0) /\ resolved' = resolved
      BY <2>4, <1>4 DEF CheckAadToken
    <3>2. clock <= clock /\ 0 \in Nat
      BY <1>1
    <3>3. QED
      BY <3>1, <3>2, <2>1, <1>1, CachesStay, RequestWaits
  <2>5. QED
    BY <2>2, <2>3, <2>4
<1>5. QED
  BY <1>3, <1>4

LEMMA RequireBearerKeeps ==
  ASSUME AuthInv, NEW c \in Callers, NEW header \in Authorizations, RequireBearer(c, header)
  PROVE  AuthInv'
<1>1. /\ clock \in Nat /\ None \in Versions \cup {None} /\ header \in Authorizations \cup {"none"}
      /\ 200 \in Statuses /\ 401 \in Statuses /\ 401 # 200
  BY DEF AuthInv, AuthTypeOK, Statuses
<1>2. UNCHANGED <<tenantVars, discovery, keySet>>
  BY DEF RequireBearer
<1>3. CASE Settled(c, header, clock, None, 401) /\ resolved' = resolved
  <2>1. /\ UNCHANGED tenantVars
        /\ discovery' \in [document : Versions \cup {None}, time : Nat]
        /\ keySet' \in [key : Versions \cup {None}, time : Nat]
        /\ resolved' \subseteq Versions
        /\ KeptWasServed'
    BY <1>2, <1>3, CachesStay
  <2>2. 401 = 200 => Trusted(header, clock, None)
    BY <1>1
  <2>3. QED
    BY <2>1, <2>2, <1>1, <1>3, RequestEnds
<1>4. CASE /\ settings.mode # "aad" /\ CheckStaticToken(header)
           /\ Settled(c, header, clock, None, 200) /\ resolved' = resolved
  <2>1. Trusted(header, clock, None)
    BY <1>4 DEF Trusted, CheckStaticToken
  <2>2. QED
    BY <2>1, <1>1, <1>2, <1>4, CachesStay, RequestEnds
<1>5. CASE /\ settings.mode = "aad" \/ (settings.mode # "static" /\ AadConfigured)
           /\ CheckAadToken(c, header)
  BY <1>2, <1>5, CheckAadTokenKeeps
<1>6. QED
  BY <1>3, <1>4, <1>5 DEF RequireBearer

(* The parts of the record of a request.                                     *)
LEMMA RequestParts ==
  ASSUME AuthInv, NEW c \in Callers
  PROVE  /\ RequestInv(caller[c])
         /\ \E h \in Authorizations \cup {"none"} : h = caller[c].header
         /\ \E n \in Nat : n = caller[c].now
         /\ \E d \in Versions \cup {None} : d = caller[c].document
         /\ caller[c].since \in Nat
<1>1. caller[c] \in Caller
  BY DEF AuthInv, AuthTypeOK
<1>2. QED
  BY <1>1 DEF AuthInv, Caller

LEMMA TenantAnswersKeeps ==
  ASSUME AuthInv, NEW c \in Callers, TenantAnswers(c)
  PROVE  AuthInv'
<1>1. PICK h \in Authorizations \cup {"none"} : h = caller[c].header
  BY RequestParts
<1>2. PICK n \in Nat : n = caller[c].now
  BY RequestParts
<1>3. AadAsked /\ n <= clock
  BY <1>2, RequestParts DEF RequestInv, TenantAnswers
<1>4. PICK d \in Versions : d = version
  BY DEF AuthInv, AuthTypeOK
<1>5. lastServed[d] >= n
  BY <1>3, <1>4 DEF AuthInv, AuthTypeOK, ServedNow
<1>6. Waits(c, "received", h, n, d, 0) /\ 0 \in Nat
  BY <1>1, <1>2, <1>4 DEF TenantAnswers
<1>7. UNCHANGED <<tenantVars, discovery, keySet>> /\ resolved' = resolved
  BY DEF TenantAnswers
<1>8. /\ UNCHANGED tenantVars
      /\ discovery' \in [document : Versions \cup {None}, time : Nat]
      /\ keySet' \in [key : Versions \cup {None}, time : Nat]
      /\ resolved' \subseteq Versions
      /\ KeptWasServed'
  BY <1>7, CachesStay
<1> DEFINE r == [at |-> "received", header |-> h, now |-> n, document |-> d, since |-> 0, status |-> 0]
<1>9. r \in Caller /\ caller' = [caller EXCEPT ![c] = r]
  BY <1>6 DEF Caller, Waits, Statuses
<1>10. /\ r.at = "received" /\ r.status = 0
       /\ r.header = h /\ r.now = n /\ r.document = d
  OBVIOUS
<1> HIDE DEF r
<1>11. RequestInv(r)
  BY <1>3, <1>5, <1>10 DEF RequestInv
<1>12. QED
  BY <1>8, <1>9, <1>11, RequestMoves

LEMMA KeepDocumentKeeps ==
  ASSUME AuthInv, NEW c \in Callers, KeepDocument(c)
  PROVE  AuthInv'
<1>1. PICK h \in Authorizations \cup {"none"} : h = caller[c].header
  BY RequestParts
<1>2. PICK n \in Nat : n = caller[c].now
  BY RequestParts
<1>3. /\ AadAsked /\ caller[c].document \in Versions
      /\ lastServed[caller[c].document] >= n
  BY <1>2, RequestParts DEF RequestInv, KeepDocument
<1>4. PICK d \in Versions : d = caller[c].document
  BY <1>3
<1>5. lastServed[d] >= n /\ lastServed[d] \in Nat
  BY <1>3, <1>4 DEF AuthInv, AuthTypeOK
<1>6. lastServed[d] > n - Lifetime
  BY <1>5, AuthAssumption
<1>7. MaySpeak(d, n)
  BY <1>6 DEF MaySpeak
<1>8. FindKey(c, h, n, d) /\ discovery' = [document |-> d, time |-> n]
  BY <1>1, <1>2, <1>4 DEF KeepDocument
<1>9. /\ discovery' \in [document : Versions \cup {None}, time : Nat]
      /\ lastServed[discovery'.document] >= discovery'.time
  BY <1>5, <1>8
<1>10. UNCHANGED <<tenantVars, keySet>>
  BY DEF KeepDocument
<1>11. QED
  BY <1>3, <1>7, <1>8, <1>9, <1>10, FindKeyKeeps

LEMMA FetchFailsKeeps ==
  ASSUME AuthInv, NEW c \in Callers, FetchFails(c)
  PROVE  AuthInv'
<1>1. PICK h \in Authorizations \cup {"none"} : h = caller[c].header
  BY RequestParts
<1>2. PICK n \in Nat : n = caller[c].now
  BY RequestParts
<1>3. /\ Settled(c, h, n, None, 401)
      /\ UNCHANGED <<tenantVars, discovery, keySet>> /\ resolved' = resolved
  BY <1>1, <1>2 DEF FetchFails
<1>4. 401 \in Statuses /\ 401 # 200 /\ None \in Versions \cup {None}
  BY DEF Statuses
<1>5. QED
  BY <1>3, <1>4, CachesStay, RequestEnds

LEMMA FetchKeysKeeps ==
  ASSUME AuthInv, NEW c \in Callers, FetchKeys(c)
  PROVE  AuthInv'
<1>1. PICK h \in Authorizations \cup {"none"} : h = caller[c].header
  BY RequestParts
<1>2. PICK n \in Nat : n = caller[c].now
  BY RequestParts
<1>3. PICK d \in Versions \cup {None} : d = caller[c].document
  BY RequestParts
<1>4. AadAsked /\ h.kind = "jwt" /\ MaySpeak(d, n)
  BY <1>1, <1>2, <1>3, RequestParts DEF RequestInv, FetchKeys
<1>5. PICK key \in caller[c].since .. signing :
        /\ keySet' = [key |-> key, time |-> clock]
        /\ resolved' = IF key = h.key THEN resolved \cup {key} ELSE resolved
        /\ Settled(c, h, n, d, IF key = h.key THEN Decided(h, d) ELSE 401)
  BY <1>1, <1>2, <1>3 DEF FetchKeys
<1>6. UNCHANGED tenantVars /\ UNCHANGED <<settings, clock, version, lastServed, signing, discovery>>
  BY DEF FetchKeys, tenantVars
<1>7. key \in 0 .. signing /\ 0 .. signing \subseteq Versions /\ clock \in Nat
  BY RequestParts, AuthAssumption DEF AuthInv, AuthTypeOK, Versions
<1>8. /\ discovery' \in [document : Versions \cup {None}, time : Nat]
      /\ keySet' \in [key : Versions \cup {None}, time : Nat]
      /\ resolved' \subseteq Versions
      /\ KeptWasServed'
  BY <1>5, <1>6, <1>7 DEF AuthInv, AuthTypeOK, KeptWasServed
<1>9. CASE key = h.key
  <2>1. PICK status \in Statuses : status = Decided(h, d)
    BY DecidedType DEF Statuses
  <2>2. ASSUME status = 200
        PROVE  Trusted(h, n, d)
    <3>1. Decided(h, d) = 200 /\ h.key \in 0 .. signing
      BY <2>1, <2>2, <1>7, <1>9
    <3>2. QED
      BY <3>1, <1>4, DecidedIsTrusted
  <2>3. Settled(c, h, n, d, status)
    BY <2>1, <1>5, <1>9
  <2>4. QED
    BY <2>2, <2>3, <1>6, <1>8, RequestEnds
<1>10. CASE key # h.key
  <2>1. Settled(c, h, n, d, 401)
    BY <1>5, <1>10
  <2>2. 401 \in Statuses /\ (401 = 200 => Trusted(h, n, d))
    BY DEF Statuses
  <2>3. QED
    BY <2>1, <2>2, <1>6, <1>8, RequestEnds
<1>11. QED
  BY <1>9, <1>10

LEMMA KeysFailKeeps ==
  ASSUME AuthInv, NEW c \in Callers, KeysFail(c)
  PROVE  AuthInv'
<1>1. PICK h \in Authorizations \cup {"none"} : h = caller[c].header
  BY RequestParts
<1>2. PICK n \in Nat : n = caller[c].now
  BY RequestParts
<1>3. PICK d \in Versions \cup {None} : d = caller[c].document
  BY RequestParts
<1>4. Settled(c, h, n, d, 401) /\ keySet' = [key |-> None, time |-> 0]
  BY <1>1, <1>2, <1>3 DEF KeysFail
<1>5. /\ UNCHANGED tenantVars
      /\ UNCHANGED <<settings, clock, version, lastServed, signing, discovery, resolved>>
  BY DEF KeysFail, tenantVars
<1>6. /\ discovery' \in [document : Versions \cup {None}, time : Nat]
      /\ keySet' \in [key : Versions \cup {None}, time : Nat]
      /\ resolved' \subseteq Versions
      /\ KeptWasServed'
  BY <1>4, <1>5 DEF AuthInv, AuthTypeOK, KeptWasServed
<1>7. 401 \in Statuses /\ (401 = 200 => Trusted(h, n, d))
  BY DEF Statuses
<1>8. QED
  BY <1>4, <1>5, <1>6, <1>7, RequestEnds

-----------------------------------------------------------------------------
(* Versions are only ever served later than they were, and keys once         *)
(* published remain so.                                                      *)
LEMMA TimeKeeps ==
  ASSUME AuthInv, UNCHANGED <<settings, discovery, keySet, resolved, caller>>,
         clock' \in Nat, clock' >= clock, version' \in Versions,
         signing' \in Versions, signing' >= signing,
         lastServed' \in [Versions -> Nat], lastServed'[version'] = clock',
         \A v \in Versions : lastServed'[v] >= lastServed[v] /\ lastServed'[v] <= clock'
  PROVE  AuthInv'
<1>1. AuthTypeOK' /\ ServedNow' /\ NothingServedLater'
  BY DEF AuthInv, AuthTypeOK, ServedNow, NothingServedLater
<1>2. 0 .. signing \subseteq 0 .. signing' /\ lastServed \in [Versions -> Nat] /\ clock \in Nat
  BY DEF AuthInv, AuthTypeOK, Versions
<1>3. KeptWasServed'
  <2>1. ASSUME discovery.document # None
        PROVE  lastServed'[discovery.document] >= discovery.time
    <3>1. discovery.document \in Versions /\ discovery.time \in Nat
      BY <2>1 DEF AuthInv, AuthTypeOK
    <3>2. lastServed[discovery.document] >= discovery.time
      BY <2>1 DEF AuthInv, KeptWasServed
    <3>3. QED
      BY <3>1, <3>2, <1>2
  <2>2. (keySet.key # None => keySet.key \in 0 .. signing') /\ resolved \subseteq 0 .. signing'
    BY <1>2 DEF AuthInv, KeptWasServed
  <2>3. QED
    BY <2>1, <2>2 DEF KeptWasServed
<1>4. ASSUME NEW d, NEW n \in Nat, MaySpeak(d, n)
      PROVE  MaySpeak(d, n)'
  BY <1>2, <1>4, AuthAssumption DEF MaySpeak
<1>5. ASSUME NEW h, NEW d, NEW n \in Nat, Trusted(h, n, d)
      PROVE  Trusted(h, n, d)'
  <2>1. MaySpeak(d, n) => MaySpeak(d, n)'
    BY <1>4
  <2>2. QED
    BY <1>2, <1>5, <2>1 DEF Trusted, AadAsked, AadConfigured, Issuer
<1>6. ASSUME NEW c \in Callers
      PROVE  RequestInv(caller[c])'
  <2>1. PICK r \in Caller : r = caller[c]
    BY DEF AuthInv, AuthTypeOK
  <2>2. RequestInv(r) /\ r = caller'[c] /\ r.now \in Nat
    BY <2>1 DEF AuthInv, Caller
  <2>3. /\ MaySpeak(r.document, r.now) => MaySpeak(r.document, r.now)'
        /\ Trusted(r.header, r.now, r.document) => Trusted(r.header, r.now, r.document)'
    BY <2>2, <1>4, <1>5
  <2>4. r.document \in Versions => lastServed'[r.document] >= lastServed[r.document]
    OBVIOUS
  <2>5. RequestInv(r)'
    <3>1. AadAsked' = AadAsked
      BY DEF AadAsked, AadConfigured
    <3>2. r.at = "received" => r.document \in Versions /\ lastServed'[r.document] >= r.now
      BY <2>2, <2>4, <1>2 DEF RequestInv
    <3>3. r.at \in {"fetching", "received"} => r.now <= clock'
      BY <2>2, <1>2 DEF RequestInv
    <3>4. QED
      BY <2>2, <2>3, <3>1, <3>2, <3>3 DEF RequestInv
  <2>6. QED
    BY <2>2, <2>5 DEF RequestInv
<1>7. QED
  BY <1>1, <1>3, <1>6 DEF AuthInv

LEMMA TickKeeps == ASSUME AuthInv, Tick PROVE AuthInv'
<1>1. /\ clock \in Nat /\ version \in Versions /\ lastServed[version] = clock
      /\ lastServed \in [Versions -> Nat] /\ clock' = clock + 1 /\ version' = version
      /\ signing \in Versions /\ signing' = signing
      /\ \A v \in Versions : lastServed[v] <= clock
  BY DEF AuthInv, AuthTypeOK, ServedNow, NothingServedLater, Tick
<1>2. /\ lastServed' \in [Versions -> Nat] /\ lastServed'[version'] = clock'
      /\ \A v \in Versions : lastServed'[v] >= lastServed[v] /\ lastServed'[v] <= clock'
  BY <1>1 DEF Tick
<1>3. signing' >= signing
  BY <1>1 DEF Versions
<1>4. QED
  BY <1>1, <1>2, <1>3, TimeKeeps DEF Tick

LEMMA RotateKeeps == ASSUME AuthInv, Rotate PROVE AuthInv'
<1>1. /\ clock \in Nat /\ version \in Versions /\ lastServed \in [Versions -> Nat]
      /\ clock' = clock /\ version' = version + 1 /\ version' \in Versions
      /\ signing \in Versions /\ signing' = signing /\ signing' >= signing
      /\ lastServed' = [lastServed EXCEPT ![version'] = clock]
  BY AuthAssumption DEF AuthInv, AuthTypeOK, Versions, Rotate
<1>2. \A v \in Versions : lastServed[v] <= clock
  BY DEF AuthInv, NothingServedLater
<1>3. /\ lastServed' \in [Versions -> Nat] /\ lastServed'[version'] = clock'
      /\ \A v \in Versions : lastServed'[v] >= lastServed[v] /\ lastServed'[v] <= clock'
  BY <1>1, <1>2
<1>4. QED
  BY <1>1, <1>3, TimeKeeps DEF Rotate

LEMMA RotateKeyKeeps == ASSUME AuthInv, RotateKey PROVE AuthInv'
<1>1. /\ clock \in Nat /\ version \in Versions /\ lastServed \in [Versions -> Nat]
      /\ clock' = clock /\ version' = version /\ lastServed' = lastServed
      /\ signing' \in Versions /\ signing' >= signing
      /\ lastServed[version] = clock
  BY AuthAssumption DEF AuthInv, AuthTypeOK, ServedNow, Versions, RotateKey
<1>2. \A v \in Versions : lastServed'[v] >= lastServed[v] /\ lastServed'[v] <= clock'
  BY <1>1 DEF AuthInv, NothingServedLater
<1>3. QED
  BY <1>1, <1>2, TimeKeeps DEF RotateKey

-----------------------------------------------------------------------------
LEMMA AuthStepKeeps == ASSUME AuthInv, [AuthNext]_authVars PROVE AuthInv'
<1>1. CASE \E c \in Callers, header \in Authorizations : RequireBearer(c, header)
  BY <1>1, RequireBearerKeeps
<1>2. CASE \E c \in Callers : TenantAnswers(c)
  BY <1>2, TenantAnswersKeeps
<1>3. CASE \E c \in Callers : KeepDocument(c)
  BY <1>3, KeepDocumentKeeps
<1>4. CASE \E c \in Callers : FetchFails(c)
  BY <1>4, FetchFailsKeeps
<1>5. CASE \E c \in Callers : FetchKeys(c)
  BY <1>5, FetchKeysKeeps
<1>6. CASE \E c \in Callers : KeysFail(c)
  BY <1>6, KeysFailKeeps
<1>7. CASE Tick
  BY <1>7, TickKeeps
<1>8. CASE Rotate
  BY <1>8, RotateKeeps
<1>9. CASE RotateKey
  BY <1>9, RotateKeyKeeps
<1>10. CASE UNCHANGED authVars
  <2>1. /\ UNCHANGED <<settings, clock, version, lastServed, signing>>
        /\ UNCHANGED <<discovery, keySet, resolved, caller>>
    BY <1>10 DEF authVars, tenantVars
  <2>2. QED
    BY <2>1 DEF AuthInv, AuthTypeOK, ServedNow, NothingServedLater, KeptWasServed, RequestInv,
       MaySpeak, AadAsked, AadConfigured, Trusted, Issuer
<1>11. QED
  BY <1>1, <1>2, <1>3, <1>4, <1>5, <1>6, <1>7, <1>8, <1>9, <1>10 DEF AuthNext

LEMMA AuthInvariance == AuthSpec => []AuthInv
<1>1. AuthInit => AuthInv
  BY AuthInitHolds
<1>2. AuthInv /\ [AuthNext]_authVars => AuthInv'
  BY AuthStepKeeps
<1>3. QED
  BY <1>1, <1>2, PTL DEF AuthSpec

(* Every variable of the authentication keeps its type.                      *)
THEOREM AuthTypeCorrect == AuthSpec => []AuthTypeOK
<1>1. AuthInv => AuthTypeOK
  BY DEF AuthInv
<1>2. QED
  BY <1>1, AuthInvariance, PTL

(* Whatever lets a request in names an issuer that was, within the lifetime  *)
(* of the cache before the request came, the tenant's own, and is signed     *)
(* with a key that the tenant has published, for any overlap of fetches of   *)
(* documents and of keys.                                                    *)
THEOREM OnlyTrustedAccepted == AuthSpec => []AcceptedIsTrusted
<1>1. ASSUME AuthInv
      PROVE  AcceptedIsTrusted
  <2>1. ASSUME NEW c \in Callers, caller[c].status = 200
        PROVE  Trusted(caller[c].header, caller[c].now, caller[c].document)
    BY <2>1, <1>1 DEF AuthInv, RequestInv
  <2>2. QED
    BY <2>1 DEF AcceptedIsTrusted, Trusted, MaySpeak, AadAsked
<1>2. QED
  BY <1>1, AuthInvariance, PTL
=============================================================================
