------------------------------ MODULE GuardsProofs ------------------------------
(***************************************************************************)
(* Proofs about the guards of the service, in three parts that share no    *)
(* state: the HTTP client they share, for any finite set of guards and any *)
(* number of closes by the server; a check of a guard that asks Azure, for *)
(* any such guard, any number of calls and anything Azure may report; and  *)
(* the guards that decide alone, for any of them and texts of any length.  *)
(***************************************************************************)
EXTENDS AzureClient, AzureGuards, LocalGuards, CollectionProofs

(***************************************************************************)
(* The shared HTTP client.                                                 *)
(***************************************************************************)
Retrying == {g \in Guards : tries[g] = 2}

(* Only the very first request finds no client: every later reset creates    *)
(* the next client in the stretch of code that drops the last.               *)
ClientStays == current = 0 <=> created = 0

(* A call resets the client, and is cancelled doing so, on its first try; it *)
(* has a request under way only on a client that exists.                     *)
TriesAreCounted ==
  \A g \in Guards :
    /\ posting[g] = "start" => tries[g] = 0
    /\ posting[g] = "closing" => tries[g] = 1
    /\ posting[g] = "sent" => tries[g] \in {1, 2}

ClientInv ==
  /\ ClientTypeOK
  /\ ClientStays
  /\ TriesAreCounted
  /\ ClosedClientIsLeaving
  /\ ClientsAreAccounted

-----------------------------------------------------------------------------
(* The one place where a call's request is counted and a client created.     *)
LEMMA RequestKeepsType ==
  ASSUME ClientTypeOK, NEW g \in Guards, NEW shared \in {0, current}, tries[g] \in {0, 1},
         Request(g, shared), closed' \subseteq closed, UNCHANGED <<stale, goaways>>
  PROVE  ClientTypeOK'
<1>1. created \in Nat /\ current \in 0 .. created /\ shared \in 0 .. created
  BY DEF ClientTypeOK
<1>2. created' \in Nat /\ created <= created' /\ current' \in 0 .. created'
  BY <1>1 DEF Request
<1>3. closed' \subseteq Clients' /\ stale' \subseteq Clients'
  BY <1>1, <1>2 DEF ClientTypeOK, Clients
<1>4. posting' \in [Guards -> {"start", "sent", "closing", "answered", "failed",
                          "cancelled", "abandoned"}]
  BY DEF ClientTypeOK, Request
<1>5. using' \in [Guards -> 0 .. created']
  <2>1. using \in [Guards -> 0 .. created']
    BY <1>1, <1>2 DEF ClientTypeOK
  <2>2. using' = [using EXCEPT ![g] = current']
    BY DEF Request
  <2>3. QED
    BY <1>2, <2>1, <2>2
<1>6. tries' \in [Guards -> 0 .. 2]
  BY DEF ClientTypeOK, Request
<1>7. goaways' \in 0 .. MaxGoAways
  BY DEF ClientTypeOK
<1>8. QED
  BY <1>2, <1>3, <1>4, <1>5, <1>6, <1>7 DEF ClientTypeOK

(* A retry adds one client and one retrying guard.                           *)
LEMMA RetryIsPaid ==
  ASSUME ClientTypeOK, ClientsAreAccounted, NEW g \in Guards, tries[g] = 1, Request(g, 0)
  PROVE  ClientsAreAccounted'
<1>1. Retrying' = Retrying \cup {g}
  BY DEF ClientTypeOK, Request, Retrying
<1>2. IsFiniteSet(Retrying) /\ g \notin Retrying
  BY ClientAssumption, FS_Subset DEF Retrying
<1>3. Cardinality(Retrying') = Cardinality(Retrying) + 1 /\ Cardinality(Retrying) \in Nat
  BY <1>1, <1>2, FS_AddElement, FS_CardinalityType
<1>4. created' = created + 1 /\ created \in Nat
  BY DEF Request, ClientTypeOK
<1>5. created <= 1 + Cardinality(Retrying)
  BY DEF ClientsAreAccounted, Retrying
<1>6. created' <= 1 + Cardinality(Retrying')
  BY <1>3, <1>4, <1>5
<1>7. QED
  BY <1>6 DEF ClientsAreAccounted, Retrying

(* A new client is not a closed one, and is the shared one from then on.     *)
LEMMA RetryIsOpen ==
  ASSUME ClientTypeOK, NEW g \in Guards, Request(g, 0), UNCHANGED closed
  PROVE  current' \notin closed' /\ current' # 0 /\ created' # 0
BY DEF ClientTypeOK, Request, Clients

-----------------------------------------------------------------------------
LEMMA ClientInitHolds == ASSUME ClientInit PROVE ClientInv
<1>1. ClientTypeOK
  BY ClientAssumption DEF ClientInit, ClientTypeOK, Clients
<1>2. ClientStays /\ TriesAreCounted /\ ClosedClientIsLeaving
  BY DEF ClientInit, ClientStays, TriesAreCounted, ClosedClientIsLeaving
<1>3. ClientsAreAccounted
  <2>1. IsFiniteSet({g \in Guards : tries[g] = 2})
    BY ClientAssumption, FS_Subset
  <2>2. Cardinality({g \in Guards : tries[g] = 2}) \in Nat
    BY <2>1, FS_CardinalityType
  <2>3. QED
    BY <2>2 DEF ClientInit, ClientsAreAccounted
<1>4. QED
  BY <1>1, <1>2, <1>3 DEF ClientInv

(* The first request of a call: it creates a client only if there never was  *)
(* one.                                                                      *)
LEMMA PostKeeps ==
  ASSUME ClientInv, NEW g \in Guards, Post(g)
  PROVE  ClientInv'
<1>1. tries[g] = 0 /\ Request(g, current)
  BY DEF ClientInv, TriesAreCounted, Post
<1>2. ClientTypeOK'
  BY <1>1, RequestKeepsType DEF ClientInv, Post
<1>3. ClientStays'
  BY DEF ClientInv, ClientTypeOK, ClientStays, Post, Request
<1>4. TriesAreCounted'
  BY <1>1 DEF ClientInv, ClientTypeOK, TriesAreCounted, Post, Request
<1>5. ClosedClientIsLeaving'
  BY DEF ClientInv, ClientTypeOK, ClosedClientIsLeaving, Clients, Post, Request
<1>6. ClientsAreAccounted'
  <2>1. {h \in Guards : tries'[h] = 2} = {h \in Guards : tries[h] = 2}
    BY <1>1 DEF ClientInv, ClientTypeOK, Request
  <2>2. CASE current # 0
    BY <2>1, <2>2 DEF ClientInv, ClientsAreAccounted, Post, Request
  <2>3. CASE current = 0
    <3>1. created' = 1
      BY <2>3 DEF ClientInv, ClientStays, Post, Request
    <3>2. IsFiniteSet({h \in Guards : tries[h] = 2})
      BY ClientAssumption, FS_Subset
    <3>3. Cardinality({h \in Guards : tries[h] = 2}) \in Nat
      BY <3>2, FS_CardinalityType
    <3>4. QED
      BY <2>1, <3>1, <3>3 DEF ClientsAreAccounted
  <2>4. QED
    BY <2>2, <2>3
<1>7. QED
  BY <1>2, <1>3, <1>4, <1>5, <1>6 DEF ClientInv

(* The retry on a new client, which is how every reset ends.                 *)
LEMMA RetryKeeps ==
  ASSUME ClientInv, NEW g \in Guards, tries[g] = 1, Request(g, 0), UNCHANGED <<closed, stale, goaways>>
  PROVE  ClientInv'
<1>1. ClientTypeOK'
  BY RequestKeepsType DEF ClientInv
<1>2. ClientStays' /\ ClosedClientIsLeaving'
  BY RetryIsOpen DEF ClientInv, ClientStays, ClosedClientIsLeaving
<1>3. TriesAreCounted'
  BY DEF ClientInv, ClientTypeOK, TriesAreCounted, Request
<1>4. ClientsAreAccounted'
  BY RetryIsPaid DEF ClientInv
<1>5. QED
  BY <1>1, <1>2, <1>3, <1>4 DEF ClientInv

(* A close that has to be awaited: from here on this guard is the one that   *)
(* will replace the shared client.                                           *)
LEMMA CloseKeeps ==
  ASSUME ClientInv, NEW g \in Guards, posting[g] = "sent", tries[g] = 1, current \notin closed \cup {0},
         BeginReset(g), UNCHANGED <<stale, goaways>>
  PROVE  ClientInv'
<1>1. /\ closed' = closed \cup {current}
      /\ posting' = [posting EXCEPT ![g] = "closing"]
      /\ using' = [using EXCEPT ![g] = current]
      /\ UNCHANGED <<current, created, tries>>
  BY DEF BeginReset
<1>2. ClientTypeOK'
  BY <1>1 DEF ClientInv, ClientTypeOK, Clients
<1>3. ClientStays' /\ TriesAreCounted' /\ ClientsAreAccounted'
  BY <1>1 DEF ClientInv, ClientTypeOK, ClientStays, TriesAreCounted, ClientsAreAccounted
<1>4. ClosedClientIsLeaving'
  <2>1. posting'[g] = "closing" /\ using'[g] = current'
    BY <1>1 DEF ClientInv, ClientTypeOK
  <2>2. QED
    BY <2>1 DEF ClosedClientIsLeaving
<1>5. QED
  BY <1>2, <1>3, <1>4 DEF ClientInv

LEMMA MeetStaleKeeps ==
  ASSUME ClientInv, NEW g \in Guards, MeetStale(g)
  PROVE  ClientInv'
<1>1. CASE tries[g] = 1 /\ current \in closed \cup {0}
  BY <1>1, RetryKeeps DEF MeetStale, BeginReset
<1>2. CASE tries[g] = 1 /\ current \notin closed \cup {0}
  BY <1>2, CloseKeeps DEF MeetStale
<1>3. CASE tries[g] # 1
  <2>1. /\ posting[g] = "sent"
        /\ posting' = [posting EXCEPT ![g] = "failed"]
        /\ UNCHANGED <<current, created, closed, stale, using, tries, goaways>>
    BY <1>3 DEF MeetStale
  <2>2. ClientTypeOK'
    BY <2>1 DEF ClientInv, ClientTypeOK, Clients
  <2>3. ClientStays' /\ TriesAreCounted' /\ ClosedClientIsLeaving' /\ ClientsAreAccounted'
    BY <2>1 DEF ClientInv, ClientTypeOK, ClientStays, TriesAreCounted, ClosedClientIsLeaving, ClientsAreAccounted
  <2>4. QED
    BY <2>2, <2>3 DEF ClientInv
<1>4. QED
  BY <1>1, <1>2, <1>3

(* The steps that only end a call.                                           *)
LEMMA EndKeeps ==
  ASSUME ClientInv, NEW g \in Guards, EndPost(g) \/ CancelPost(g)
  PROVE  ClientInv'
<1>1. UNCHANGED <<current, created, closed, stale, using, tries, goaways>>
  BY DEF EndPost, CancelPost
<1>2. ClientTypeOK'
  BY <1>1 DEF ClientInv, ClientTypeOK, Clients, EndPost, CancelPost
<1>3. ClientStays' /\ ClientsAreAccounted'
  BY <1>1 DEF ClientInv, ClientStays, ClientsAreAccounted
<1>4. TriesAreCounted'
  BY <1>1 DEF ClientInv, ClientTypeOK, TriesAreCounted, EndPost, CancelPost
<1>5. ClosedClientIsLeaving'
  <2>1. SUFFICES ASSUME current \in closed
                 PROVE  \E h \in Guards : posting'[h] \in {"closing", "abandoned"} /\ using[h] = current
    BY <1>1 DEF ClosedClientIsLeaving
  <2>2. PICK h \in Guards : posting[h] \in {"closing", "abandoned"} /\ using[h] = current
    BY <2>1 DEF ClientInv, ClosedClientIsLeaving
  <2>3. posting'[h] \in {"closing", "abandoned"}
    BY <2>2 DEF ClientInv, ClientTypeOK, EndPost, CancelPost
  <2>4. QED
    BY <2>2, <2>3
<1>6. QED
  BY <1>2, <1>3, <1>4, <1>5 DEF ClientInv

LEMMA GoAwayKeeps ==
  ASSUME ClientInv, GoAway
  PROVE  ClientInv'
<1>1. ClientTypeOK'
  BY ClientAssumption DEF ClientInv, ClientTypeOK, Clients, GoAway
<1>2. ClientStays' /\ TriesAreCounted' /\ ClosedClientIsLeaving' /\ ClientsAreAccounted'
  BY DEF ClientInv, ClientStays, TriesAreCounted, ClosedClientIsLeaving, ClientsAreAccounted, GoAway
<1>3. QED
  BY <1>1, <1>2 DEF ClientInv

LEMMA StutterKeeps ==
  ASSUME ClientInv, UNCHANGED clientVars
  PROVE  ClientInv'
BY DEF ClientInv, ClientTypeOK, Clients, ClientStays, TriesAreCounted, ClosedClientIsLeaving,
       ClientsAreAccounted, clientVars

LEMMA ClientStepKeeps == ClientInv /\ [ClientNext]_clientVars => ClientInv'
<1> SUFFICES ASSUME ClientInv, [ClientNext]_clientVars PROVE ClientInv'
  OBVIOUS
<1>1. ASSUME NEW g \in Guards, Post(g) PROVE ClientInv'
  BY <1>1, PostKeeps
<1>2. ASSUME NEW g \in Guards, EndPost(g) \/ CancelPost(g) PROVE ClientInv'
  BY <1>2, EndKeeps
<1>3. ASSUME NEW g \in Guards, MeetStale(g) PROVE ClientInv'
  BY <1>3, MeetStaleKeeps
<1>4. ASSUME NEW g \in Guards, FinishReset(g) PROVE ClientInv'
  <2>1. tries[g] = 1
    BY <1>4 DEF ClientInv, TriesAreCounted, FinishReset
  <2>2. QED
    BY <1>4, <2>1, RetryKeeps DEF FinishReset
<1>5. CASE GoAway
  BY <1>5, GoAwayKeeps
<1>6. CASE UNCHANGED clientVars
  BY <1>6, StutterKeeps
<1>7. QED
  BY <1>1, <1>2, <1>3, <1>4, <1>5, <1>6 DEF ClientNext, ClientProgress

(* The inductive invariant holds in every state.                             *)
LEMMA ClientInvariance == ClientSpec => []ClientInv
<1>1. ClientInit => ClientInv
  BY ClientInitHolds
<1>2. QED
  BY <1>1, ClientStepKeeps, PTL DEF ClientSpec

-----------------------------------------------------------------------------
(* Every variable of the client and its callers keeps its type; no call ever *)
(* makes a third request (_post_json retries once).                          *)
THEOREM ClientTypeCorrect == ClientSpec => []ClientTypeOK
<1>1. ClientInv => ClientTypeOK
  BY DEF ClientInv
<1>2. QED
  BY <1>1, ClientInvariance, PTL

(* A closed client stays shared only while a guard is at its reset, or after *)
(* one was cancelled there (aclose, azure_http.py).                          *)
THEOREM ClosedIsTransient == ClientSpec => []ClosedClientIsLeaving
<1>1. ClientInv => ClosedClientIsLeaving
  BY DEF ClientInv
<1>2. QED
  BY <1>1, ClientInvariance, PTL

(* A burst of guards makes one client, and one more for each guard that      *)
(* retried, however their resets overlap.                                    *)
THEOREM ClientsAreBounded == ClientSpec => []ClientsAreAccounted
<1>1. ClientInv => ClientsAreAccounted
  BY DEF ClientInv
<1>2. QED
  BY <1>1, ClientInvariance, PTL

-----------------------------------------------------------------------------
(***************************************************************************)
(* A check of a guard that asks Azure.                                     *)
(***************************************************************************)
(* Only an answer reports anything.                                          *)
NothingFound == \A c \in Calls : call[c].state # "answered" => call[c].found = {}

(* The calls a check makes.                                                  *)
IsMade(c) == c \in MainCalls \/ (c = 0 /\ HasPrelude)

(* Which calls are under way, or have been, at each await.                   *)
CallsFollow ==
  /\ at \in {"start", "token"} => \A c \in Calls : call[c].state = "none"
  /\ at \in {"token", "prelude", "drop", "answers"} => EarlyVerdict = "none"
  /\ at \in {"prelude", "drop"} => HasPrelude
  /\ at \in {"prelude", "drop", "answers"} =>
       \A c \in Calls : IF IsMade(c) THEN call[c].state \notin {"none", "cancelled"}
                                     ELSE call[c].state = "none"
  /\ at \in {"drop", "answers"} => ~IsOpen(0)
  /\ at = "answers" => ~Detected(0)

AzureInv ==
  /\ guard \in AzureChecks
  /\ AzureTypeOK
  /\ NothingFound
  /\ CallsFollow
  /\ MainAnswersDecide
  /\ NoCallIsLeftBehind

-----------------------------------------------------------------------------
LEMMA CallNumbers ==
  ASSUME guard \in AzureChecks
  PROVE  /\ guard.calls \in Nat
         /\ MainCalls \subseteq Calls
         /\ 0 \in Calls /\ 0 \notin MainCalls
         /\ guard.kind # "topic" => MainCalls = {1}
         /\ HasPrelude => MainCalls = {1}
         /\ EarlyVerdict = "none" => 1 \in MainCalls
<1>1. /\ guard.calls \in 0 .. MaxCalls /\ MaxCalls \in Nat
      /\ guard.kind # "topic" => guard.calls = 1
  BY AzureAssumption
<1>2. /\ guard.calls \in Nat /\ MainCalls \subseteq Calls /\ 0 \in Calls /\ 0 \notin MainCalls
      /\ guard.kind # "topic" => MainCalls = {1}
      /\ guard.calls # 0 => 1 \in MainCalls
  BY <1>1 DEF MainCalls, Calls
<1>3. HasPrelude => guard.kind # "topic"
  BY DEF HasPrelude
<1>4. EarlyVerdict = "none" => guard.calls # 0
  BY <1>1 DEF EarlyVerdict
<1>5. QED
  BY <1>2, <1>3, <1>4

(* What depends on the guard alone stays.                                    *)
LEMMA GuardStays ==
  ASSUME UNCHANGED guard
  PROVE  /\ MainCalls' = MainCalls
         /\ HasPrelude' = HasPrelude
         /\ EarlyVerdict' = EarlyVerdict
         /\ \A c : Detected(c)' = (\E f \in call'[c].found : Counts(f))
<1>1. MainCalls' = MainCalls
  BY DEF MainCalls
<1>2. HasPrelude' = HasPrelude
  BY DEF HasPrelude
<1>3. EarlyVerdict' = EarlyVerdict
  BY DEF EarlyVerdict, FailResult
<1>4. \A c : Detected(c)' = (\E f \in call'[c].found : Counts(f))
  BY DEF Detected, Counts
<1>5. QED
  BY <1>1, <1>2, <1>3, <1>4

LEMMA VerdictTypes ==
  /\ FailResult \in {"allow", "block"}
  /\ EarlyVerdict \in {"none", "allow", "block"}
  /\ Judge \in {"allow", "sanitize", "block", "crash"}
BY DEF FailResult, EarlyVerdict, Judge

(* A call that reports nothing is not held against the text.                 *)
LEMMA NothingDetected ==
  ASSUME NothingFound, NEW c \in Calls, call[c].state # "answered"
  PROVE  ~Detected(c)
BY DEF NothingFound, Detected

LEMMA EndTypes ==
  ASSUME NEW question, NEW end \in EndsOf(question)
  PROVE  /\ end.state \in {"error", "malformed", "bare", "answered"}
         /\ end.state # "answered" => end.found = {}
BY DEF EndsOf

LEMMA AzureInitHolds == ASSUME AzureInit PROVE AzureInv
<1>1. \A c \in Calls : call[c] = NotCalled /\ call[c].state = "none" /\ call[c].found = {}
  BY DEF AzureInit, NotCalled
<1>2. AzureTypeOK
  BY <1>1 DEF AzureInit, AzureTypeOK
<1>3. QED
  BY <1>1, <1>2 DEF AzureInit, AzureInv, NothingFound, CallsFollow, MainAnswersDecide, NoCallIsLeftBehind

-----------------------------------------------------------------------------
(* A check that is not over has let nothing through and left nothing behind. *)
LEMMA NotOverYet ==
  ASSUME at' # "done", result' = "none"
  PROVE  MainAnswersDecide' /\ NoCallIsLeftBehind'
BY DEF MainAnswersDecide, NoCallIsLeftBehind

LEMMA StartCallsKeeps ==
  ASSUME AzureInv, StartCalls, UNCHANGED guard, EarlyVerdict = "none", at \in {"start", "token"}
  PROVE  AzureInv'
<1>1. /\ result' = "none" /\ at' = (IF HasPrelude THEN "prelude" ELSE "answers")
      /\ DOMAIN call' = Calls
      /\ \A c \in Calls : call'[c] = IF IsMade(c) THEN Running ELSE NotCalled
  BY DEF AzureInv, AzureTypeOK, StartCalls, IsMade
<1>2. \A c \in Calls : /\ IsMade(c) => call'[c].state = "running" /\ call'[c].found = {}
                       /\ ~IsMade(c) => call'[c].state = "none" /\ call'[c].found = {}
  BY <1>1 DEF Running, NotCalled
<1>3. /\ MainCalls' = MainCalls /\ HasPrelude' = HasPrelude /\ EarlyVerdict' = EarlyVerdict
      /\ \A c : Detected(c)' = (\E f \in call'[c].found : Counts(f))
  BY GuardStays
<1>4. AzureTypeOK' /\ NothingFound'
  BY <1>1, <1>2 DEF AzureTypeOK, NothingFound, Calls
<1>5. 0 \in Calls /\ 0 \notin MainCalls
  BY CallNumbers DEF AzureInv
<1>6. CallsFollow'
  BY <1>1, <1>2, <1>3, <1>5 DEF CallsFollow, IsMade, IsOpen, Calls
<1>7. MainAnswersDecide' /\ NoCallIsLeftBehind'
  BY <1>1, NotOverYet
<1>8. QED
  BY <1>4, <1>6, <1>7 DEF AzureInv

(* A check that ends before it has asked.                                    *)
LEMMA EndUnaskedKeeps ==
  ASSUME AzureInv, UNCHANGED <<guard, call>>, at \in {"start", "token"}, NEW verdict, End(verdict),
         verdict \in {"allow", "block", "cancelled"},
         verdict = "allow" /\ EarlyVerdict = "none" => guard.fail_open
  PROVE  AzureInv'
<1>1. at' = "done" /\ result' = verdict /\ \A c \in Calls : call[c].state = "none"
  BY DEF AzureInv, CallsFollow, End
<1>2. AzureTypeOK' /\ NothingFound' /\ CallsFollow'
  BY <1>1 DEF AzureInv, AzureTypeOK, NothingFound, CallsFollow, Calls
<1>3. EarlyVerdict' = EarlyVerdict
  BY GuardStays
<1>4. MainAnswersDecide'
  BY <1>1, <1>3 DEF MainAnswersDecide, Asked, Calls
<1>5. NoCallIsLeftBehind'
  BY <1>1 DEF NoCallIsLeftBehind, IsOpen, Calls
<1>6. QED
  BY <1>2, <1>4, <1>5 DEF AzureInv

LEMMA BeginCheckKeeps == ASSUME AzureInv, BeginCheck PROVE AzureInv'
<1>1. at = "start" /\ UNCHANGED guard
  BY DEF BeginCheck
<1>2. CASE EarlyVerdict # "none" /\ End(EarlyVerdict) /\ UNCHANGED call
  BY <1>1, <1>2, VerdictTypes, EndUnaskedKeeps
<1>3. CASE EarlyVerdict = "none" /\ StartCalls
  BY <1>1, <1>3, StartCallsKeeps
<1>4. CASE EarlyVerdict = "none" /\ at' = "token" /\ UNCHANGED <<call, result>>
  <2>1. result' = "none" /\ EarlyVerdict' = EarlyVerdict
    BY <1>1, <1>4, GuardStays DEF AzureInv, AzureTypeOK
  <2>2. AzureTypeOK' /\ NothingFound' /\ CallsFollow'
    BY <1>1, <1>4, <2>1 DEF AzureInv, AzureTypeOK, NothingFound, CallsFollow, Calls
  <2>3. MainAnswersDecide' /\ NoCallIsLeftBehind'
    BY <1>4, <2>1, NotOverYet
  <2>4. QED
    BY <1>1, <2>2, <2>3 DEF AzureInv
<1>5. QED
  BY <1>2, <1>3, <1>4 DEF BeginCheck

LEMMA TokenComesKeeps == ASSUME AzureInv, TokenComes PROVE AzureInv'
<1>1. at = "token" /\ UNCHANGED guard /\ EarlyVerdict = "none"
  BY DEF AzureInv, CallsFollow, TokenComes
<1>2. CASE StartCalls
  BY <1>1, <1>2, StartCallsKeeps
<1>3. CASE End(FailResult) /\ UNCHANGED call
  <2>1. FailResult \in {"allow", "block"} /\ (FailResult = "allow" => guard.fail_open)
    BY DEF FailResult
  <2>2. QED
    BY <1>1, <1>3, <2>1, EndUnaskedKeeps
<1>4. QED
  BY <1>2, <1>3 DEF TokenComes

(* An end that comes in changes one call, and the text that was let through  *)
(* has none under way.                                                       *)
LEMMA CallEndsKeeps == ASSUME AzureInv, NEW c \in Calls, CallEnds(c) PROVE AzureInv'
<1>1. PICK end \in EndsOf(Question(c)) : call' = [call EXCEPT ![c] = end]
  BY DEF CallEnds
<1>2. /\ IsOpen(c) /\ UNCHANGED <<guard, at, result>>
      /\ end.state \in {"error", "malformed", "bare", "answered"}
      /\ end.state # "answered" => end.found = {}
  BY EndTypes DEF CallEnds
<1>3. DOMAIN call' = Calls /\ call'[c] = end /\ \A d \in Calls \ {c} : call'[d] = call[d]
  BY <1>1 DEF AzureInv, AzureTypeOK
<1>4. /\ MainCalls' = MainCalls /\ HasPrelude' = HasPrelude /\ EarlyVerdict' = EarlyVerdict
      /\ \A d : Detected(d)' = (\E f \in call'[d].found : Counts(f))
  BY <1>2, GuardStays
<1>5. AzureTypeOK'
  BY <1>2, <1>3 DEF AzureInv, AzureTypeOK, Calls
<1>6. NothingFound'
  BY <1>2, <1>3 DEF AzureInv, NothingFound, Calls
<1>7. CallsFollow'
  <2>1. at \notin {"start", "token"}
    BY <1>2 DEF AzureInv, CallsFollow, IsOpen
  <2>2. ASSUME NEW d \in Calls, at \in {"prelude", "drop", "answers"}
        PROVE  IF IsMade(d) THEN call'[d].state \notin {"none", "cancelled"}
                            ELSE call'[d].state = "none"
    BY <1>2, <1>3, <2>2 DEF AzureInv, CallsFollow, IsOpen
  <2>3. 0 \in Calls
    BY CallNumbers DEF AzureInv
  <2>4. at \in {"drop", "answers"} => c # 0 /\ call'[0] = call[0] /\ ~IsOpen(0)
    BY <1>2, <1>3, <2>3 DEF AzureInv, CallsFollow
  <2>5. at = "answers" => ~(\E f \in call'[0].found : Counts(f))
    BY <2>4 DEF AzureInv, CallsFollow, Detected
  <2>6. QED
    BY <1>2, <1>4, <2>1, <2>2, <2>4, <2>5 DEF AzureInv, CallsFollow, IsMade, IsOpen, Calls
<1>8. NoCallIsLeftBehind'
  BY <1>2, <1>3, <1>4 DEF AzureInv, NoCallIsLeftBehind, IsOpen, Calls
<1>9. MainAnswersDecide'
  <2>1. result # "allow"
    BY <1>2 DEF AzureInv, NoCallIsLeftBehind, AzureTypeOK
  <2>2. QED
    BY <1>2, <2>1 DEF MainAnswersDecide
<1>10. QED
  BY <1>2, <1>5, <1>6, <1>7, <1>8, <1>9 DEF AzureInv

(* A call under way at the preliminary one's end can only be the analysis.   *)
LEMMA OnlyTheAnalysis ==
  ASSUME AzureInv, at \in {"prelude", "drop"}, NEW c \in Calls, IsOpen(c), c # 0
  PROVE  c = 1
<1>1. IsMade(c)
  BY DEF AzureInv, CallsFollow, IsOpen
<1>2. QED
  BY <1>1, CallNumbers DEF AzureInv, CallsFollow, IsMade

LEMMA PreludeEndsKeeps == ASSUME AzureInv, PreludeEnds PROVE AzureInv'
<1>1. /\ at = "prelude" /\ ~IsOpen(0) /\ UNCHANGED <<guard, call>> /\ HasPrelude
      /\ EarlyVerdict = "none"
  BY DEF AzureInv, CallsFollow, PreludeEnds
<1>2. /\ MainCalls' = MainCalls /\ HasPrelude' = HasPrelude /\ EarlyVerdict' = EarlyVerdict
      /\ \A c : Detected(c)' = Detected(c)
  BY <1>1, GuardStays DEF Detected
<1>3. NothingFound'
  BY <1>1 DEF AzureInv, NothingFound, Calls
<1>4. CASE at' \in {"answers", "drop"} /\ UNCHANGED result /\ (at' = "answers" => ~Detected(0))
  <2>1. AzureTypeOK' /\ result' = "none"
    BY <1>1, <1>4 DEF AzureInv, AzureTypeOK, Calls
  <2>2. CallsFollow'
    BY <1>1, <1>2, <1>4 DEF AzureInv, CallsFollow, IsMade, IsOpen, Calls
  <2>3. QED
    BY <1>1, <1>3, <1>4, <2>1, <2>2, NotOverYet DEF AzureInv
<1>5. CASE \/ End("crash")
           \/ End("block") /\ ~IsOpen(1)
  <2>1. at' = "done" /\ result' \in {"crash", "block"}
    BY <1>5 DEF End
  <2>2. AzureTypeOK' /\ CallsFollow'
    BY <1>1, <2>1 DEF AzureInv, AzureTypeOK, CallsFollow, Calls
  <2>3. MainAnswersDecide'
    BY <2>1 DEF MainAnswersDecide
  <2>4. NoCallIsLeftBehind'
    <3>1. ASSUME NEW c \in Calls, IsOpen(c)
          PROVE  c = 1
      BY <1>1, <3>1, OnlyTheAnalysis
    <3>2. result' = "block" => ~IsOpen(1)
      BY <1>5 DEF End
    <3>3. QED
      BY <1>1, <1>2, <2>1, <3>1, <3>2 DEF NoCallIsLeftBehind, IsOpen, Calls
  <2>5. QED
    BY <1>1, <1>3, <2>2, <2>3, <2>4 DEF AzureInv
<1>6. QED
  BY <1>4, <1>5 DEF PreludeEnds

LEMMA AnalysisDroppedKeeps == ASSUME AzureInv, AnalysisDropped PROVE AzureInv'
<1>1. /\ at = "drop" /\ at' = "done" /\ result' = "block" /\ UNCHANGED guard
      /\ HasPrelude /\ ~IsOpen(0)
  BY DEF AzureInv, CallsFollow, AnalysisDropped, End
<1>2. /\ DOMAIN call' = Calls
      /\ \A c \in Calls : \/ call'[c] = call[c] /\ (c = 1 => ~IsOpen(c))
                          \/ c = 1 /\ call'[c] = Cancelled
  BY DEF AzureInv, AzureTypeOK, AnalysisDropped
<1>3. Cancelled.state = "cancelled" /\ Cancelled.found = {}
  BY DEF Cancelled
<1>4. AzureTypeOK' /\ NothingFound' /\ CallsFollow' /\ MainAnswersDecide'
  BY <1>1, <1>2, <1>3 DEF AzureInv, AzureTypeOK, NothingFound, CallsFollow, MainAnswersDecide, Calls
<1>5. \A c \in Calls : call'[c].state # "running"
  <2>1. ASSUME NEW c \in Calls, call'[c].state = "running"
        PROVE  FALSE
    <3>1. call'[c] = call[c] /\ IsOpen(c) /\ c # 1
      BY <1>2, <1>3, <2>1 DEF IsOpen
    <3>2. c # 0
      BY <1>1, <3>1
    <3>3. QED
      BY <1>1, <3>1, <3>2, OnlyTheAnalysis
  <2>2. QED
    BY <2>1
<1>6. NoCallIsLeftBehind'
  BY <1>5 DEF NoCallIsLeftBehind, IsOpen, Calls
<1>7. QED
  BY <1>1, <1>4, <1>6 DEF AzureInv

(* What a check that allows a text after all answers has seen.               *)
LEMMA JudgeIsSound ==
  ASSUME AzureInv, at = "answers", \A c \in MainCalls : ~IsOpen(c), Judge = "allow"
  PROVE  \/ /\ Asked
            /\ \A c \in MainCalls : call[c].state \in {"answered", "bare"} /\ ~Failed(c)
            /\ \A c \in Calls : ~Detected(c)
         \/ /\ guard.fail_open
            /\ \E c \in MainCalls : Failed(c)
            /\ \A c \in Calls : Detected(c) => c \in MainCalls /\ guard.kind = "topic"
<1>1. /\ MainCalls \subseteq Calls /\ 0 \in Calls /\ 1 \in MainCalls
      /\ guard.kind # "topic" => MainCalls = {1}
  BY CallNumbers DEF AzureInv, CallsFollow
<1>2. \A c \in MainCalls :
        /\ call[c].state \notin {"none", "cancelled", "running"}
        /\ call[c].state \in {"error", "malformed", "bare", "answered"}
  BY <1>1 DEF AzureInv, AzureTypeOK, CallsFollow, IsMade, IsOpen
<1>3. ASSUME NEW c \in Calls, c \notin MainCalls
      PROVE  ~Detected(c)
  <2>1. CASE c = 0
    BY <2>1 DEF AzureInv, CallsFollow
  <2>2. CASE c # 0
    <3>1. call[c].state = "none"
      BY <2>2, <1>3 DEF AzureInv, CallsFollow, IsMade
    <3>2. QED
      BY <3>1, NothingDetected DEF AzureInv
  <2>3. QED
    BY <2>1, <2>2
<1>4. CASE \A c \in MainCalls : ~Failed(c)
  <2>1. \A c \in MainCalls : ~Detected(c)
    BY <1>4 DEF Judge
  <2>2. Asked
    BY <1>1, <1>2 DEF Asked
  <2>3. \A c \in MainCalls : call[c].state \in {"answered", "bare"}
    BY <1>2, <1>4 DEF Failed
  <2>4. QED
    BY <1>3, <1>4, <2>1, <2>2, <2>3
<1>5. CASE \E c \in MainCalls : Failed(c)
  <2>1. guard.fail_open
    BY <1>5 DEF Judge, FailResult
  <2>2. ASSUME NEW c \in Calls, Detected(c)
        PROVE  c \in MainCalls /\ guard.kind = "topic"
    <3>1. c \in MainCalls
      BY <1>3, <2>2
    <3>2. ASSUME guard.kind # "topic" PROVE FALSE
      <4>1. Failed(c) /\ c = 1
        BY <1>1, <1>5, <3>1, <3>2
      <4>2. call[c].state # "answered"
        BY <4>1 DEF Failed
      <4>3. QED
        BY <2>2, <4>2, NothingDetected DEF AzureInv
    <3>3. QED
      BY <3>1, <3>2
  <2>3. QED
    BY <1>5, <2>1, <2>2
<1>6. QED
  BY <1>4, <1>5

LEMMA AnswersEndKeeps == ASSUME AzureInv, AnswersEnd PROVE AzureInv'
<1>1. /\ at = "answers" /\ at' = "done" /\ result' = Judge /\ UNCHANGED <<guard, call>>
      /\ \A c \in MainCalls : ~IsOpen(c)
  BY DEF AnswersEnd, End
<1>2. /\ MainCalls' = MainCalls /\ HasPrelude' = HasPrelude /\ EarlyVerdict' = EarlyVerdict
      /\ \A c : Detected(c)' = Detected(c)
  BY <1>1, GuardStays DEF Detected
<1>3. Judge \in {"allow", "sanitize", "block", "crash"}
  BY VerdictTypes
<1>4. AzureTypeOK' /\ NothingFound' /\ CallsFollow'
  BY <1>1, <1>3 DEF AzureInv, AzureTypeOK, NothingFound, CallsFollow, Calls
<1>5. MainAnswersDecide'
  <2>1. CASE Judge = "allow"
    <3>1. Asked' = Asked /\ \A c : Failed(c)' = Failed(c)
      BY <1>1 DEF Asked, Failed, Calls
    <3>2. Asked
      BY <1>1, CallNumbers DEF AzureInv, AzureTypeOK, CallsFollow, IsMade, Asked
    <3>3. QED
      BY <1>1, <1>2, <2>1, <3>1, <3>2, JudgeIsSound DEF MainAnswersDecide, Calls
  <2>2. CASE Judge # "allow"
    BY <1>1, <2>2 DEF MainAnswersDecide
  <2>3. QED
    BY <2>1, <2>2
<1>6. \A c \in Calls : ~IsOpen(c)
  BY <1>1 DEF AzureInv, CallsFollow, IsMade, IsOpen
<1>7. NoCallIsLeftBehind'
  BY <1>1, <1>6 DEF NoCallIsLeftBehind, IsOpen, Calls
<1>8. QED
  BY <1>1, <1>4, <1>5, <1>7 DEF AzureInv

LEMMA CancelCheckKeeps == ASSUME AzureInv, CancelCheck PROVE AzureInv'
<1> DEFINE awaited == IF at = "prelude" THEN {0} ELSE MainCalls
<1>1. /\ at \in {"token", "prelude", "answers"} /\ UNCHANGED guard
      /\ at' = "done" /\ result' = "cancelled"
      /\ DOMAIN call' = Calls
      /\ \A c \in Calls : call'[c] = IF c \in awaited /\ IsOpen(c) THEN Cancelled ELSE call[c]
  BY DEF CancelCheck, End
<1>2. Cancelled.state = "cancelled" /\ Cancelled.found = {}
  BY DEF Cancelled
<1>3. HasPrelude' = HasPrelude
  BY <1>1, GuardStays
<1>4. AzureTypeOK' /\ NothingFound' /\ CallsFollow' /\ MainAnswersDecide'
  BY <1>1, <1>2 DEF AzureInv, AzureTypeOK, NothingFound, CallsFollow, MainAnswersDecide, Calls
<1>5. ASSUME NEW c \in Calls, call'[c].state = "running"
      PROVE  HasPrelude /\ c = 1
  <2>1. c \notin awaited /\ IsOpen(c)
    BY <1>1, <1>2, <1>5 DEF IsOpen
  <2>2. CASE at = "prelude"
    BY <2>1, <2>2, OnlyTheAnalysis DEF AzureInv, CallsFollow
  <2>3. CASE at \in {"token", "answers"}
    BY <2>1, <2>3 DEF AzureInv, CallsFollow, IsMade, IsOpen
  <2>4. QED
    BY <1>1, <2>2, <2>3
<1>6. NoCallIsLeftBehind'
  BY <1>1, <1>3, <1>5 DEF NoCallIsLeftBehind, IsOpen, Calls
<1>7. QED
  BY <1>1, <1>4, <1>6 DEF AzureInv

-----------------------------------------------------------------------------
LEMMA AzureStepKeeps == ASSUME AzureInv, [AzureNext]_azureVars PROVE AzureInv'
<1>1. CASE BeginCheck
  BY <1>1, BeginCheckKeeps
<1>2. CASE TokenComes
  BY <1>2, TokenComesKeeps
<1>3. CASE \E c \in Calls : CallEnds(c)
  BY <1>3, CallEndsKeeps
<1>4. CASE PreludeEnds
  BY <1>4, PreludeEndsKeeps
<1>5. CASE AnalysisDropped
  BY <1>5, AnalysisDroppedKeeps
<1>6. CASE AnswersEnd
  BY <1>6, AnswersEndKeeps
<1>7. CASE CancelCheck
  BY <1>7, CancelCheckKeeps
<1>8. CASE UNCHANGED azureVars
  <2>1. UNCHANGED <<guard, at, call, result>>
    BY <1>8 DEF azureVars
  <2>2. /\ MainCalls' = MainCalls /\ HasPrelude' = HasPrelude /\ EarlyVerdict' = EarlyVerdict
        /\ \A c : Detected(c)' = Detected(c)
    BY <2>1, GuardStays DEF Detected
  <2>3. AzureTypeOK' /\ NothingFound'
    BY <2>1 DEF AzureInv, AzureTypeOK, NothingFound, Calls
  <2>4. CallsFollow' /\ NoCallIsLeftBehind'
    BY <2>1, <2>2 DEF AzureInv, CallsFollow, NoCallIsLeftBehind, IsMade, IsOpen, Calls
  <2>5. MainAnswersDecide'
    BY <2>1, <2>2 DEF AzureInv, MainAnswersDecide, Asked, Failed, Calls
  <2>6. QED
    BY <2>1, <2>3, <2>4, <2>5 DEF AzureInv
<1>9. QED
  BY <1>1, <1>2, <1>3, <1>4, <1>5, <1>6, <1>7, <1>8 DEF AzureNext

LEMMA AzureInvariance == AzureSpec => []AzureInv
<1>1. AzureInit => AzureInv
  BY AzureInitHolds
<1>2. AzureInv /\ [AzureNext]_azureVars => AzureInv'
  BY AzureStepKeeps
<1>3. QED
  BY <1>1, <1>2, PTL DEF AzureSpec

(* Every variable of a check keeps its type.                                 *)
THEOREM AzureTypeCorrect == AzureSpec => []AzureTypeOK
<1>1. AzureInv => AzureTypeOK
  BY DEF AzureInv
<1>2. QED
  BY <1>1, AzureInvariance, PTL

(* Whatever Azure reports and in whatever order its answers come, a text is  *)
(* let through only when all main questions were answered and no answer was  *)
(* bad, or on the excuse of a guard that is fail_open.  A preliminary call   *)
(* without an answer is no obstacle, and is not spoken of.                   *)
THEOREM MainAnswersAlwaysDecide == AzureSpec => []MainAnswersDecide
<1>1. AzureInv => MainAnswersDecide
  BY DEF AzureInv
<1>2. QED
  BY <1>1, AzureInvariance, PTL

(* No call outlives a verdict, however the check ends, but the analysis of a *)
(* check that was cancelled, or crashed, at its preliminary call.            *)
THEOREM CallsNeverLeft == AzureSpec => []NoCallIsLeftBehind
<1>1. AzureInv => NoCallIsLeftBehind
  BY DEF AzureInv
<1>2. QED
  BY <1>1, AzureInvariance, PTL

-----------------------------------------------------------------------------
(***************************************************************************)
(* The guards that decide alone.                                           *)
(***************************************************************************)
Grown(u, t, p) == t \in [Pieces -> Nat] /\ p \in Pieces /\ u = [t EXCEPT ![p] = @ + 1]

(* What a longer text has more of.                                           *)
LEMMA SumGrows ==
  ASSUME NEW u, NEW t, NEW p, Grown(u, t, p), NEW S \in SUBSET Pieces
  PROVE  Sum(t, S) \in Nat /\ Sum(u, S) = Sum(t, S) + IF p \in S THEN 1 ELSE 0
<1>0. IsFiniteSet(Pieces) /\ IsFiniteSet(S)
  BY LocalAssumption, FS_Subset
<1>1. /\ \A x \in S : t[x] \in Nat /\ u[x] \in Nat
      /\ \A x \in S : x # p => t[x] = u[x]
      /\ p \in S => u[p] = t[p] + 1
  BY DEF Grown
<1>2. Sum(t, S) \in Nat
  BY <1>0, <1>1, SumIsNatural
<1>3. CASE p \notin S
  <2>1. \A x \in S : t[x] \in Nat /\ t[x] = u[x]
    BY <1>1, <1>3
  <2>2. Sum(t, S) = Sum(u, S)
    BY <1>0, <2>1, SumAgrees
  <2>3. QED
    BY <1>2, <1>3, <2>2
<1>4. CASE p \in S
  <2>0. IsFiniteSet(S \ {p})
    BY <1>0, FS_Subset
  <2>1. Sum(t, S) = t[p] + Sum(t, S \ {p})
    BY <1>0, <1>1, <1>4, SumWithout
  <2>2. Sum(u, S) = u[p] + Sum(u, S \ {p})
    BY <1>0, <1>1, <1>4, SumWithout
  <2>3. \A x \in S \ {p} : t[x] \in Nat /\ t[x] = u[x]
    BY <1>1
  <2>4. Sum(t, S \ {p}) = Sum(u, S \ {p}) /\ Sum(t, S \ {p}) \in Nat
    BY <2>0, <2>3, SumAgrees, SumIsNatural
  <2>5. QED
    BY <1>1, <1>2, <1>4, <2>1, <2>2, <2>4
<1>5. QED
  BY <1>3, <1>4, <1>2

LEMMA NumberGrows ==
  ASSUME NEW u, NEW t, NEW p, Grown(u, t, p), NEW kinds
  PROVE  /\ Number(t, kinds) \in Nat
         /\ Number(u, kinds) = Number(t, kinds) + IF local.sees[p] \in kinds THEN 1 ELSE 0
<1>1. PICK S \in SUBSET Pieces : S = {x \in Pieces : local.sees[x] \in kinds}
  OBVIOUS
<1>2. Number(t, kinds) = Sum(t, S) /\ Number(u, kinds) = Sum(u, S)
  BY <1>1 DEF Number, Sum
<1>3. p \in S <=> local.sees[p] \in kinds
  BY <1>1 DEF Grown
<1>4. QED
  BY <1>2, <1>3, SumGrows

LEMMA LengthGrows ==
  ASSUME NEW u, NEW t, NEW p, Grown(u, t, p)
  PROVE  Length(t) \in Nat /\ Length(u) = Length(t) + 1
<1>1. Length(t) = Sum(t, Pieces) /\ Length(u) = Sum(u, Pieces)
  BY DEF Length, Sum
<1>2. p \in Pieces
  BY DEF Grown
<1>3. QED
  BY <1>1, <1>2, SumGrows

LEMMA NumberOfMore ==
  ASSUME NEW t \in [Pieces -> Nat], NEW kinds, NEW more, kinds \subseteq more
  PROVE  Number(t, kinds) <= Number(t, more)
<1>1. PICK S \in SUBSET Pieces : S = {x \in Pieces : local.sees[x] \in kinds}
  OBVIOUS
<1>2. PICK R \in SUBSET Pieces : R = {x \in Pieces : local.sees[x] \in more}
  OBVIOUS
<1>3. Number(t, kinds) = Sum(t, S) /\ Number(t, more) = Sum(t, R)
  BY <1>1, <1>2 DEF Number, Sum
<1>4. S \in SUBSET R /\ IsFiniteSet(R) /\ \A x \in R : t[x] \in Nat
  BY <1>1, <1>2, LocalAssumption, FS_Subset
<1>5. QED
  BY <1>3, <1>4, SumOfMore

(* The patterns found stay found.                                            *)
LEMMA WeightGrows ==
  ASSUME NEW u, NEW t, NEW p, Grown(u, t, p), NEW w \in [Pieces -> Nat]
  PROVE  LET before == {x \in Pieces : t[x] > 0}
             after  == {x \in Pieces : u[x] > 0}
         IN  Sum(w, before) \in Nat /\ Sum(w, after) \in Nat /\ Sum(w, before) <= Sum(w, after)
<1>1. PICK S \in SUBSET Pieces : S = {x \in Pieces : t[x] > 0}
  OBVIOUS
<1>2. PICK R \in SUBSET Pieces : R = {x \in Pieces : u[x] > 0}
  OBVIOUS
<1>3. S \in SUBSET R
  BY <1>1, <1>2 DEF Grown
<1>4. IsFiniteSet(R)
  BY LocalAssumption, FS_Subset
<1>5. \A x \in R : w[x] \in Nat
  OBVIOUS
<1>6. QED
  BY <1>1, <1>2, <1>3, <1>4, <1>5, SumOfMore

(* What a piece more may do to a verdict.                                    *)
Moves(p, t, before, after) ==
  /\ local.sees[p] \in Harm => Strictness(after) >= Strictness(before)
  /\ local.sees[p] \in Help /\ Length(t) >= local.least => Strictness(after) <= Strictness(before)

LEMMA Same ==
  ASSUME NEW p, NEW t, NEW verdict
  PROVE  Moves(p, t, verdict, verdict)
BY DEF Moves, Strictness

LEMMA PatternMoves ==
  ASSUME NEW u, NEW t, NEW p, Grown(u, t, p)
  PROVE  Moves(p, t, PatternVerdict(t), PatternVerdict(u))
<1>1. Number(t, {"match"}) \in Nat
  BY NumberGrows
<1>2. Number(u, {"match"}) = Number(t, {"match"}) + IF local.sees[p] \in {"match"} THEN 1 ELSE 0
  BY NumberGrows
<1>3. QED
  BY <1>1, <1>2 DEF Moves, PatternVerdict, Strictness, Harm, Help

LEMMA LengthMoves ==
  ASSUME NEW u, NEW t, NEW p, Grown(u, t, p), local \in LocalChecks, local.kind = "length"
  PROVE  Moves(p, t, LengthVerdict(t), LengthVerdict(u))
<1>1. local.most \in Nat /\ local.sees[p] \notin Help
  BY LocalAssumption DEF Grown
<1>2. Length(t) \in Nat /\ Length(u) = Length(t) + 1
  BY LengthGrows
<1>3. QED
  BY <1>1, <1>2 DEF Moves, LengthVerdict, Strictness

LEMMA InjectionMoves ==
  ASSUME NEW u, NEW t, NEW p, Grown(u, t, p), local \in LocalChecks, local.kind = "injection"
  PROVE  Moves(p, t, InjectionVerdict(t), InjectionVerdict(u))
<1>1. local.sees[p] \notin Help /\ local.weight \in [Pieces -> Nat] /\ local.threshold \in Nat
  BY LocalAssumption DEF Grown
<1>2. PICK w \in [Pieces -> Nat] : w = local.weight
  BY <1>1
<1>3. PICK before : before = Sum(w, {x \in Pieces : t[x] > 0})
  OBVIOUS
<1>4. PICK after : after = Sum(w, {x \in Pieces : u[x] > 0})
  OBVIOUS
<1>5. before \in Nat /\ after \in Nat /\ before <= after
  BY <1>3, <1>4, WeightGrows
<1>6. InjectionVerdict(t) = IF before >= local.threshold THEN "block" ELSE "allow"
  BY <1>2, <1>3 DEF InjectionVerdict, Sum
<1>7. InjectionVerdict(u) = IF after >= local.threshold THEN "block" ELSE "allow"
  BY <1>2, <1>4 DEF InjectionVerdict, Sum
<1>8. QED
  BY <1>1, <1>5, <1>6, <1>7 DEF Moves, Strictness

LEMMA BiasMoves ==
  ASSUME NEW u, NEW t, NEW p, Grown(u, t, p), local \in LocalChecks
  PROVE  Moves(p, t, BiasVerdict(t), BiasVerdict(u))
<1>1. local.least \in Nat
  BY LocalAssumption
<1>2. Length(t) \in Nat /\ Length(u) = Length(t) + 1
  BY LengthGrows
<1>3. /\ Number(t, {"high"}) \in Nat
      /\ Number(u, {"high"}) = Number(t, {"high"}) + IF local.sees[p] \in {"high"} THEN 1 ELSE 0
  BY NumberGrows
<1>4. /\ Number(t, {"medium"}) \in Nat
      /\ Number(u, {"medium"}) = Number(t, {"medium"}) + IF local.sees[p] \in {"medium"} THEN 1 ELSE 0
  BY NumberGrows
<1>5. QED
  BY <1>1, <1>2, <1>3, <1>4 DEF Moves, BiasVerdict, Strictness, Harm, Help

LEMMA TopicMoves ==
  ASSUME NEW u, NEW t, NEW p, Grown(u, t, p), local \in LocalChecks
  PROVE  Moves(p, t, TopicVerdict(t), TopicVerdict(u))
<1>1. local.least \in Nat
  BY LocalAssumption
<1>2. Length(t) \in Nat /\ Length(u) = Length(t) + 1
  BY LengthGrows
<1>3. /\ Number(t, {"keyword"}) \in Nat
      /\ Number(u, {"keyword"}) = Number(t, {"keyword"}) + IF local.sees[p] \in {"keyword"} THEN 1 ELSE 0
  BY NumberGrows
<1>4. /\ Number(t, {"phrase"}) \in Nat
      /\ Number(u, {"phrase"}) = Number(t, {"phrase"}) + IF local.sees[p] \in {"phrase"} THEN 1 ELSE 0
  BY NumberGrows
<1>5. /\ Number(t, {"keyword", "word"}) \in Nat
      /\ Number(u, {"keyword", "word"})
           = Number(t, {"keyword", "word"}) + IF local.sees[p] \in {"keyword", "word"} THEN 1 ELSE 0
  BY NumberGrows
<1>6. CASE ~local.configured
  BY <1>6, Same DEF TopicVerdict
<1>7. CASE local.configured
  BY <1>1, <1>2, <1>3, <1>4, <1>5, <1>7 DEF Moves, TopicVerdict, Strictness, Harm, Help
<1>8. QED
  BY <1>6, <1>7

(* A larger part of a whole, or the same part of a smaller one, is not below *)
(* a threshold that the smaller share was not below; nor is one more of what *)
(* counts.                                                                   *)
LEMMA BelowMoves ==
  ASSUME NEW i \in Nat, NEW o \in Nat, NEW j \in Nat, NEW q \in Nat, NEW percent \in Nat,
         NEW nothing \in {0, 100}
  PROVE  /\ q >= o /\ Below(i, i + o, nothing, percent) => Below(i, i + q, nothing, percent)
         /\ nothing = 100 /\ j >= i /\ q = o /\ Below(j, j + q, nothing, percent)
              => Below(i, i + o, nothing, percent)
         /\ nothing = 0 /\ j \in {i, i + 1} /\ q = o /\ Below(j, j + q, nothing, percent)
              => Below(i, i + o, nothing, percent)
<1>1. ASSUME q >= o, Below(i, i + o, nothing, percent)
      PROVE  Below(i, i + q, nothing, percent)
  <2>1. percent * (i + o) <= percent * (i + q)
    <3>1. percent * (i + q) = percent * (i + o) + percent * (q - o) /\ percent * (q - o) \in Nat
      BY <1>1
    <3>2. percent * (i + o) \in Nat
      OBVIOUS
    <3>3. QED
      BY <3>1, <3>2
  <2>2. CASE i + o > 0
    BY <1>1, <2>1, <2>2 DEF Below
  <2>3. CASE i + o = 0
    <3>1. i = 0 /\ o = 0 /\ percent > 0
      BY <1>1, <2>3 DEF Below
    <3>2. q > 0 => percent * q > 0
      BY <3>1
    <3>3. QED
      BY <1>1, <2>3, <3>1, <3>2 DEF Below
  <2>4. QED
    BY <2>2, <2>3
<1>2. ASSUME j >= i, q = o, i + o > 0, Below(j, j + q, nothing, percent)
      PROVE  Below(i, i + o, nothing, percent)
  <2>1. 100 * j < percent * (j + o)
    BY <1>2 DEF Below
  <2>2. CASE percent <= 100
    <3>1. percent * (j + o) = percent * (i + o) + percent * (j - i)
      BY <1>2
    <3>2. percent * (j - i) <= 100 * (j - i)
      BY <1>2, <2>2
    <3>3. percent * (i + o) \in Nat /\ percent * (j - i) \in Nat
      BY <1>2
    <3>4. 100 * i < percent * (i + o)
      BY <2>1, <3>1, <3>2, <3>3, <1>2
    <3>5. QED
      BY <3>4, <1>2 DEF Below
  <2>3. CASE percent > 100
    <3>1. percent * (i + o) = 100 * (i + o) + (percent - 100) * (i + o)
      BY <2>3
    <3>2. (percent - 100) * (i + o) > 0
      BY <2>3, <1>2
    <3>3. QED
      BY <3>1, <3>2, <1>2 DEF Below
  <2>4. QED
    BY <2>2, <2>3
<1>3. ASSUME nothing = 100, j >= i, q = o, i + o = 0, Below(j, j + q, nothing, percent)
      PROVE  Below(i, i + o, nothing, percent)
  <2>1. i = 0 /\ o = 0 /\ q = 0
    BY <1>3
  <2>2. CASE j = 0
    BY <1>3, <2>1, <2>2 DEF Below
  <2>3. CASE j > 0
    <3>1. 100 * j < percent * j
      BY <1>3, <2>1, <2>3 DEF Below
    <3>2. percent > 100
      BY <3>1, <2>3
    <3>3. QED
      BY <3>2, <1>3 DEF Below
  <2>4. QED
    BY <2>2, <2>3
<1>4. ASSUME nothing = 0, j \in {i, i + 1}, q = o, i + o = 0, Below(j, j + q, nothing, percent)
      PROVE  Below(i, i + o, nothing, percent)
  <2>1. i = 0 /\ o = 0 /\ q = 0 /\ j \in {0, 1}
    BY <1>4
  <2>2. percent > 0
    BY <1>4, <2>1 DEF Below
  <2>3. QED
    BY <2>2, <1>4 DEF Below
<1>5. i + o > 0 \/ i + o = 0
  OBVIOUS
<1>6. QED
  BY <1>1, <1>2, <1>3, <1>4, <1>5

LEMMA ScopeMoves ==
  ASSUME NEW u, NEW t, NEW p, Grown(u, t, p), local \in LocalChecks, local.kind = "scope"
  PROVE  Moves(p, t, ScopeVerdict(t), ScopeVerdict(u))
<1>1. local.least \in Nat /\ local.most \in Nat
  BY LocalAssumption
<1>2. Length(t) \in Nat /\ Length(u) = Length(t) + 1
  BY LengthGrows
<1>3. /\ Number(t, {"in"}) \in Nat
      /\ Number(u, {"in"}) = Number(t, {"in"}) + IF local.sees[p] \in {"in"} THEN 1 ELSE 0
  BY NumberGrows
<1>4. PICK kinds : kinds = IF local.strict THEN {"out", "neither"} ELSE {"out"}
  OBVIOUS
<1>5. /\ Number(t, kinds) \in Nat
      /\ Number(u, kinds) = Number(t, kinds) + IF local.sees[p] \in kinds THEN 1 ELSE 0
  BY NumberGrows
<1>6. local.sees[p] = "out" => local.sees[p] \in kinds
  BY <1>4
<1>7. local.sees[p] \in Harm \ {"out"} => local.sees[p] \notin kinds /\ local.sees[p] # "in"
  BY <1>4 DEF Harm
<1>8. local.sees[p] \in Help => local.sees[p] \notin kinds
  BY <1>4 DEF Help
<1>9. PICK in0 \in Nat : in0 = Number(t, {"in"})
  BY <1>3
<1>10. PICK out0 \in Nat : out0 = Number(t, kinds)
  BY <1>5
<1>11. PICK in1 \in Nat : in1 = Number(u, {"in"})
  BY <1>3
<1>12. PICK out1 \in Nat : out1 = Number(u, kinds)
  BY <1>5
<1>13. local.sees[p] \in Harm => in1 = in0 /\ out1 >= out0
  BY <1>3, <1>5, <1>7, <1>6, <1>9, <1>10, <1>11, <1>12 DEF Harm
<1>14. local.sees[p] \in Help => in1 >= in0 /\ out1 = out0
  BY <1>3, <1>5, <1>8, <1>9, <1>10, <1>11, <1>12
<1> DEFINE Judged(long, in, out) ==
      IF long < local.least THEN "allow"
      ELSE IF in = 0 /\ out >= local.most THEN "block"
      ELSE IF local.strict THEN "allow"
      ELSE Scored(in, in + out, 100)
<1>15. ScopeVerdict(t) = Judged(Length(t), in0, out0)
  BY <1>4, <1>9, <1>10 DEF ScopeVerdict
<1>16. ScopeVerdict(u) = Judged(Length(u), in1, out1)
  BY <1>4, <1>11, <1>12 DEF ScopeVerdict
<1>17. local.block \in Nat /\ local.warn \in Nat
  BY LocalAssumption
<1>18. PICK n \in Nat : n = Length(t)
  BY <1>2
<1>19. Length(u) = n + 1
  BY <1>2, <1>18
<1>20. ASSUME local.sees[p] \in Harm
       PROVE  Strictness(Judged(n + 1, in1, out1)) >= Strictness(Judged(n, in0, out0))
  <2>1. ASSUME NEW percent \in {local.block, local.warn}, Below(in0, in0 + out0, 100, percent)
        PROVE  Below(in1, in1 + out1, 100, percent)
    <3>1. percent \in Nat /\ in1 = in0 /\ out1 >= out0 /\ 100 \in {0, 100}
      BY <1>13, <1>17, <1>20
    <3>2. Below(in0, in0 + out1, 100, percent)
      BY <2>1, <3>1, BelowMoves
    <3>3. QED
      BY <3>1, <3>2
  <2>2. Strictness(Scored(in1, in1 + out1, 100)) >= Strictness(Scored(in0, in0 + out0, 100))
    BY <2>1 DEF Scored, Strictness
  <2>3. QED
    BY <1>1, <1>13, <1>20, <2>2 DEF Strictness, Scored
<1>21. ASSUME local.sees[p] \in Help, n >= local.least
       PROVE  Strictness(Judged(n + 1, in1, out1)) <= Strictness(Judged(n, in0, out0))
  <2>1. ASSUME NEW percent \in {local.block, local.warn}, Below(in1, in1 + out1, 100, percent)
        PROVE  Below(in0, in0 + out0, 100, percent)
    <3>1. percent \in Nat /\ in1 >= in0 /\ out1 = out0 /\ 100 \in {0, 100}
      BY <1>14, <1>17, <1>21
    <3>2. QED
      BY <2>1, <3>1, BelowMoves
  <2>2. Strictness(Scored(in1, in1 + out1, 100)) <= Strictness(Scored(in0, in0 + out0, 100))
    BY <2>1 DEF Scored, Strictness
  <2>3. QED
    BY <1>1, <1>14, <1>21, <2>2 DEF Strictness, Scored
<1>22. Moves(p, t, Judged(Length(t), in0, out0), Judged(Length(u), in1, out1))
  BY <1>18, <1>19, <1>20, <1>21 DEF Moves
<1>23. QED
  BY <1>15, <1>16, <1>22

LEMMA SourceMoves ==
  ASSUME NEW u, NEW t, NEW p, Grown(u, t, p), local \in LocalChecks, local.kind = "source"
  PROVE  Moves(p, t, SourceVerdict(t), SourceVerdict(u))
<1>1. local.least \in Nat
  BY LocalAssumption
<1>2. Length(t) \in Nat /\ Length(u) = Length(t) + 1
  BY LengthGrows
<1>3. /\ Number(t, {"supported"}) \in Nat
      /\ Number(u, {"supported"})
           = Number(t, {"supported"}) + IF local.sees[p] \in {"supported"} THEN 1 ELSE 0
  BY NumberGrows
<1>4. /\ Number(t, {"supported", "unsupported"}) \in Nat
      /\ Number(u, {"supported", "unsupported"})
           = Number(t, {"supported", "unsupported"})
               + IF local.sees[p] \in {"supported", "unsupported"} THEN 1 ELSE 0
  BY NumberGrows
<1>20. t \in [Pieces -> Nat] /\ {"supported"} \subseteq {"supported", "unsupported"}
  BY DEF Grown
<1>21. Number(t, {"supported"}) <= Number(t, {"supported", "unsupported"})
  BY <1>20, NumberOfMore
<1>5. PICK s \in Nat : s = Number(t, {"supported"})
  BY <1>3
<1>6. PICK w \in Nat : w = Number(t, {"supported", "unsupported"})
  BY <1>4
<1>7. PICK s1 \in Nat : s1 = Number(u, {"supported"})
  BY <1>3
<1>8. PICK w1 \in Nat : w1 = Number(u, {"supported", "unsupported"})
  BY <1>4
<1>22. s <= w
  BY <1>21, <1>5, <1>6
<1>9. local.sees[p] \in Harm => s1 = s /\ w1 >= w
  BY <1>3, <1>4, <1>5, <1>6, <1>7, <1>8 DEF Harm
<1>10. local.sees[p] \in Help => (s1 = s /\ w1 = w) \/ (s1 = s + 1 /\ w1 = w + 1)
  BY <1>3, <1>4, <1>5, <1>6, <1>7, <1>8 DEF Help
<1> DEFINE Judged(long, supported, words) ==
      IF long < local.least THEN "allow"
      ELSE IF ~local.configured THEN (IF local.strict THEN "block" ELSE "allow")
      ELSE Scored(supported, words, 0)
<1>11. SourceVerdict(t) = Judged(Length(t), s, w)
  BY <1>5, <1>6 DEF SourceVerdict
<1>12. SourceVerdict(u) = Judged(Length(u), s1, w1)
  BY <1>7, <1>8 DEF SourceVerdict
<1>23. local.block \in Nat /\ local.warn \in Nat
  BY LocalAssumption
<1>24. PICK r \in Nat : w = s + r
  <2>1. w - s \in Nat /\ w = s + (w - s)
    BY <1>22
  <2>2. QED
    BY <2>1
<1>13. Moves(p, t, Judged(Length(t), s, w), Judged(Length(u), s1, w1))
  <2>1. PICK n \in Nat : n = Length(t)
    BY <1>2
  <2>2. Length(u) = n + 1
    BY <1>2, <2>1
  <2>3. CASE ~local.configured
    BY <1>1, <2>1, <2>2, <2>3, ~(\E x \in Harm : x \in Help) DEF Moves, Strictness, Harm, Help
  <2>4. CASE local.configured
    <3>1. ASSUME local.sees[p] \in Harm
          PROVE  Strictness(Judged(n + 1, s1, w1)) >= Strictness(Judged(n, s, w))
      <4>1. PICK r1 \in Nat : w1 = s1 + r1 /\ r1 >= r
        <5>1. w1 - s1 \in Nat /\ w1 = s1 + (w1 - s1) /\ w1 - s1 >= r
          BY <1>9, <1>24, <3>1
        <5>2. QED
          BY <5>1
      <4>2. s1 = s
        BY <1>9, <3>1
      <4>3. ASSUME NEW percent \in {local.block, local.warn}, Below(s, s + r, 0, percent)
            PROVE  Below(s1, s1 + r1, 0, percent)
        <5>1. percent \in Nat /\ 0 \in {0, 100}
          BY <1>23
        <5>2. Below(s, s + r1, 0, percent)
          BY <4>1, <4>3, <5>1, BelowMoves
        <5>3. QED
          BY <4>2, <5>2
      <4>4. Strictness(Scored(s1, w1, 0)) >= Strictness(Scored(s, w, 0))
        BY <4>1, <4>3, <1>24 DEF Scored, Strictness
      <4>5. QED
        BY <1>1, <2>4, <4>4 DEF Strictness, Scored
    <3>2. ASSUME local.sees[p] \in Help, n >= local.least
          PROVE  Strictness(Judged(n + 1, s1, w1)) <= Strictness(Judged(n, s, w))
      <4>1. w1 = s1 + r /\ s1 \in {s, s + 1}
        BY <1>10, <1>24, <3>2
      <4>2. ASSUME NEW percent \in {local.block, local.warn}, Below(s1, s1 + r, 0, percent)
            PROVE  Below(s, s + r, 0, percent)
        <5>1. percent \in Nat /\ 0 \in {0, 100}
          BY <1>23
        <5>2. QED
          BY <4>1, <4>2, <5>1, BelowMoves
      <4>3. Strictness(Scored(s1, w1, 0)) <= Strictness(Scored(s, w, 0))
        BY <4>1, <4>2, <1>24 DEF Scored, Strictness
      <4>4. QED
        BY <1>1, <2>4, <3>2, <4>3 DEF Strictness, Scored
    <3>3. QED
      BY <2>1, <2>2, <3>1, <3>2 DEF Moves
  <2>5. QED
    BY <2>3, <2>4
<1>14. QED
  BY <1>11, <1>12, <1>13

LEMMA SchemaMoves ==
  ASSUME NEW u, NEW t, NEW p, Grown(u, t, p), local \in LocalChecks, local.kind = "schema"
  PROVE  Moves(p, t, SchemaVerdict(t), SchemaVerdict(u))
<1>1. local.schema \in {"no_tool", "unknown", "declared"}
  BY LocalAssumption
<1>2. /\ Number(t, {"violation"}) \in Nat
      /\ Number(u, {"violation"}) = Number(t, {"violation"}) + IF local.sees[p] \in {"violation"} THEN 1 ELSE 0
  BY NumberGrows
<1>6. /\ Number(t, {"raises"}) \in Nat
      /\ Number(u, {"raises"}) = Number(t, {"raises"}) + IF local.sees[p] \in {"raises"} THEN 1 ELSE 0
  BY NumberGrows
<1>3. CASE local.schema = "declared"
  BY <1>2, <1>3, <1>6 DEF Moves, SchemaVerdict, Strictness, Harm, Help
<1>4. CASE local.schema # "declared"
  <2>1. SchemaVerdict(t) = SchemaVerdict(u)
    BY <1>1, <1>4 DEF SchemaVerdict
  <2>2. QED
    BY <2>1, Same
<1>5. QED
  BY <1>3, <1>4

LEMMA PiiMoves ==
  ASSUME NEW u, NEW t, NEW p, Grown(u, t, p), NEW reported
  PROVE  Moves(p, t, PiiVerdict(t, reported), PiiVerdict(u, reported))
<1>1. Number(t, {"match"}) \in Nat
  BY NumberGrows
<1>2. Number(u, {"match"}) = Number(t, {"match"}) + IF local.sees[p] \in {"match"} THEN 1 ELSE 0
  BY NumberGrows
<1>3. QED
  BY <1>1, <1>2 DEF Moves, PiiVerdict, Strictness, Harm, Help

(* One piece more, whatever the guard.                                       *)
LEMMA WriteMoves ==
  ASSUME NEW u, NEW t, NEW p, Grown(u, t, p), local \in LocalChecks, NEW reported
  PROVE  Moves(p, t, LocalVerdict(t, reported), LocalVerdict(u, reported))
<1>1. local.kind \in {"pattern", "length", "injection", "bias", "topic", "scope", "source", "schema", "pii"}
  BY LocalAssumption
<1>2. CASE local.kind = "pattern"
  BY <1>2, PatternMoves DEF LocalVerdict
<1>3. CASE local.kind = "length"
  BY <1>3, LengthMoves DEF LocalVerdict
<1>4. CASE local.kind = "injection"
  BY <1>4, InjectionMoves DEF LocalVerdict
<1>5. CASE local.kind = "bias"
  BY <1>5, BiasMoves DEF LocalVerdict
<1>6. CASE local.kind = "topic"
  BY <1>6, TopicMoves DEF LocalVerdict
<1>7. CASE local.kind = "scope"
  BY <1>7, ScopeMoves DEF LocalVerdict
<1>8. CASE local.kind = "source"
  BY <1>8, SourceMoves DEF LocalVerdict
<1>9. CASE local.kind = "schema"
  BY <1>9, SchemaMoves DEF LocalVerdict
<1>10. CASE local.kind = "pii"
  BY <1>10, PiiMoves DEF LocalVerdict
<1>11. QED
  BY <1>1, <1>2, <1>3, <1>4, <1>5, <1>6, <1>7, <1>8, <1>9, <1>10

(* One entity more is one kept more, or none.                                *)
LEMMA KeptGrows ==
  ASSUME NEW reported \in Seq(Entities), NEW e \in Entities, Kept(Append(reported, e)) = << >>
  PROVE  Kept(reported) = << >>
<1>1. CASE ~local.configured
  BY <1>1 DEF Kept
<1>2. CASE local.configured
  <2>0. Append(reported, e) \in Seq(Entities)
    OBVIOUS
  <2>1. PICK r \in Seq(Entities) : r = Append(reported, e)
    BY <2>0
  <2>2. ToSet(r) = ToSet(reported) \cup {e}
    BY <2>1, SetOfAppend
  <2>3. PICK kept : kept = {x \in ToSet(reported) : x.score >= local.threshold}
    OBVIOUS
  <2>4. PICK more : more = {x \in ToSet(r) : x.score >= local.threshold}
    OBVIOUS
  <2>5. Chosen(r, more) = << >> /\ Kept(reported) = Chosen(reported, kept)
    BY <1>2, <2>1, <2>3, <2>4 DEF Kept
  <2>6. ToSet(Chosen(r, more)) = ToSet(r) \cap more
    BY ChosenAreKept
  <2>7. ToSet(Chosen(reported, kept)) = ToSet(reported) \cap kept
    BY ChosenAreKept
  <2>8. ToSet(<< >>) = {}
    BY DEF ToSet
  <2>9. ToSet(Chosen(reported, kept)) = {}
    BY <2>2, <2>3, <2>4, <2>5, <2>6, <2>7, <2>8
  <2>10. Chosen(reported, kept) \in Seq(Entities)
    BY ChosenIsSequence
  <2>11. PICK s \in Seq(Entities) : s = Chosen(reported, kept)
    BY <2>10
  <2>12. s = << >>
    <3>1. Len(s) = 0 \/ 1 \in DOMAIN s
      OBVIOUS
    <3>2. 1 \in DOMAIN s => s[1] \in ToSet(s)
      BY DEF ToSet
    <3>3. Len(s) = 0
      BY <3>1, <3>2, <2>9, <2>11
    <3>4. QED
      BY <3>3
  <2>13. QED
    BY <2>5, <2>11, <2>12
<1>3. QED
  BY <1>1, <1>2

(* A guard does not change, and a text has a number of each piece.           *)
LocalInv ==
  /\ local \in LocalChecks
  /\ text \in [Pieces -> Nat]
  /\ entities \in Seq(Entities)

LEMMA LocalInvariance == LocalSpec => []LocalInv
<1>1. LocalInit => LocalInv
  BY DEF LocalInit, LocalInv
<1>2. ASSUME LocalInv, [LocalNext]_localVars PROVE LocalInv'
  <2>1. ASSUME NEW p \in Pieces, Write(p) PROVE LocalInv'
    BY <1>2, <2>1 DEF Write, LocalInv
  <2>2. ASSUME NEW e \in Entities, Report(e) PROVE LocalInv'
    BY <1>2, <2>2 DEF Report, LocalInv
  <2>3. CASE UNCHANGED localVars
    BY <1>2, <2>3 DEF LocalInv, localVars
  <2>4. QED
    BY <1>2, <2>1, <2>2, <2>3 DEF LocalNext
<1>3. QED
  BY <1>1, <1>2, PTL DEF LocalSpec

(* No guard that decides alone lets a text through for more of what it is    *)
(* there to find, and none that has enough text to judge turns stricter for  *)
(* more of what speaks for it: for any block and warn thresholds in percent, *)
(* any weights that are not negative, any lengths and any text.              *)
THEOREM NothingHelps == LocalSpec => NothingHelpsHarm
<1> DEFINE before == Strictness(LocalVerdict(text, entities))
<1> DEFINE after == Strictness(LocalVerdict(text', entities'))
<1> DEFINE Good ==
      /\ \A p \in Pieces :
           text'[p] > text[p] =>
             /\ local.sees[p] \in Harm => after >= before
             /\ local.sees[p] \in Help /\ Length(text) >= local.least => after <= before
      /\ entities' # entities => after >= before
<1>1. ASSUME LocalInv, [LocalNext]_localVars PROVE [Good]_localVars
  <2>1. ASSUME NEW p \in Pieces, Write(p) PROVE Good
    <3>1. Grown(text', text, p) /\ entities' = entities
      BY <1>1, <2>1 DEF Write, Grown, LocalInv
    <3>2. Moves(p, text, LocalVerdict(text, entities), LocalVerdict(text', entities))
      BY <1>1, <3>1, WriteMoves DEF LocalInv
    <3>3. \A x \in Pieces : text'[x] > text[x] => x = p
      BY <1>1, <3>1 DEF Grown, LocalInv
    <3>4. QED
      BY <3>1, <3>2, <3>3 DEF Moves
  <2>2. ASSUME NEW e \in Entities, Report(e) PROVE Good
    <3>1. text' = text /\ entities' = Append(entities, e) /\ local.kind = "pii"
      BY <2>2 DEF Report
    <3>2. entities \in Seq(Entities) /\ text \in [Pieces -> Nat]
      BY <1>1 DEF LocalInv
    <3>3. \A x \in Pieces : ~(text[x] > text[x])
      BY <3>2
    <3>4. Kept(entities') = << >> => Kept(entities) = << >>
      BY <3>1, <3>2, KeptGrows
    <3>5. after >= before
      BY <3>1, <3>4 DEF LocalVerdict, PiiVerdict, Strictness
    <3>6. QED
      BY <3>1, <3>3, <3>5
  <2>3. CASE UNCHANGED localVars
    BY <2>3
  <2>4. QED
    BY <1>1, <2>1, <2>2, <2>3 DEF LocalNext
<1>2. QED
  BY <1>1, LocalInvariance, PTL DEF LocalSpec, NothingHelpsHarm

-----------------------------------------------------------------------------
(***************************************************************************)
(* pii-detect: what the redacted text keeps.                               *)
(***************************************************************************)
Chars == 0 .. Positions

(* What is left of s when e is replaced, character by character.             *)
IsReplaced(out, s, e) ==
  /\ out \in Seq(Chars)
  /\ Len(out) = e.from + e.label + (IF e.to < Len(s) THEN Len(s) - e.to ELSE 0)
  /\ \A k \in 1 .. e.from : out[k] = s[k]
  /\ \A k \in e.from + 1 .. e.from + e.label : out[k] = 0
  /\ \A k \in e.from + e.label + 1 .. Len(out) : out[k] = s[k - e.label - e.from + e.to]

(* What LocalAssumption says of an entity.                                   *)
LEMMA EntityType ==
  ASSUME NEW e \in Entities
  PROVE  /\ Positions \in Nat
         /\ e.from \in Nat /\ e.to \in Nat /\ e.label \in Nat
         /\ e.from < e.to /\ e.to <= Positions
BY LocalAssumption

(* A label is no character of the text.                                      *)
LEMMA LabelIs ==
  ASSUME NEW e \in Entities
  PROVE  /\ Label(e) \in Seq(Chars)
         /\ Len(Label(e)) = e.label
         /\ \A i \in 1 .. e.label : Label(e)[i] = 0
<1>1. e.label \in Nat /\ Positions \in Nat
  BY EntityType
<1>2. 0 \in Chars
  BY <1>1 DEF Chars
<1>3. Label(e) \in [1 .. e.label -> Chars]
  BY <1>2 DEF Label
<1>4. Label(e) \in Seq(Chars) /\ Len(Label(e)) = e.label
  BY <1>1, <1>3
<1>5. QED
  BY <1>4 DEF Label

(* What Replace puts together when the entity starts in the text.            *)
LEMMA ReplaceSplits ==
  ASSUME NEW s \in Seq(Chars), NEW e \in Entities, e.from <= Len(s)
  PROVE  Replace(s, e) = (SubSeq(s, 1, e.from) \o Label(e)) \o After(s, e.to)
<1>1. e.from \in Nat /\ Len(s) \in Nat
  BY EntityType
<1>2. Least(e.from, Len(s)) = e.from
  BY <1>1 DEF Least
<1>3. QED
  BY <1>2 DEF Replace, After

(* The same, character by character.                                         *)
LEMMA Replaced ==
  ASSUME NEW s \in Seq(Chars), NEW e \in Entities, e.from <= Len(s)
  PROVE  IsReplaced(Replace(s, e), s, e)
<1>1. e.from \in Nat /\ e.to \in Nat /\ e.label \in Nat /\ Len(s) \in Nat
  BY EntityType
<1>2. PICK a : a = SubSeq(s, 1, e.from)
  OBVIOUS
<1>3. PICK b : b = Label(e)
  OBVIOUS
<1>4. PICK c : c = After(s, e.to)
  OBVIOUS
<1>5. a \in Seq(Chars) /\ Len(a) = e.from /\ \A i \in 1 .. e.from : a[i] = s[i]
  <2>1. \A i \in 1 .. e.from : s[i] \in Chars
    BY <1>1
  <2>2. /\ SubSeq(s, 1, e.from) \in Seq(Chars)
        /\ Len(SubSeq(s, 1, e.from)) = IF 1 <= e.from THEN e.from - 1 + 1 ELSE 0
        /\ \A i \in 1 .. e.from - 1 + 1 : SubSeq(s, 1, e.from)[i] = s[1 + i - 1]
    BY <1>1, <2>1, SubSeqProperties
  <2>3. QED
    BY <1>1, <1>2, <2>2
<1>6. b \in Seq(Chars) /\ Len(b) = e.label /\ \A i \in 1 .. e.label : b[i] = 0
  BY <1>3, LabelIs
<1>7. /\ c \in Seq(Chars)
      /\ Len(c) = IF e.to < Len(s) THEN Len(s) - e.to ELSE 0
      /\ \A i \in 1 .. Len(s) - e.to : c[i] = s[e.to + i]
  BY <1>1, <1>4, RestOf
<1>8. PICK d : d = a \o b
  OBVIOUS
<1>9. d \in Seq(Chars) /\ IsJoined(d, a, b)
  BY <1>5, <1>6, <1>8, Joined
<1>10. PICK out : out = d \o c
  OBVIOUS
<1>20. out \in Seq(Chars) /\ IsJoined(out, d, c)
  BY <1>7, <1>9, <1>10, Joined
<1>19. /\ Len(d) = e.from + e.label
       /\ \A i \in 1 .. e.from : d[i] = a[i]
       /\ \A i \in e.from + 1 .. e.from + e.label : d[i] = b[i - e.from]
  BY <1>5, <1>6, <1>9 DEF IsJoined
<1>11. /\ Len(out) = e.from + e.label + Len(c)
       /\ \A i \in 1 .. e.from + e.label : out[i] = d[i]
       /\ \A i \in e.from + e.label + 1 .. e.from + e.label + Len(c) :
            out[i] = c[i - (e.from + e.label)]
  BY <1>19, <1>20 DEF IsJoined
<1>12. Replace(s, e) = out
  BY <1>2, <1>3, <1>4, <1>8, <1>10, ReplaceSplits
<1>13. \A k \in 1 .. e.from : out[k] = s[k]
  BY <1>1, <1>5, <1>11, <1>19
<1>14. \A k \in e.from + 1 .. e.from + e.label : out[k] = 0
  <2> TAKE k \in e.from + 1 .. e.from + e.label
  <2>1. k \in 1 .. e.from + e.label /\ k - e.from \in 1 .. e.label
    BY <1>1
  <2>2. out[k] = d[k] /\ d[k] = b[k - e.from] /\ b[k - e.from] = 0
    BY <1>6, <1>11, <1>19, <2>1
  <2>3. QED
    BY <2>2
<1>15. ASSUME NEW k \in e.from + e.label + 1 .. Len(out)
       PROVE  out[k] = s[k - e.label - e.from + e.to]
  <2>0. k \in Int /\ e.from + e.label + 1 <= k /\ k <= e.from + e.label + Len(c) /\ Len(c) \in Nat
    BY <1>1, <1>7, <1>11
  <2>1. k - (e.from + e.label) \in 1 .. Len(s) - e.to
    BY <1>1, <1>7, <2>0
  <2>2. out[k] = c[k - (e.from + e.label)]
    BY <1>1, <1>11, <2>0
  <2>3. c[k - (e.from + e.label)] = s[e.to + (k - (e.from + e.label))]
    BY <1>7, <2>1
  <2>4. e.to + (k - (e.from + e.label)) = k - e.label - e.from + e.to
    BY <1>1, <2>0
  <2>5. QED
    BY <2>2, <2>3, <2>4
<1>16. Len(out) = e.from + e.label + (IF e.to < Len(s) THEN Len(s) - e.to ELSE 0)
  BY <1>7, <1>11
<1>17. IsReplaced(out, s, e)
  BY <1>20, <1>13, <1>14, <1>15, <1>16 DEF IsReplaced
<1>18. QED
  BY <1>12, <1>17

IsLeftmost(l, r, T) == l \in T /\ \A j \in T : r[l].from <= r[j].from

(* The entity that comes last in the order of the code starts leftmost.      *)
LEMMA LeftmostIs ==
  ASSUME NEW r \in Seq(Entities), NEW T \in SUBSET DOMAIN r, T # {}
  PROVE  IsLeftmost(Leftmost(r, T), r, T)
<1>1. PICK n \in Nat : n = Len(r) /\ DOMAIN r = 1 .. n
  OBVIOUS
<1>2. \A i \in T : r[i] \in Entities /\ i \in 1 .. n
  BY <1>1
<1>3. \A i \in T : r[i].from \in Nat
  BY <1>2, EntityType
<1>4. PICK starts : starts = {r[i].from : i \in T}
  OBVIOUS
<1>5. starts \in SUBSET Nat /\ starts # {}
  BY <1>3, <1>4
<1>6. PICK m \in starts : \A j \in starts : m <= j
  BY <1>5, LeastNatural
<1>7. PICK first : first = {i \in T : r[i].from = m}
  OBVIOUS
<1>8. first \in SUBSET (1 .. n) /\ first # {}
  BY <1>2, <1>4, <1>6, <1>7
<1>9. PICK l \in first : \A j \in first : l >= j
  BY <1>8, MaxOfPositions
<1>10. l \in T /\ r[l].from = m /\ \A j \in T : m <= r[j].from
  BY <1>4, <1>6, <1>7, <1>9
<1>11. ASSUME NEW j \in T \ {l}
       PROVE  r[l].from < r[j].from \/ (r[l].from = r[j].from /\ j < l)
  <2>1. r[j].from \in Nat /\ m \in Nat /\ j \in Nat /\ l \in Nat
    BY <1>2, <1>3, <1>10
  <2>2. CASE r[j].from = m
    BY <1>7, <1>9, <1>10, <1>11, <2>1, <2>2
  <2>3. CASE r[j].from # m
    BY <1>10, <2>1, <2>3
  <2>4. QED
    BY <2>2, <2>3
<1>12. \E i \in T : \A j \in T \ {i} :
         \/ r[i].from < r[j].from
         \/ r[i].from = r[j].from /\ j < i
  BY <1>10, <1>11
<1>13. PICK i : i = Leftmost(r, T)
  OBVIOUS
<1>14. i \in T /\ \A j \in T \ {i} : r[i].from < r[j].from \/ (r[i].from = r[j].from /\ j < i)
  BY <1>12, <1>13 DEF Leftmost
<1>15. \A j \in T : r[i].from <= r[j].from
  BY <1>3, <1>14
<1>16. QED
  BY <1>13, <1>14, <1>15 DEF IsLeftmost

(* What the text is once the entities of a set are replaced.                 *)
Redacts(g, s, r) ==
  /\ g[{}] = s
  /\ \A T \in SUBSET DOMAIN r :
       T # {} => LET l == Leftmost(r, T) IN g[T] = Replace(g[T \ {l}], r[l])

(* A text stays a text.                                                      *)
LEMMA ReplaceType ==
  ASSUME NEW s \in Seq(Chars), NEW e \in Entities
  PROVE  Replace(s, e) \in Seq(Chars)
<1>1. e.from \in Nat /\ e.to \in Nat /\ Len(s) \in Nat
  BY EntityType
<1>2. PICK n \in Nat : n = Least(e.from, Len(s)) /\ n <= Len(s)
  BY <1>1 DEF Least
<1>3. SubSeq(s, 1, n) \in Seq(Chars)
  BY <1>1, <1>2, SubSeqProperties
<1>4. After(s, e.to) \in Seq(Chars)
  BY <1>1, RestOf
<1>5. Label(e) \in Seq(Chars)
  BY LabelIs
<1>6. PICK d : d = SubSeq(s, 1, n) \o Label(e)
  OBVIOUS
<1>7. d \in Seq(Chars)
  BY <1>3, <1>5, <1>6, Joined
<1>8. d \o After(s, e.to) \in Seq(Chars)
  BY <1>4, <1>7, Joined
<1>9. QED
  BY <1>2, <1>6, <1>8 DEF Replace, After

(* The recursion behind Redact does define something.                        *)
LEMMA RedactedBySets ==
  ASSUME NEW s \in Seq(Chars), NEW r \in Seq(Entities)
  PROVE  \E g : Redacts(g, s, r) /\ g[DOMAIN r] = Redact(s, r)
<1> DEFINE Body(f) == [T \in SUBSET DOMAIN r |->
                         IF T = {} THEN s
                         ELSE Replace(f[T \ {Leftmost(r, T)}], r[Leftmost(r, T)])]
<1> DEFINE all == CHOOSE f : f = Body(f)
<1>1. Redact(s, r) = all[DOMAIN r]
  BY DEF Redact, MapThenFoldSet
<1>d. PICK D : D = DOMAIN r
  OBVIOUS
<1>2. \A x \in D : r[x] \in Entities
  BY <1>d
<1>3. IsFiniteSet(D)
  <2>1. D = 1 .. Len(r) /\ Len(r) \in Nat
    BY <1>d
  <2>2. QED
    BY <2>1, FS_Interval
<1> DEFINE c == [T \in SUBSET D |-> Leftmost(r, T)]
<1> DEFINE step == [x \in D |-> [v \in Seq(Chars) |-> Replace(v, r[x])]]
<1>c. \A T \in SUBSET D : c[T] = Leftmost(r, T)
  OBVIOUS
<1>s. \A x \in D, v \in Seq(Chars) : step[x][v] = Replace(v, r[x])
  OBVIOUS
<1> HIDE DEF c, step
<1>4. \A T \in SUBSET D : T # {} => Leftmost(r, T) \in T
  BY <1>d, LeftmostIs DEF IsLeftmost
<1>5. Picks(c, D)
  BY <1>c, <1>4 DEF Picks
<1>6. Stays(step, D, Seq(Chars))
  BY <1>s, <1>2, ReplaceType DEF Stays
<1>7. PICK f \in [SUBSET D -> Seq(Chars)] : Folds(f, D, s, c, step)
  BY <1>3, <1>5, <1>6, FoldExists
<1>8. ASSUME NEW T \in SUBSET D
      PROVE  f[T] = IF T = {} THEN s ELSE Replace(f[T \ {Leftmost(r, T)}], r[Leftmost(r, T)])
  <2>1. CASE T = {}
    BY <2>1, <1>7 DEF Folds
  <2>2. CASE T # {}
    <3>1. f[T] = step[c[T]][f[T \ {c[T]}]]
      BY <2>2, <1>7 DEF Folds
    <3>2. c[T] = Leftmost(r, T) /\ Leftmost(r, T) \in D /\ f[T \ {Leftmost(r, T)}] \in Seq(Chars)
      BY <1>c, <1>4, <1>7, <2>2
    <3>3. QED
      BY <2>2, <3>1, <3>2, <1>s
  <2>3. QED
    BY <2>1, <2>2
<1>9. f = Body(f)
  BY <1>d, <1>7, <1>8
<1>10. all = Body(all)
  BY <1>9
<1> HIDE DEF all
<1>11. Redacts(all, s, r)
  BY <1>10 DEF Redacts
<1>12. QED
  BY <1>1, <1>11

-----------------------------------------------------------------------------
(* Where no entity of T starts before, the text is still the original.       *)
IsUntouched(s, r, T) ==
  /\ s \in Seq(Chars)
  /\ \A m \in 0 .. Positions :
       (\A j \in T : m <= r[j].from) => m <= Len(s) /\ \A k \in 1 .. m : s[k] = k

(* The characters that entities cover.                                       *)
Gone(r, T) == UNION {r[i].from + 1 .. r[i].to : i \in T}

(* Replacing the leftmost of T leaves what is before it.                     *)
LEMMA UntouchedStays ==
  ASSUME NEW s, NEW r \in Seq(Entities), NEW T \in SUBSET DOMAIN r, NEW l, IsLeftmost(l, r, T),
         IsUntouched(s, r, T \ {l})
  PROVE  /\ IsUntouched(Replace(s, r[l]), r, T)
         /\ r[l].from <= Len(s) /\ \A k \in 1 .. r[l].from : s[k] = k
         /\ IsReplaced(Replace(s, r[l]), s, r[l])
<1>1. PICK e \in Entities : e = r[l]
  BY DEF IsLeftmost
<1>2. Positions \in Nat /\ e.from \in 0 .. Positions /\ e.from \in Nat /\ e.label \in Nat /\ e.to \in Nat
  BY EntityType
<1>3. \A j \in T : e.from <= r[j].from
  BY <1>1 DEF IsLeftmost
<1>4. s \in Seq(Chars) /\ e.from <= Len(s) /\ \A k \in 1 .. e.from : s[k] = k
  BY <1>2, <1>3 DEF IsUntouched
<1>5. PICK out : out = Replace(s, e)
  OBVIOUS
<1>6. IsReplaced(out, s, e)
  BY <1>4, <1>5, Replaced
<1>7. out \in Seq(Chars) /\ e.from <= Len(out) /\ \A k \in 1 .. e.from : out[k] = k
  BY <1>2, <1>4, <1>6 DEF IsReplaced
<1>8. ASSUME NEW m \in 0 .. Positions, \A j \in T : m <= r[j].from
      PROVE  m <= Len(out) /\ \A k \in 1 .. m : out[k] = k
  <2>1. m <= e.from
    BY <1>1, <1>8 DEF IsLeftmost
  <2>2. QED
    BY <1>2, <1>7, <2>1
<1>9. IsUntouched(out, r, T)
  BY <1>7, <1>8 DEF IsUntouched
<1>10. QED
  BY <1>1, <1>4, <1>5, <1>6, <1>9

(* With labels no longer than what they replace, characters only ever move   *)
(* to the left, and those covered are gone.                                  *)
IsShifted(s, r, T) ==
  \A k \in 1 .. Len(s) : s[k] = 0 \/ (s[k] >= k /\ s[k] \notin Gone(r, T))

(* Replacing the leftmost of T moves what is behind it to the left.          *)
LEMMA ShiftedStays ==
  ASSUME NEW s, NEW r \in Seq(Entities), NEW T \in SUBSET DOMAIN r, NEW l, IsLeftmost(l, r, T),
         IsUntouched(s, r, T \ {l}), IsShifted(s, r, T \ {l}),
         r[l].label <= r[l].to - r[l].from
  PROVE  IsShifted(Replace(s, r[l]), r, T)
<1>1. PICK e \in Entities : e = r[l] /\ l \in T
  BY DEF IsLeftmost
<1>2. /\ Positions \in Nat /\ e.from \in Nat /\ e.label \in Nat /\ e.to \in Nat
      /\ e.from < e.to /\ e.label <= e.to - e.from
  BY <1>1, EntityType
<1>3. PICK out : out = Replace(s, e)
  OBVIOUS
<1>4. e.from <= Len(s) /\ (\A k \in 1 .. e.from : s[k] = k) /\ IsReplaced(out, s, e)
  BY <1>1, <1>3, UntouchedStays
<1>5. s \in Seq(Chars) /\ Len(s) \in Nat /\ \A k \in 1 .. Len(s) : s[k] \in Int
  BY <1>2 DEF IsUntouched, Chars
<1>6. Gone(r, T) = Gone(r, T \ {l}) \cup (e.from + 1 .. e.to)
  BY <1>1 DEF Gone
<1>9. \A k \in 1 .. Len(s) : s[k] = 0 \/ (s[k] >= k /\ s[k] \notin Gone(r, T \ {l}))
  BY DEF IsShifted
<1>7. ASSUME NEW k \in 1 .. Len(out)
      PROVE  out[k] = 0 \/ (out[k] >= k /\ out[k] \notin Gone(r, T))
  <2>1. k \in Nat /\ 1 <= k /\ k <= Len(out) /\ Len(out) = e.from + e.label + (IF e.to < Len(s) THEN Len(s) - e.to ELSE 0)
    BY <1>4, <1>5, <1>2 DEF IsReplaced
  <2>2. CASE k <= e.from
    <3>1. out[k] = k /\ s[k] = k /\ k \in 1 .. Len(s)
      BY <1>2, <1>4, <1>5, <2>1, <2>2 DEF IsReplaced
    <3>2. k \notin Gone(r, T \ {l})
      <4>1. s[k] = 0 \/ (s[k] >= k /\ s[k] \notin Gone(r, T \ {l}))
        BY <3>1, <1>9
      <4>2. k # 0
        BY <2>1
      <4>3. QED
        BY <3>1, <4>1, <4>2
    <3>3. QED
      BY <3>1, <3>2, <1>2, <1>6, <2>1, <2>2
  <2>3. CASE k > e.from /\ k <= e.from + e.label
    BY <1>2, <1>4, <2>1, <2>3 DEF IsReplaced
  <2>4. CASE k > e.from + e.label
    <3>n. PICK from \in Nat, to \in Nat, label \in Nat, n \in Nat :
             from = e.from /\ to = e.to /\ label = e.label /\ n = Len(s)
      BY <1>2, <1>5
    <3>l. Len(out) = from + label + (IF to < n THEN n - to ELSE 0) /\ label <= to - from
      BY <1>2, <2>1, <3>n
    <3>m. to < n /\ k <= from + label + n - to /\ k > from + label
      BY <2>1, <2>4, <3>n, <3>l
    <3>1. PICK j \in Int : j = k - label - from + to
      BY <2>1
    <3>2. j \in 1 .. n /\ j > to /\ j >= k
      BY <2>1, <3>l, <3>m, <3>1
    <3>3. out[k] = s[j]
      <4>1. k \in e.from + e.label + 1 .. Len(out)
        BY <2>1, <3>n, <3>m
      <4>2. out[k] = s[k - e.label - e.from + e.to]
        BY <1>4, <4>1 DEF IsReplaced
      <4>3. QED
        BY <3>n, <3>1, <4>2
    <3>4. s[j] = 0 \/ (s[j] >= j /\ s[j] \notin Gone(r, T \ {l}))
      BY <1>9, <3>2, <3>n
    <3>5. s[j] \in Int
      BY <1>5, <3>2, <3>n
    <3>6. s[j] # 0 => s[j] >= k /\ s[j] \notin (e.from + 1 .. e.to)
      BY <2>1, <3>2, <3>4, <3>5, <3>n
    <3>7. QED
      BY <1>6, <3>3, <3>4, <3>6
  <2>5. QED
    BY <1>2, <2>1, <2>2, <2>3, <2>4
<1>8. QED
  BY <1>1, <1>3, <1>7 DEF IsShifted

(* The characters of the text from one place to another.                     *)
Run(a, b) == [i \in 1 .. b - a |-> a + i]

IsRun(w, a, b) ==
  /\ w \in Seq(Chars)
  /\ Len(w) = b - a
  /\ \A i \in 1 .. b - a : w[i] = a + i

(* What a run is, character by character.                                    *)
LEMMA RunIs ==
  ASSUME NEW a \in Nat, NEW b \in Nat, a <= b, b <= Positions
  PROVE  IsRun(Run(a, b), a, b)
<1>1. b - a \in Nat /\ Positions \in Nat
  BY LocalAssumption
<1>2. \A i \in 1 .. b - a : a + i \in Chars
  BY <1>1 DEF Chars
<1>3. Run(a, b) \in [1 .. b - a -> Chars]
  BY <1>2 DEF Run
<1>4. Run(a, b) \in Seq(Chars) /\ Len(Run(a, b)) = b - a
  BY <1>1, <1>3
<1>5. QED
  BY <1>4 DEF Run, IsRun

(* A run can be split anywhere.                                              *)
LEMMA RunSplits ==
  ASSUME NEW a \in Nat, NEW b \in Nat, NEW c \in Nat, a <= b, b <= c, c <= Positions
  PROVE  Run(a, c) = Run(a, b) \o Run(b, c)
<1>1. PICK u : u = Run(a, b)
  OBVIOUS
<1>2. PICK v : v = Run(b, c)
  OBVIOUS
<1>3. PICK w : w = Run(a, c)
  OBVIOUS
<1>0. Positions \in Nat /\ b <= Positions /\ a <= c
  BY LocalAssumption
<1>4. u \in Seq(Chars) /\ Len(u) = b - a /\ \A i \in 1 .. b - a : u[i] = a + i
  BY <1>0, <1>1, RunIs DEF IsRun
<1>5. v \in Seq(Chars) /\ Len(v) = c - b /\ \A i \in 1 .. c - b : v[i] = b + i
  BY <1>2, RunIs DEF IsRun
<1>6. w \in Seq(Chars) /\ Len(w) = c - a /\ \A i \in 1 .. c - a : w[i] = a + i
  BY <1>0, <1>3, RunIs DEF IsRun
<1>7. PICK d : d = u \o v
  OBVIOUS
<1>8. d \in Seq(Chars) /\ IsJoined(d, u, v)
  BY <1>4, <1>5, <1>7, Joined
<1>9. Len(d) = c - a
  BY <1>4, <1>5, <1>8 DEF IsJoined
<1>10. ASSUME NEW i \in 1 .. c - a PROVE d[i] = w[i]
  <2>1. CASE i <= b - a
    BY <1>4, <1>6, <1>8, <2>1 DEF IsJoined
  <2>2. CASE i > b - a
    <3>1. i \in Len(u) + 1 .. Len(u) + Len(v) /\ i - (b - a) \in 1 .. c - b
      BY <1>4, <1>5, <2>2
    <3>2. d[i] = v[i - (b - a)]
      BY <1>4, <1>8, <3>1 DEF IsJoined
    <3>3. v[i - (b - a)] = b + (i - (b - a)) /\ w[i] = a + i
      BY <1>5, <1>6, <3>1
    <3>4. QED
      BY <3>2, <3>3
  <2>3. QED
    BY <2>1, <2>2
<1>11. d = w
  BY <1>6, <1>8, <1>9, <1>10, SeqEqual
<1>12. QED
  BY <1>1, <1>2, <1>3, <1>7, <1>11

(* The text before anything is replaced.                                     *)
LEMMA OriginalIs ==
  /\ Original \in Seq(Chars) /\ Len(Original) = Positions
  /\ \A k \in 1 .. Positions : Original[k] = k
  /\ Original = Run(0, Positions)
<1>1. Positions \in Nat /\ Positions <= Positions /\ 0 <= Positions
  BY LocalAssumption
<1>2. Original = Run(0, Positions)
  BY <1>1 DEF Original, Run
<1>3. /\ Run(0, Positions) \in Seq(Chars)
      /\ Len(Run(0, Positions)) = Positions - 0
      /\ \A i \in 1 .. Positions - 0 : Run(0, Positions)[i] = 0 + i
  BY <1>1, RunIs DEF IsRun
<1>4. QED
  BY <1>1, <1>2, <1>3

(* What is behind a place of the original is a run.                          *)
LEMMA RestOfOriginal ==
  ASSUME NEW k \in Nat, k <= Positions
  PROVE  After(Original, k) = Run(k, Positions)
<1>1. Positions \in Nat /\ Positions <= Positions /\ 0 <= Positions
  BY LocalAssumption
<1>2. PICK w : w = Run(k, Positions)
  OBVIOUS
<1>3. w \in Seq(Chars) /\ Len(w) = Positions - k /\ \A i \in 1 .. Positions - k : w[i] = k + i
  BY <1>1, <1>2, RunIs DEF IsRun
<1>4. PICK s \in Seq(Chars) : s = Original /\ Len(s) = Positions
  BY OriginalIs
<1>5. \A j \in 1 .. Positions : s[j] = j
  BY <1>4, OriginalIs
<1>6. PICK d : d = After(s, k)
  OBVIOUS
<1>7. /\ d \in Seq(Chars)
      /\ Len(d) = IF k < Len(s) THEN Len(s) - k ELSE 0
      /\ \A i \in 1 .. Len(s) - k : d[i] = s[k + i]
  BY <1>6, RestOf
<1>8. Len(d) = Positions - k /\ \A i \in 1 .. Positions - k : d[i] = w[i]
  BY <1>1, <1>3, <1>4, <1>5, <1>7
<1>9. d = w
  BY <1>3, <1>7, <1>8, SeqEqual
<1>10. QED
  BY <1>2, <1>4, <1>6, <1>9

-----------------------------------------------------------------------------
(* The labels that entities leave are as long as this says.                  *)
LabelsOf(r) == [i \in DOMAIN r |-> r[i].label]

(* Every entity has one.                                                     *)
LEMMA LabelsAre ==
  ASSUME NEW r \in Seq(Entities)
  PROVE  \A i \in DOMAIN r : LabelsOf(r)[i] \in Nat /\ LabelsOf(r)[i] = r[i].label
<1>1. \A i \in DOMAIN r : r[i] \in Entities
  OBVIOUS
<1>2. QED
  BY <1>1, EntityType DEF LabelsOf

(* What is left behind a place k that no entity of T starts before: the      *)
(* characters that T does not cover, and its labels.                         *)
LeftBehind(s, r, T, k) ==
  LET left == Chosen(After(s, k), 1 .. Positions)
  IN  /\ left = Chosen(Run(k, Positions), (1 .. Positions) \ Gone(r, T))
      /\ Len(After(s, k)) = Len(left) + Sum(LabelsOf(r), T)

IsShorn(s, r, T) ==
  \A k \in 0 .. Positions : (\A j \in T : k <= r[j].from) => LeftBehind(s, r, T, k)

(* Nothing is covered before anything is replaced.                           *)
LEMMA OriginalIsShorn ==
  ASSUME NEW r
  PROVE  IsShorn(Original, r, {})
<1>1. Gone(r, {}) = {}
  BY DEF Gone
<1>2. Sum(LabelsOf(r), {}) = 0
  BY SumOfNothing
<1>3. ASSUME NEW k \in 0 .. Positions
      PROVE  LeftBehind(Original, r, {}, k)
  <2>1. Positions \in Nat /\ k \in Nat /\ k <= Positions /\ Positions <= Positions
    BY LocalAssumption
  <2>2. PICK w : w = Run(k, Positions)
    OBVIOUS
  <2>3. After(Original, k) = w
    BY <2>1, <2>2, RestOfOriginal
  <2>4. w \in Seq(Chars) /\ Len(w) = Positions - k /\ \A i \in 1 .. Positions - k : w[i] = k + i
    BY <2>1, <2>2, RunIs DEF IsRun
  <2>5. \A i \in 1 .. Len(w) : w[i] \in 1 .. Positions
    BY <2>1, <2>4
  <2>6. Chosen(w, 1 .. Positions) = w
    BY <2>4, <2>5, ChosenAll
  <2>7. (1 .. Positions) \ Gone(r, {}) = 1 .. Positions
    BY <1>1
  <2>8. Len(w) = Len(w) + 0
    BY <2>1, <2>4
  <2>9. QED
    BY <1>2, <2>2, <2>3, <2>6, <2>7, <2>8 DEF LeftBehind
<1>4. QED
  BY <1>3 DEF IsShorn

(* Behind a place before the leftmost entity comes the text up to it, then   *)
(* its label, then what was behind it.                                       *)
LEMMA RestOfReplaced ==
  ASSUME NEW s \in Seq(Chars), NEW e \in Entities, NEW k \in Nat, k <= e.from,
         e.from <= Len(s), \A i \in 1 .. e.from : s[i] = i
  PROVE  After(Replace(s, e), k) = (Run(k, e.from) \o Label(e)) \o After(s, e.to)
<1>1. PICK from \in Nat, to \in Nat, label \in Nat, n \in Nat :
        from = e.from /\ to = e.to /\ label = e.label /\ n = Len(s)
  BY EntityType
<1>2. Positions \in Nat /\ k <= from /\ from < to /\ to <= Positions /\ from <= n /\ from <= Positions
  BY <1>1, EntityType
<1>3. PICK out : out = Replace(s, e)
  OBVIOUS
<1>4. IsReplaced(out, s, e)
  BY <1>3, Replaced
<1>5. PICK w : w = Run(k, from)
  OBVIOUS
<1>6. w \in Seq(Chars) /\ Len(w) = from - k /\ \A i \in 1 .. from - k : w[i] = k + i
  BY <1>2, <1>5, RunIs DEF IsRun
<1>7. PICK b : b = Label(e)
  OBVIOUS
<1>8. b \in Seq(Chars) /\ Len(b) = label /\ \A i \in 1 .. label : b[i] = 0
  BY <1>1, <1>7, LabelIs
<1>9. PICK c : c = After(s, to)
  OBVIOUS
<1>10. /\ c \in Seq(Chars)
       /\ Len(c) = IF to < n THEN n - to ELSE 0
       /\ \A i \in 1 .. n - to : c[i] = s[to + i]
  <2>1. /\ After(s, to) \in Seq(Chars)
        /\ Len(After(s, to)) = IF to < Len(s) THEN Len(s) - to ELSE 0
        /\ \A i \in 1 .. Len(s) - to : After(s, to)[i] = s[to + i]
    BY RestOf
  <2>2. QED
    BY <1>1, <1>9, <2>1
<1>11. /\ out \in Seq(Chars)
       /\ Len(out) = from + label + Len(c)
       /\ \A i \in 1 .. from : out[i] = i
       /\ \A i \in from + 1 .. from + label : out[i] = 0
       /\ \A i \in from + label + 1 .. from + label + Len(c) : out[i] = s[i - label - from + to]
  <2>1. /\ out \in Seq(Chars)
        /\ Len(out) = from + label + (IF to < n THEN n - to ELSE 0)
        /\ \A i \in 1 .. from : out[i] = s[i]
        /\ \A i \in from + 1 .. from + label : out[i] = 0
        /\ \A i \in from + label + 1 .. Len(out) : out[i] = s[i - label - from + to]
    BY <1>1, <1>4 DEF IsReplaced
  <2>2. Len(out) = from + label + Len(c)
    BY <1>10, <2>1
  <2>3. \A i \in 1 .. from : s[i] = i
    BY <1>1
  <2>4. \A i \in 1 .. from : out[i] = i
    BY <2>1, <2>3
  <2>5. \A i \in from + label + 1 .. from + label + Len(c) : out[i] = s[i - label - from + to]
    BY <2>1, <2>2
  <2>6. QED
    BY <2>1, <2>2, <2>4, <2>5
<1>12. PICK m \in Nat : m = Len(c)
  <2>1. Len(c) \in Nat
    BY <1>10
  <2>2. QED
    BY <2>1
<1>13. PICK d : d = w \o b
  OBVIOUS
<1>14. d \in Seq(Chars) /\ IsJoined(d, w, b)
  BY <1>6, <1>8, <1>13, Joined
<1>15. PICK f : f = d \o c
  OBVIOUS
<1>16. f \in Seq(Chars) /\ IsJoined(f, d, c)
  BY <1>10, <1>14, <1>15, Joined
<1>17. PICK h : h = After(out, k)
  OBVIOUS
<1>18. /\ h \in Seq(Chars)
       /\ Len(h) = IF k < Len(out) THEN Len(out) - k ELSE 0
       /\ \A i \in 1 .. Len(out) - k : h[i] = out[k + i]
  BY <1>11, <1>17, RestOf
<1>19. Len(out) = from + label + m
  BY <1>11, <1>12
<1>20. Len(h) = from - k + label + m /\ \A i \in 1 .. from - k + label + m : h[i] = out[k + i]
  <2>1. Len(out) - k = from - k + label + m
    BY <1>19
  <2>2. QED
    BY <1>2, <1>18, <1>19, <2>1
<1>21. Len(d) = from - k + label /\ Len(f) = from - k + label + m
  BY <1>6, <1>8, <1>12, <1>14, <1>16 DEF IsJoined
<1>22. ASSUME NEW i \in 1 .. from - k + label + m PROVE h[i] = f[i]
  <2>0. h[i] = out[k + i] /\ i \in Nat /\ 1 <= i /\ i <= from - k + label + m
    BY <1>2, <1>20
  <2>1. CASE i <= from - k
    <3>1. i \in 1 .. from - k /\ i \in 1 .. Len(d) /\ i \in 1 .. Len(w) /\ k + i \in 1 .. from
      BY <1>2, <1>6, <1>21, <2>0, <2>1
    <3>2. f[i] = d[i] /\ d[i] = w[i] /\ w[i] = k + i /\ out[k + i] = k + i
      BY <1>6, <1>11, <1>14, <1>16, <3>1 DEF IsJoined
    <3>3. QED
      BY <2>0, <3>2
  <2>2. CASE i > from - k /\ i <= from - k + label
    <3>1. /\ i \in 1 .. Len(d) /\ i \in Len(w) + 1 .. Len(w) + Len(b)
          /\ k + i \in from + 1 .. from + label /\ i - Len(w) \in 1 .. label
      BY <1>2, <1>6, <1>8, <1>21, <2>0, <2>2
    <3>2. f[i] = d[i] /\ d[i] = b[i - Len(w)] /\ b[i - Len(w)] = 0 /\ out[k + i] = 0
      BY <1>8, <1>11, <1>14, <1>16, <3>1 DEF IsJoined
    <3>3. QED
      BY <2>0, <3>2
  <2>3. CASE i > from - k + label
    <3>1. /\ i \in Len(d) + 1 .. Len(d) + Len(c)
          /\ k + i \in from + label + 1 .. from + label + Len(c)
      BY <1>2, <1>12, <1>21, <2>0, <2>3
    <3>2. PICK j \in Int : j = i - Len(d)
      BY <1>2, <1>21, <2>0
    <3>3. j \in 1 .. n - to
      BY <1>2, <1>10, <1>12, <1>21, <2>0, <2>3, <3>2
    <3>4. f[i] = c[j] /\ c[j] = s[to + j]
      BY <1>10, <1>16, <3>1, <3>2, <3>3 DEF IsJoined
    <3>5. out[k + i] = s[(k + i) - label - from + to]
      BY <1>11, <3>1
    <3>6. (k + i) - label - from + to = to + j
      <4>1. PICK x \in Nat : x = i
        BY <2>0
      <4>2. PICK y \in Nat : y = Len(d) /\ y = from - k + label
        BY <1>2, <1>21
      <4>3. (k + x) - label - from + to = to + (x - y)
        BY <1>2, <4>2
      <4>4. QED
        BY <3>2, <4>1, <4>2, <4>3
    <3>7. QED
      BY <2>0, <3>4, <3>5, <3>6
  <2>4. QED
    BY <1>2, <2>0, <2>1, <2>2, <2>3
<1>23. h = f
  BY <1>16, <1>18, <1>20, <1>21, <1>22, SeqEqual
<1>24. QED
  BY <1>1, <1>3, <1>5, <1>7, <1>9, <1>13, <1>15, <1>17, <1>23

(* In disjoint entities the leftmost one ends before any other starts.       *)
LEMMA LeftmostEndsFirst ==
  ASSUME NEW r \in Seq(Entities), NEW T \in SUBSET DOMAIN r, NEW l, IsLeftmost(l, r, T),
         Disjoint(r)
  PROVE  \A j \in T \ {l} : r[l].to <= r[j].from
<1> SUFFICES ASSUME NEW j \in T \ {l} PROVE r[l].to <= r[j].from
  OBVIOUS
<1>1. r[l] \in Entities /\ r[j] \in Entities /\ l \in DOMAIN r /\ j \in DOMAIN r
  BY DEF IsLeftmost
<1>2. PICK e \in Entities : e = r[l]
  BY <1>1
<1>3. PICK f \in Entities : f = r[j]
  BY <1>1
<1>4. e.from <= f.from
  BY <1>2, <1>3 DEF IsLeftmost
<1>5. e.from \in Nat /\ f.from \in Nat /\ f.to \in Nat /\ f.from < f.to
  BY EntityType
<1>6. e.to <= f.from \/ f.to <= e.from
  BY <1>1, <1>2, <1>3 DEF Disjoint
<1>7. QED
  BY <1>2, <1>3, <1>4, <1>5, <1>6

(* The leftmost of disjoint entities leaves a label and nothing else of it.  *)
LEMMA ShornStays ==
  ASSUME NEW s, NEW r \in Seq(Entities), NEW T \in SUBSET DOMAIN r, NEW l, IsLeftmost(l, r, T),
         IsUntouched(s, r, T \ {l}), IsShorn(s, r, T \ {l}), Disjoint(r)
  PROVE  IsShorn(Replace(s, r[l]), r, T)
<1>1. PICK e \in Entities : e = r[l] /\ l \in T
  BY DEF IsLeftmost
<1>2. PICK from \in Nat, to \in Nat, label \in Nat : from = e.from /\ to = e.to /\ label = e.label
  BY EntityType
<1>3. Positions \in Nat /\ from < to /\ to <= Positions /\ from <= to /\ from <= Positions
  BY <1>2, EntityType
<1>4. s \in Seq(Chars) /\ e.from <= Len(s) /\ \A i \in 1 .. e.from : s[i] = i
  BY <1>1, UntouchedStays DEF IsUntouched
<1>5. PICK R : R = T \ {l}
  OBVIOUS
<1>6. \A j \in R : to <= r[j].from
  BY <1>1, <1>2, <1>5, LeftmostEndsFirst
<1>7. PICK all : all = 1 .. Positions
  OBVIOUS
<1>8. PICK c : c = After(s, to)
  OBVIOUS
<1>9. PICK tail : tail = Run(to, Positions)
  OBVIOUS
<1>10. c \in Seq(Chars)
  BY <1>4, <1>8, RestOf
<1>11. PICK gone : gone = Gone(r, R)
  OBVIOUS
<1>12. /\ Chosen(c, all) = Chosen(tail, all \ gone)
       /\ Len(c) = Len(Chosen(c, all)) + Sum(LabelsOf(r), R)
  <2>1. to \in 0 .. Positions
    BY <1>3
  <2>2. LeftBehind(s, r, R, to)
    BY <1>5, <1>6, <2>1 DEF IsShorn
  <2>3. QED
    BY <1>7, <1>8, <1>9, <1>11, <2>2 DEF LeftBehind
<1>13. Gone(r, T) = gone \cup (from + 1 .. to)
  BY <1>1, <1>2, <1>5, <1>11 DEF Gone
<1>14. \A x \in gone : x \in Nat /\ x > to
  <2>1. ASSUME NEW j \in R, NEW x \in r[j].from + 1 .. r[j].to PROVE x \in Nat /\ x > to
    <3>1. r[j] \in Entities
      BY <1>5
    <3>2. r[j].from \in Nat /\ r[j].to \in Nat /\ to <= r[j].from
      BY <1>6, <3>1, EntityType
    <3>3. QED
      BY <3>2
  <2>2. QED
    BY <1>11, <2>1 DEF Gone
<1>15. Sum(LabelsOf(r), T) = label + Sum(LabelsOf(r), R) /\ Sum(LabelsOf(r), R) \in Nat
  <2>1. DOMAIN r = 1 .. Len(r) /\ Len(r) \in Nat
    OBVIOUS
  <2>2. IsFiniteSet(T) /\ IsFiniteSet(R)
    <3>1. IsFiniteSet(DOMAIN r)
      BY <2>1, FS_Interval
    <3>2. R \in SUBSET DOMAIN r
      BY <1>5
    <3>3. QED
      BY <3>1, <3>2, FS_Subset
  <2>3. \A x \in T : LabelsOf(r)[x] \in Nat
    BY LabelsAre
  <2>4. LabelsOf(r)[l] = label
    BY <1>1, <1>2, LabelsAre
  <2>5. Sum(LabelsOf(r), T) = LabelsOf(r)[l] + Sum(LabelsOf(r), T \ {l})
    BY <1>1, <2>2, <2>3, SumWithout
  <2>6. \A x \in R : LabelsOf(r)[x] \in Nat
    BY <1>5, <2>3
  <2>7. Sum(LabelsOf(r), R) \in Nat
    BY <2>2, <2>6, SumIsNatural
  <2>8. QED
    BY <1>5, <2>4, <2>5, <2>7
<1>16. tail \in Seq(Chars) /\ Len(tail) = Positions - to /\ \A i \in 1 .. Positions - to : tail[i] = to + i
  <2>1. to <= Positions /\ Positions <= Positions
    BY <1>3
  <2>2. IsRun(tail, to, Positions)
    BY <1>3, <1>9, <2>1, RunIs
  <2>3. QED
    BY <2>2 DEF IsRun
<1>17. Chosen(tail, all \ gone) = Chosen(tail, all \ Gone(r, T))
  <2>1. \A i \in 1 .. Len(tail) : tail[i] \in all \ gone <=> tail[i] \in all \ Gone(r, T)
    BY <1>3, <1>13, <1>16
  <2>2. QED
    BY <1>16, <2>1, ChosenAgrees
<1>18. PICK b : b = Label(e)
  OBVIOUS
<1>19. b \in Seq(Chars) /\ Len(b) = label /\ \A i \in 1 .. label : b[i] = 0
  BY <1>2, <1>18, LabelIs
<1>20. Chosen(b, all) = << >>
  <2>1. \A i \in 1 .. Len(b) : b[i] \notin all
    BY <1>3, <1>7, <1>19
  <2>2. QED
    BY <1>19, <2>1, ChosenNone
<1>21. PICK mid : mid = Run(from, to)
  OBVIOUS
<1>22. mid \in Seq(Chars) /\ Len(mid) = to - from /\ \A i \in 1 .. to - from : mid[i] = from + i
  BY <1>3, <1>21, RunIs DEF IsRun
<1>23. Chosen(mid, all \ Gone(r, T)) = << >>
  <2>1. \A i \in 1 .. Len(mid) : mid[i] \notin all \ Gone(r, T)
    BY <1>3, <1>13, <1>22
  <2>2. QED
    BY <1>22, <2>1, ChosenNone
<1>24. PICK left : left = Chosen(c, all)
  OBVIOUS
<1>25. left \in Seq(Chars)
  BY <1>10, <1>24, ChosenIsSequence
<1>26. ASSUME NEW k \in 0 .. Positions, \A j \in T : k <= r[j].from
       PROVE  LeftBehind(Replace(s, e), r, T, k)
  <2>1. k \in Nat /\ k <= from
    BY <1>1, <1>2, <1>3, <1>26
  <2>2. PICK w : w = Run(k, from)
    OBVIOUS
  <2>3. w \in Seq(Chars) /\ Len(w) = from - k /\ \A i \in 1 .. from - k : w[i] = k + i
    BY <1>3, <2>1, <2>2, RunIs DEF IsRun
  <2>4. PICK a : a = After(Replace(s, e), k)
    OBVIOUS
  <2>5. a = (w \o b) \o c
    BY <1>2, <1>4, <1>8, <1>18, <2>1, <2>2, <2>4, RestOfReplaced
  <2>6. PICK d : d = w \o b
    OBVIOUS
  <2>7. d \in Seq(Chars) /\ Len(d) = from - k + label
    <3>1. d \in Seq(Chars) /\ IsJoined(d, w, b)
      BY <1>19, <2>3, <2>6, Joined
    <3>2. QED
      BY <1>19, <2>3, <3>1 DEF IsJoined
  <2>8. a \in Seq(Chars) /\ Len(a) = from - k + label + Len(c)
    <3>1. a \in Seq(Chars) /\ IsJoined(a, d, c)
      BY <1>10, <2>5, <2>6, <2>7, Joined
    <3>2. QED
      BY <2>7, <3>1 DEF IsJoined
  <2>9. Chosen(w, all) = w /\ Chosen(w, all \ Gone(r, T)) = w
    <3>1. \A i \in 1 .. Len(w) : w[i] \in all /\ w[i] \in all \ Gone(r, T)
      BY <1>3, <1>7, <1>13, <1>14, <2>1, <2>3
    <3>2. QED
      BY <2>3, <3>1, ChosenAll
  <2>10. w \o << >> = w
    BY <2>3, ConcatEmptySeq
  <2>11. Chosen(d, all) = w
    <3>1. Chosen(w \o b, all) = Chosen(w, all) \o Chosen(b, all)
      BY <1>19, <2>3, ChosenOfBoth
    <3>2. QED
      BY <1>20, <2>6, <2>9, <2>10, <3>1
  <2>12. Chosen(a, all) = w \o left
    <3>1. Chosen(d \o c, all) = Chosen(d, all) \o Chosen(c, all)
      BY <1>10, <2>7, ChosenOfBoth
    <3>2. QED
      BY <1>24, <2>5, <2>6, <2>11, <3>1
  <2>13. Run(k, Positions) = (w \o mid) \o tail
    <3>1. Run(k, to) = w \o mid
      <4>1. Run(k, to) = Run(k, from) \o Run(from, to)
        BY <1>3, <2>1, RunSplits
      <4>2. QED
        BY <1>21, <2>2, <4>1
    <3>2. k <= to /\ to <= Positions /\ Positions <= Positions
      BY <1>3, <2>1
    <3>3. Run(k, Positions) = Run(k, to) \o tail
      BY <1>3, <1>9, <2>1, <3>2, RunSplits
    <3>4. QED
      BY <3>1, <3>3
  <2>14. PICK v : v = w \o mid
    OBVIOUS
  <2>15. v \in Seq(Chars)
    BY <1>22, <2>3, <2>14, Joined
  <2>16. Chosen(v, all \ Gone(r, T)) = w
    <3>1. PICK kept : kept = all \ Gone(r, T)
      OBVIOUS
    <3>2. Chosen(w \o mid, kept) = Chosen(w, kept) \o Chosen(mid, kept)
      BY <1>22, <2>3, ChosenOfBoth
    <3>3. QED
      BY <1>23, <2>9, <2>10, <2>14, <3>1, <3>2
  <2>17. Chosen(Run(k, Positions), all \ Gone(r, T)) = w \o left
    <3>1. PICK kept : kept = all \ Gone(r, T)
      OBVIOUS
    <3>2. Chosen(v \o tail, kept) = Chosen(v, kept) \o Chosen(tail, kept)
      BY <1>16, <2>15, ChosenOfBoth
    <3>3. Chosen(tail, kept) = left
      BY <1>12, <1>17, <1>24, <3>1
    <3>4. QED
      BY <2>13, <2>14, <2>16, <3>1, <3>2, <3>3
  <2>18. Len(w \o left) = from - k + Len(left)
    <3>1. IsJoined(w \o left, w, left)
      BY <1>25, <2>3, Joined
    <3>2. QED
      BY <2>3, <3>1 DEF IsJoined
  <2>19. Len(a) = Len(w \o left) + Sum(LabelsOf(r), T)
    <3>1. PICK n \in Nat : n = Len(left)
      BY <1>25
    <3>2. PICK t \in Nat : t = Sum(LabelsOf(r), R)
      BY <1>15
    <3>3. Len(c) = n + t
      BY <1>12, <1>24, <3>1, <3>2
    <3>4. from - k + label + (n + t) = (from - k + n) + (label + t)
      BY <2>1
    <3>5. QED
      BY <1>15, <2>8, <2>18, <3>1, <3>2, <3>3, <3>4
  <2>20. QED
    BY <1>7, <2>4, <2>12, <2>17, <2>19 DEF LeftBehind
<1>27. QED
  BY <1>1, <1>26 DEF IsShorn

RestOfAll == \A s \in Seq(Chars) : After(s, 0) = s

(* What is behind the place 0 is all.                                        *)
LEMMA AllIsRest == RestOfAll
<1> SUFFICES ASSUME NEW s \in Seq(Chars) PROVE After(s, 0) = s
  BY DEF RestOfAll
<1>1. Len(s) \in Nat
  OBVIOUS
<1>2. PICK d : d = After(s, 0)
  OBVIOUS
<1>0. PICK k \in Nat : k = 0
  OBVIOUS
<1>3. /\ d \in Seq(Chars)
      /\ Len(d) = IF k < Len(s) THEN Len(s) - k ELSE 0
      /\ \A i \in 1 .. Len(s) - k : d[i] = s[k + i]
  BY <1>2, <1>0, RestOf
<1>4. Len(d) = Len(s) /\ \A i \in 1 .. Len(s) : d[i] = s[i]
  BY <1>1, <1>0, <1>3
<1>5. d = s
  BY <1>3, <1>4, SeqEqual
<1>6. QED
  BY <1>2, <1>5

(* What holds of the original, and of a text with one more entity replaced   *)
(* whenever it holds of the one before, holds of the redacted text.          *)
LEMMA RedactsInOrder ==
  ASSUME NEW r \in Seq(Entities), NEW g, Redacts(g, Original, r), NEW P,
         <<Original, {}>> \in P,
         \A T \in SUBSET DOMAIN r : T # {} =>
           LET l == Leftmost(r, T)
           IN  <<g[T \ {l}], T \ {l}>> \in P => <<Replace(g[T \ {l}], r[l]), T>> \in P
  PROVE  <<g[DOMAIN r], DOMAIN r>> \in P
<1>1. PICK D : D = DOMAIN r
  OBVIOUS
<1>2. IsFiniteSet(D)
  <2>1. D = 1 .. Len(r) /\ Len(r) \in Nat
    BY <1>1
  <2>2. QED
    BY <2>1, FS_Interval
<1> DEFINE Q == {T \in SUBSET D : <<g[T], T>> \in P}
<1>3. ASSUME NEW T \in SUBSET D, \A U \in SUBSET T : U # T => U \in Q
      PROVE  T \in Q
  <2>1. CASE T = {}
    BY <2>1 DEF Redacts
  <2>2. CASE T # {}
    <3>1. PICK l : l = Leftmost(r, T)
      OBVIOUS
    <3>2. l \in T
      BY <1>1, <2>2, <3>1, LeftmostIs DEF IsLeftmost
    <3>3. T \ {l} \in Q
      BY <1>3, <3>2
    <3>4. g[T] = Replace(g[T \ {l}], r[l])
      BY <1>1, <2>2, <3>1 DEF Redacts
    <3>5. QED
      BY <1>1, <2>2, <3>1, <3>3, <3>4
  <2>3. QED
    BY <2>1, <2>2
<1>4. \A T \in SUBSET D : (\A U \in SUBSET T : U # T => U \in Q) => T \in Q
  BY <1>3
<1> HIDE DEF Q
<1>5. SUBSET D \subseteq Q
  BY <1>2, <1>4, SubsetInduction
<1>6. QED
  BY <1>1, <1>5 DEF Q

(* The original is as it was.                                                *)
LEMMA OriginalIsUntouched ==
  ASSUME NEW r
  PROVE  IsUntouched(Original, r, {}) /\ IsShifted(Original, r, {})
<1>1. Positions \in Nat
  BY LocalAssumption
<1>2. PICK s \in Seq(Chars) : s = Original /\ Len(s) = Positions /\ \A k \in 1 .. Positions : s[k] = k
  BY OriginalIs
<1>3. IsUntouched(s, r, {})
  BY <1>1, <1>2 DEF IsUntouched
<1>4. Gone(r, {}) = {}
  BY DEF Gone
<1>5. IsShifted(s, r, {})
  BY <1>1, <1>2, <1>4 DEF IsShifted
<1>6. QED
  BY <1>2, <1>3, <1>5

(* Of entities in any position nothing is left, as long as no label is       *)
(* longer than what it replaces.                                             *)
LEMMA NothingIsLeft ==
  ASSUME NEW r \in Seq(Entities), \A i \in DOMAIN r : r[i].label <= r[i].to - r[i].from
  PROVE  ToSet(Chosen(Redact(Original, r), 1 .. Positions)) \cap Covered(r) = {}
<1>1. Original \in Seq(Chars)
  BY OriginalIs
<1>2. PICK g : Redacts(g, Original, r) /\ g[DOMAIN r] = Redact(Original, r)
  BY <1>1, RedactedBySets
<1> DEFINE P == {x \in Seq(Chars) \X SUBSET DOMAIN r : IsUntouched(x[1], r, x[2]) /\ IsShifted(x[1], r, x[2])}
<1>3. <<Original, {}>> \in P
  BY <1>1, OriginalIsUntouched
<1>4. ASSUME NEW T \in SUBSET DOMAIN r, T # {}, NEW l, l = Leftmost(r, T),
             <<g[T \ {l}], T \ {l}>> \in P
      PROVE  <<Replace(g[T \ {l}], r[l]), T>> \in P
  <2>1. IsLeftmost(l, r, T)
    BY <1>4, LeftmostIs
  <2>2. PICK s : s = g[T \ {l}]
    OBVIOUS
  <2>3. IsUntouched(s, r, T \ {l}) /\ IsShifted(s, r, T \ {l})
    BY <1>4, <2>2
  <2>4. r[l].label <= r[l].to - r[l].from
    BY <2>1 DEF IsLeftmost
  <2>5. IsUntouched(Replace(s, r[l]), r, T)
    BY <2>1, <2>3, UntouchedStays
  <2>6. IsShifted(Replace(s, r[l]), r, T)
    BY <2>1, <2>3, <2>4, ShiftedStays
  <2>7. Replace(s, r[l]) \in Seq(Chars)
    BY <2>5 DEF IsUntouched
  <2>8. QED
    BY <2>2, <2>5, <2>6, <2>7
<1>5. <<g[DOMAIN r], DOMAIN r>> \in P
  <2>1. \A T \in SUBSET DOMAIN r : T # {} =>
          LET l == Leftmost(r, T)
          IN  <<g[T \ {l}], T \ {l}>> \in P => <<Replace(g[T \ {l}], r[l]), T>> \in P
    BY <1>4
  <2> HIDE DEF P
  <2>2. QED
    BY <1>2, <1>3, <2>1, RedactsInOrder
<1>6. PICK out : out = Redact(Original, r)
  OBVIOUS
<1>7. out \in Seq(Chars) /\ IsShifted(out, r, DOMAIN r)
  BY <1>2, <1>5, <1>6 DEF IsUntouched
<1>8. Gone(r, DOMAIN r) = Covered(r)
  BY DEF Gone, Covered
<1>9. \A k \in 1 .. Len(out) : out[k] = 0 \/ out[k] \notin Covered(r)
  BY <1>7, <1>8 DEF IsShifted
<1>10. \A x \in ToSet(out) : x = 0 \/ x \notin Covered(r)
  <2>1. DOMAIN out = 1 .. Len(out)
    BY <1>7
  <2>2. QED
    BY <1>9, <2>1 DEF ToSet
<1>11. ToSet(Chosen(out, 1 .. Positions)) = ToSet(out) \cap (1 .. Positions)
  BY <1>7, ChosenAreKept
<1>12. Positions \in Nat
  BY LocalAssumption
<1>13. \A x \in ToSet(out) \cap (1 .. Positions) : x \notin Covered(r)
  BY <1>10, <1>12
<1>14. QED
  BY <1>6, <1>11, <1>13

(* Of disjoint entities every character is gone, every other one is kept in  *)
(* its place, and each has left one label.                                   *)
LEMMA RestIsKept ==
  ASSUME NEW r \in Seq(Entities), Disjoint(r),
         NEW out, out = Redact(Original, r), NEW chars, chars = Chosen(out, 1 .. Positions)
  PROVE  /\ chars = Chosen(Original, (1 .. Positions) \ Covered(r))
         /\ Len(out) - Len(chars) = Sum(LabelsOf(r), DOMAIN r)
<1>1. Original \in Seq(Chars)
  BY OriginalIs
<1>2. PICK g : Redacts(g, Original, r) /\ g[DOMAIN r] = out
  BY <1>1, RedactedBySets
<1> DEFINE P == {x \in Seq(Chars) \X SUBSET DOMAIN r : IsUntouched(x[1], r, x[2]) /\ IsShorn(x[1], r, x[2])}
<1>3. <<Original, {}>> \in P
  BY <1>1, OriginalIsUntouched, OriginalIsShorn
<1>4. ASSUME NEW T \in SUBSET DOMAIN r, T # {}, NEW l, l = Leftmost(r, T),
             <<g[T \ {l}], T \ {l}>> \in P
      PROVE  <<Replace(g[T \ {l}], r[l]), T>> \in P
  <2>1. IsLeftmost(l, r, T)
    BY <1>4, LeftmostIs
  <2>2. PICK s : s = g[T \ {l}]
    OBVIOUS
  <2>3. IsUntouched(s, r, T \ {l}) /\ IsShorn(s, r, T \ {l})
    BY <1>4, <2>2
  <2>5. IsUntouched(Replace(s, r[l]), r, T)
    BY <2>1, <2>3, UntouchedStays
  <2>6. IsShorn(Replace(s, r[l]), r, T)
    BY <2>1, <2>3, ShornStays
  <2>7. Replace(s, r[l]) \in Seq(Chars)
    BY <2>5 DEF IsUntouched
  <2>8. QED
    BY <2>2, <2>5, <2>6, <2>7
<1>5. <<g[DOMAIN r], DOMAIN r>> \in P
  <2>1. \A T \in SUBSET DOMAIN r : T # {} =>
          LET l == Leftmost(r, T)
          IN  <<g[T \ {l}], T \ {l}>> \in P => <<Replace(g[T \ {l}], r[l]), T>> \in P
    BY <1>4
  <2> HIDE DEF P
  <2>2. QED
    BY <1>2, <1>3, <2>1, RedactsInOrder
<1>6. out \in Seq(Chars) /\ IsShorn(out, r, DOMAIN r)
  BY <1>2, <1>5 DEF IsUntouched
<1>7. 0 \in 0 .. Positions /\ \A j \in DOMAIN r : 0 <= r[j].from
  <2>1. \A j \in DOMAIN r : r[j] \in Entities
    OBVIOUS
  <2>2. QED
    BY <2>1, EntityType, LocalAssumption
<1>8. LeftBehind(out, r, DOMAIN r, 0)
  BY <1>6, <1>7 DEF IsShorn
<1>9. After(out, 0) = out
  BY <1>6, AllIsRest DEF RestOfAll
<1>10. Run(0, Positions) = Original
  BY OriginalIs
<1>11. Gone(r, DOMAIN r) = Covered(r)
  BY DEF Gone, Covered
<1>12. /\ chars = Chosen(Original, (1 .. Positions) \ Covered(r))
       /\ Len(out) = Len(chars) + Sum(LabelsOf(r), DOMAIN r)
  BY <1>8, <1>9, <1>10, <1>11 DEF LeftBehind
<1>13. Len(out) \in Nat /\ Len(chars) \in Nat
  <2>1. chars \in Seq(Chars)
    BY <1>6, ChosenIsSequence
  <2>2. QED
    BY <1>6, <2>1
<1>14. Sum(LabelsOf(r), DOMAIN r) \in Nat
  <2>1. DOMAIN r = 1 .. Len(r) /\ Len(r) \in Nat
    OBVIOUS
  <2>2. IsFiniteSet(DOMAIN r)
    BY <2>1, FS_Interval
  <2>3. QED
    BY <2>2, LabelsAre, SumIsNatural
<1>15. QED
  BY <1>12, <1>13, <1>14

-----------------------------------------------------------------------------
(* The entities that count are entities.                                     *)
LEMMA KeptType ==
  ASSUME LocalInv
  PROVE  Kept(entities) \in Seq(Entities)
<1>1. entities \in Seq(Entities)
  BY DEF LocalInv
<1>2. PICK some : some = {e \in ToSet(entities) : e.score >= local.threshold}
  OBVIOUS
<1>3. Chosen(entities, some) \in Seq(Entities)
  BY <1>1, ChosenIsSequence
<1>4. << >> \in Seq(Entities)
  OBVIOUS
<1>5. Kept(entities) = IF local.configured THEN Chosen(entities, some) ELSE << >>
  BY <1>2 DEF Kept
<1>6. QED
  BY <1>3, <1>4, <1>5

(* Each text of a step is redacted as it should be.                          *)
LEMMA RedactionStays ==
  ASSUME LocalInv
  PROVE  RedactionIsSafe
<1>1. PICK kept : kept = Kept(entities)
  OBVIOUS
<1>2. kept \in Seq(Entities)
  BY <1>1, KeptType
<1>3. PICK out : out = Redact(Original, kept)
  OBVIOUS
<1>4. PICK chars : chars = Chosen(out, 1 .. Positions)
  OBVIOUS
<1>5. PICK labels : labels = LabelsOf(kept)
  OBVIOUS
<1>6. Disjoint(kept) => /\ chars = Chosen(Original, (1 .. Positions) \ Covered(kept))
                        /\ Len(out) - Len(chars) = Sum(labels, DOMAIN kept)
  BY <1>2, <1>3, <1>4, <1>5, RestIsKept
<1>7. (\A i \in DOMAIN kept : kept[i].label <= kept[i].to - kept[i].from) =>
        ToSet(chars) \cap Covered(kept) = {}
  BY <1>2, <1>3, <1>4, NothingIsLeft
<1>8. QED
  BY <1>1, <1>3, <1>4, <1>5, <1>6, <1>7 DEF RedactionIsSafe, LabelsOf, Sum

(* The redacted text keeps nothing of what it should not, and of entities    *)
(* that do not overlap it keeps all the rest: for any entities, any labels   *)
(* and texts of any length.                                                  *)
THEOREM RedactionSafe == LocalSpec => []RedactionIsSafe
BY LocalInvariance, RedactionStays, PTL
=============================================================================
