----------------------------- MODULE MCAzureAccess -----------------------------
(***************************************************************************)
(* What all Azure guards share, for TLC: the token cache with up to four   *)
(* calling guards, and the HTTP client with up to three.  The two keep no  *)
(* state in common, a guard has its token before it posts, so a behaviour  *)
(* is one of the cache or one of the client, the other part at rest.       *)
(***************************************************************************)
EXTENDS AadTokenCache, AzureClient

CONSTANTS c1, c2, c3, c4

VARIABLE part

CacheAtRest ==
  /\ cached = "none"
  /\ pc = [c \in Callers |-> "returned"]
  /\ holder = NoCaller
  /\ waiters = << >>
  /\ thread = [c \in Callers |-> "none"]
  /\ got = [c \in Callers |-> "none"]
  /\ agings = 0
  /\ fetches = 0
  /\ spent = 0

ClientAtRest ==
  /\ current = 0
  /\ created = 0
  /\ closed = {}
  /\ stale = {}
  /\ posting = [g \in Guards |-> "answered"]
  /\ using = [g \in Guards |-> 0]
  /\ tries = [g \in Guards |-> 0]
  /\ goaways = 0

CacheStep == part = "cache" /\ Next /\ UNCHANGED <<clientVars, part>>

ClientStep == part = "client" /\ ClientNext /\ UNCHANGED <<vars, part>>

AccessInit ==
  \/ part = "cache" /\ Init /\ ClientAtRest
  \/ part = "client" /\ ClientInit /\ CacheAtRest

(* The fairness of each part: that of Spec and of ClientSpec.                *)
AccessFairness ==
  /\ \A c \in Callers : WF_vars(part = "cache" /\ Progress(c) /\ UNCHANGED <<clientVars, part>>)
  /\ \A g \in Guards :
       WF_clientVars(part = "client" /\ ClientProgress(g) /\ UNCHANGED <<vars, part>>)

AccessSpec ==
  /\ AccessInit
  /\ [][CacheStep \/ ClientStep]_<<vars, clientVars, part>>
  /\ AccessFairness
=============================================================================
