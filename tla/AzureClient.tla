------------------------------ MODULE AzureClient ------------------------------
(***************************************************************************)
(* The HTTP client that all Azure guards share: get_client and aclose of   *)
(* guardrails-service/app/core/azure_http.py, and AzureGuardBase.          *)
(* _post_json of core/guards/_azure_base.py, which on a protocol error     *)
(* resets the shared client and tries once more.                           *)
(*                                                                         *)
(* The clients are numbered in the order they are created.  httpx marks a  *)
(* client closed as soon as its aclose is called and then awaits the close *)
(* of its connections; a closed client refuses to send.  The pipeline may  *)
(* cancel a guard at any await.                                            *)
(***************************************************************************)
EXTENDS Naturals, FiniteSets

CONSTANTS
  Guards,        (* calls of _post_json under way at once                    *)
  MaxGoAways     (* bound: how often the server closes its connections       *)

ASSUME ClientAssumption == IsFiniteSet(Guards) /\ MaxGoAways \in Nat

VARIABLES
  current,   (* the global _client: a client, or 0 for None                  *)
  created,   (* clients created so far                                       *)
  closed,    (* those whose aclose was called                                *)
  stale,     (* those whose connections the server has closed                *)
  posting,   (* where each call is                                           *)
  using,     (* the client each call's request or reset is on                *)
  tries,     (* requests each call has made                                  *)
  goaways

clientVars == <<current, created, closed, stale, posting, using, tries, goaways>>

Clients == 1 .. created

(* Seeded fault: a client is created for every request.                      *)
RequestAlways(g, shared) ==
  LET client == created + 1
  IN  /\ current' = client
      /\ created' = client
      /\ using' = [using EXCEPT ![g] = client]
      /\ tries' = [tries EXCEPT ![g] = @ + 1]
      /\ posting' = [posting EXCEPT ![g] = IF client \in closed THEN "failed" ELSE "sent"]

(* A request on the shared client, which get_client creates if there is      *)
(* none.  A closed client refuses at once: an error that is not retried.     *)
Request(g, shared) ==
  LET client == IF shared = 0 THEN created + 1 ELSE shared
  IN  /\ current' = client
      /\ created' = IF shared = 0 THEN created + 1 ELSE created
      /\ using' = [using EXCEPT ![g] = client]
      /\ tries' = [tries EXCEPT ![g] = @ + 1]
      /\ posting' = [posting EXCEPT ![g] = IF client \in closed THEN "failed" ELSE "sent"]

Post(g) ==
  /\ posting[g] = "start"
  /\ Request(g, current)
  /\ UNCHANGED <<closed, stale, goaways>>

(* An answer, an error status, a timeout or any other error.                 *)
EndPost(g) ==
  /\ posting[g] = "sent"
  /\ \E end \in {"answered", "failed"} : posting' = [posting EXCEPT ![g] = end]
  /\ UNCHANGED <<current, created, closed, stale, using, tries, goaways>>

(* aclose: there is nothing to await if the client is closed already, and    *)
(* the retry follows in the same stretch of code.                            *)
BeginReset(g) ==
  IF current \in closed \cup {0}
  THEN Request(g, 0) /\ UNCHANGED closed
  ELSE /\ closed' = closed \cup {current}
       /\ posting' = [posting EXCEPT ![g] = "closing"]
       /\ using' = [using EXCEPT ![g] = current]
       /\ UNCHANGED <<current, created, tries>>

(* Seeded fault: the retry is retried like the first request.                *)
MeetStaleAgain(g) ==
  /\ posting[g] = "sent"
  /\ using[g] \in stale \cup closed
  /\ BeginReset(g)
  /\ UNCHANGED <<stale, goaways>>

(* The request meets a connection that the server, or another guard's reset, *)
(* has closed.  The first time the shared client is reset, whichever client  *)
(* that is by now; the second time the call fails.                           *)
MeetStale(g) ==
  /\ posting[g] = "sent"
  /\ using[g] \in stale \cup closed
  /\ IF tries[g] = 1 THEN BeginReset(g)
     ELSE /\ posting' = [posting EXCEPT ![g] = "failed"]
          /\ UNCHANGED <<current, created, closed, using, tries>>
  /\ UNCHANGED <<stale, goaways>>

(* Seeded faults: the global is not reset after the close; only the client   *)
(* closed by this guard is taken away, and any other is waited for.          *)
FinishResetKept(g) ==
  /\ posting[g] = "closing"
  /\ Request(g, current)
  /\ UNCHANGED <<closed, stale, goaways>>

FinishResetOwn(g) ==
  /\ posting[g] = "closing"
  /\ current = using[g]
  /\ Request(g, 0)
  /\ UNCHANGED <<closed, stale, goaways>>

(* The close is over: the global is set to None, whatever it is by now, and  *)
(* the retry creates a client.                                               *)
FinishReset(g) ==
  /\ posting[g] = "closing"
  /\ Request(g, 0)
  /\ UNCHANGED <<closed, stale, goaways>>

(* Another guard blocks and this one is cancelled at its await; if that is   *)
(* the await of the close, the global keeps the closed client.               *)
CancelPost(g) ==
  /\ posting[g] \in {"sent", "closing"}
  /\ posting' = [posting EXCEPT ![g] = IF posting[g] = "sent" THEN "cancelled" ELSE "abandoned"]
  /\ UNCHANGED <<current, created, closed, stale, using, tries, goaways>>

(* The server closes the connections of a client.                            *)
GoAway ==
  /\ goaways < MaxGoAways
  /\ \E c \in Clients \ stale : stale' = stale \cup {c}
  /\ goaways' = goaways + 1
  /\ UNCHANGED <<current, created, closed, posting, using, tries>>

-----------------------------------------------------------------------------
ClientInit ==
  /\ current = 0
  /\ created = 0
  /\ closed = {}
  /\ stale = {}
  /\ posting = [g \in Guards |-> "start"]
  /\ using = [g \in Guards |-> 0]
  /\ tries = [g \in Guards |-> 0]
  /\ goaways = 0

ClientProgress(g) ==
  \/ Post(g)
  \/ EndPost(g)
  \/ MeetStale(g)
  \/ FinishReset(g)

ClientNext == GoAway \/ \E g \in Guards : ClientProgress(g) \/ CancelPost(g)

(* Each request has a timeout, and closing connections ends.                 *)
ClientSpec ==
  /\ ClientInit
  /\ [][ClientNext]_clientVars
  /\ \A g \in Guards : WF_clientVars(ClientProgress(g))

-----------------------------------------------------------------------------
(* The type of every variable.                                               *)
ClientTypeOK ==
  /\ current \in 0 .. created
  /\ created \in Nat
  /\ closed \subseteq Clients
  /\ stale \subseteq Clients
  /\ posting \in [Guards -> {"start", "sent", "closing", "answered", "failed",
                             "cancelled", "abandoned"}]
  /\ using \in [Guards -> 0 .. created]
  /\ tries \in [Guards -> 0 .. 2]
  /\ goaways \in 0 .. MaxGoAways

(* A closed client does not stay: as long as it is the shared one, some      *)
(* guard is still closing it and will replace it, or was cancelled while it  *)
(* did, which is the one way to be left with a closed client.                *)
ClosedClientIsLeaving ==
  current \in closed =>
    \E g \in Guards : posting[g] \in {"closing", "abandoned"} /\ using[g] = current

(* No guard hammers the service with connections: every client beyond the    *)
(* first is created by one guard's retry, and by nothing else, so a burst of *)
(* guards that meet one close makes no more clients than it has guards.      *)
ClientsAreAccounted == created <= 1 + Cardinality({g \in Guards : tries[g] = 2})

(* Every call ends: a guard never waits for a client that nobody replaces.   *)
EveryCallEnds ==
  \A g \in Guards : <>(posting[g] \in {"answered", "failed", "cancelled", "abandoned"})

(* A reset makes the next call open a fresh connection (_azure_base.py:      *)
(* 184-186): once no guard is closing the shared client, it is not a closed  *)
(* one, which would refuse every request from then on.                       *)
ResetRestores ==
  (\A g \in Guards : posting[g] # "closing") => current \notin closed
=============================================================================
