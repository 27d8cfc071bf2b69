------------------------------- MODULE BearerAuth -------------------------------
(***************************************************************************)
(* require_bearer of guardrails-service/app/auth.py, which every endpoint  *)
(* of the service depends on: the static token, the tokens of the AAD      *)
(* tenant, the discovery document of the tenant, which is kept for an      *)
(* hour, and its signing keys, which PyJWKClient fetches and keeps apart   *)
(* from the document.  FastAPI runs it in a pool of threads, so that       *)
(* several requests may be fetching at once.                               *)
(*                                                                         *)
(* The tenant now and then changes its issuer, and more often its signing  *)
(* key; both are numbered.  Every document names the same address of the   *)
(* keys, which publishes one key at a time.  A deployment may be pinned to *)
(* issuer 0, to the address of the keys, or to both, and needs no document *)
(* only if to both.                                                        *)
(***************************************************************************)
EXTENDS Integers

CONSTANTS
  Callers,        (* requests                                                *)
  Authorizations, (* headers they may carry                                  *)
  AuthSettings,   (* deployments                                             *)
  Lifetime,       (* _DISCOVERY_CACHE_TTL_S, in ticks                        *)
  KeyLifetime,    (* lifespan of the key set of PyJWKClient, in ticks        *)
  MaxTicks,       (* bound on the clock                                      *)
  MaxRotations    (* bound: how often the issuer and the key change          *)

ASSUME AuthAssumption ==
  /\ Lifetime \in Nat \ {0} /\ KeyLifetime \in Nat
  /\ MaxTicks \in Nat /\ MaxRotations \in Nat

VARIABLES
  settings,   (* the deployment                                              *)
  clock,
  version,    (* of the document that the tenant serves                      *)
  lastServed, (* ghost: when the tenant last served each version             *)
  signing,    (* the key that the tenant publishes                           *)
  discovery,  (* _discovery_cache: the document and the time kept with it    *)
  keySet,     (* of PyJWKClient: the published key and when it was kept      *)
  resolved,   (* of PyJWKClient: keys found for a token, kept for good       *)
  caller      (* of each request: where it is, its header, when it looked at *)
              (* the clock, its document, the key published when it began to *)
              (* fetch keys, and its status                                  *)

tenantVars == <<settings, clock, version, lastServed, signing>>
authVars == <<tenantVars, discovery, keySet, resolved, caller>>

None == -1

NewCaller == [at |-> "new", header |-> "none", now |-> 0, document |-> None, since |-> 0, status |-> 0]

AadConfigured == settings.tenant /\ settings.audience

Waits(c, at, header, now, document, since) ==
  caller' = [caller EXCEPT ![c] = [at |-> at, header |-> header, now |-> now,
                                   document |-> document, since |-> since, status |-> 0]]

Settled(c, header, now, document, status) ==
  caller' = [caller EXCEPT ![c] = [at |-> "done", header |-> header, now |-> now,
                                   document |-> document, since |-> 0, status |-> status]]

(* An empty setting matches no token.                                        *)
CheckStaticToken(header) == header.kind = "static" /\ settings.secret # "" /\ header.token = settings.secret

Issuer(document) == IF "issuer" \in settings.pinned THEN 0 ELSE document

(* Audience, issuer and expiry of a token with a good signature.             *)
CheckClaims(header, document) ==
  /\ header.issuer = Issuer(document)
  /\ header.audience
  /\ header.expires > clock

(* What a token signed with a key that was found comes to.                   *)
Decided(header, document) ==
  IF ~CheckClaims(header, document) THEN 401
  ELSE IF settings.apps # {} /\ header.app \notin settings.apps THEN 403
  ELSE 200

KeySetIsFresh == keySet.key # None /\ clock - keySet.time <= KeyLifetime

(* A key found once is never looked for again.                               *)
KeyIsKnown(key) == key \in resolved \/ (KeySetIsFresh /\ keySet.key = key)

(* get_signing_key_from_jwt up to a fetch of the keys, which a key set that  *)
(* is too old and a key that is not in it both call for.                     *)
FindKey(c, header, now, document) ==
  IF header.kind # "jwt" THEN Settled(c, header, now, document, 401) /\ UNCHANGED resolved
  ELSE IF KeyIsKnown(header.key)
  THEN /\ Settled(c, header, now, document, Decided(header, document))
       /\ resolved' = resolved \cup {header.key}
  ELSE Waits(c, "keys", header, now, document, signing) /\ UNCHANGED resolved

(* Not older than the lifetime, by the clock as it was read before the cache *)
(* was tested.                                                               *)
IsFresh == discovery.document # None /\ clock - discovery.time < Lifetime

(* _check_aad_token up to a fetch.                                           *)
CheckAadToken(c, header) ==
  IF ~settings.pyjwt \/ ~AadConfigured
  THEN Settled(c, header, clock, None, 500) /\ UNCHANGED resolved
  ELSE IF settings.pinned = {"issuer", "keys"} THEN FindKey(c, header, clock, None)
  ELSE IF IsFresh THEN FindKey(c, header, clock, discovery.document)
  ELSE Waits(c, "fetching", header, clock, None, 0) /\ UNCHANGED resolved

(* By the mode: the static token alone, AAD alone, or the one after the      *)
(* other, where AAD is left out if it is not configured.                     *)
RequireBearer(c, header) ==
  /\ caller[c].at = "new"
  /\ IF header.kind = "missing"
     THEN Settled(c, header, clock, None, 401) /\ UNCHANGED resolved
     ELSE IF settings.mode # "aad" /\ CheckStaticToken(header)
     THEN Settled(c, header, clock, None, 200) /\ UNCHANGED resolved
     ELSE IF settings.mode = "aad" \/ (settings.mode # "static" /\ AadConfigured)
     THEN CheckAadToken(c, header)
     ELSE Settled(c, header, clock, None, 401) /\ UNCHANGED resolved
  /\ UNCHANGED <<tenantVars, discovery, keySet>>

(* The tenant answers, and the answer is on its way.                         *)
TenantAnswers(c) ==
  /\ caller[c].at = "fetching"
  /\ Waits(c, "received", caller[c].header, caller[c].now, version, 0)
  /\ UNCHANGED <<tenantVars, discovery, keySet, resolved>>

(* Seeded fault: the document is kept with the time it was stored at.        *)
KeepDocumentAsNew(c) ==
  /\ caller[c].at = "received"
  /\ discovery' = [document |-> caller[c].document, time |-> clock]
  /\ FindKey(c, caller[c].header, caller[c].now, caller[c].document)
  /\ UNCHANGED <<tenantVars, keySet>>

(* It is kept with the time the fetch began, even if another request has     *)
(* kept a newer one by now; the keys come after it.                          *)
KeepDocument(c) ==
  /\ caller[c].at = "received"
  /\ discovery' = [document |-> caller[c].document, time |-> caller[c].now]
  /\ FindKey(c, caller[c].header, caller[c].now, caller[c].document)
  /\ UNCHANGED <<tenantVars, keySet>>

(* A document that is too old is not used for want of a new one.             *)
FetchFails(c) ==
  /\ caller[c].at = "fetching"
  /\ Settled(c, caller[c].header, caller[c].now, None, 401)
  /\ UNCHANGED <<tenantVars, discovery, keySet, resolved>>

(* The key set arrives, as it was at some moment since the request asked,    *)
(* and is kept with the time of its arrival; the answer to a second fetch,   *)
(* for a key the first did not have, replaces that to the first.             *)
FetchKeys(c) ==
  LET me == caller[c]
  IN  /\ me.at = "keys"
      /\ \E key \in me.since .. signing :
           /\ keySet' = [key |-> key, time |-> clock]
           /\ resolved' = IF key = me.header.key THEN resolved \cup {key} ELSE resolved
           /\ Settled(c, me.header, me.now, me.document,
                      IF key = me.header.key THEN Decided(me.header, me.document) ELSE 401)
      /\ UNCHANGED <<tenantVars, discovery>>

(* A failed fetch empties the key set; the document stays.                   *)
KeysFail(c) ==
  /\ caller[c].at = "keys"
  /\ keySet' = [key |-> None, time |-> 0]
  /\ Settled(c, caller[c].header, caller[c].now, caller[c].document, 401)
  /\ UNCHANGED <<tenantVars, discovery, resolved>>

Tick ==
  /\ clock < MaxTicks
  /\ clock' = clock + 1
  /\ lastServed' = [lastServed EXCEPT ![version] = clock + 1]
  /\ UNCHANGED <<settings, version, signing, discovery, keySet, resolved, caller>>

Rotate ==
  /\ version < MaxRotations
  /\ version' = version + 1
  /\ lastServed' = [lastServed EXCEPT ![version + 1] = clock]
  /\ UNCHANGED <<settings, clock, signing, discovery, keySet, resolved, caller>>

(* The key before is withdrawn.                                              *)
RotateKey ==
  /\ signing < MaxRotations
  /\ signing' = signing + 1
  /\ UNCHANGED <<settings, clock, version, lastServed, discovery, keySet, resolved, caller>>

-----------------------------------------------------------------------------
AuthInit ==
  /\ settings \in AuthSettings
  /\ clock = 0
  /\ version = 0
  /\ lastServed = [v \in 0 .. MaxRotations |-> 0]
  /\ signing = 0
  /\ discovery = [document |-> None, time |-> 0]
  /\ keySet = [key |-> None, time |-> 0]
  /\ resolved = {}
  /\ caller = [c \in Callers |-> NewCaller]

AuthNext ==
  \/ \E c \in Callers, header \in Authorizations : RequireBearer(c, header)
  \/ \E c \in Callers :
       \/ TenantAnswers(c) \/ KeepDocument(c) \/ FetchFails(c)
       \/ FetchKeys(c) \/ KeysFail(c)
  \/ Tick
  \/ Rotate
  \/ RotateKey

AuthSpec == AuthInit /\ [][AuthNext]_authVars

-----------------------------------------------------------------------------
(* A request is let in only with the static token where the mode takes it,   *)
(* or with a token of the tenant for this service and for an application     *)
(* that is allowed.  Its issuer is the pinned one or that of a document that *)
(* the tenant served within the lifetime of the cache before the request     *)
(* looked at the clock, whatever fetches overlapped and in whatever order    *)
(* they ended.  Its key is one the tenant really published by now: nothing   *)
(* more, for a key that a token was once found to be signed with is accepted *)
(* for the life of the process, withdrawn or not.                            *)
AcceptedIsTrusted ==
  \A c \in Callers :
    LET me == caller[c]
    IN  me.status = 200 =>
          \/ /\ settings.mode # "aad"
             /\ me.header.kind = "static"
             /\ me.header.token = settings.secret
          \/ /\ settings.mode # "static"
             /\ AadConfigured /\ settings.pyjwt
             /\ me.header.kind = "jwt" /\ me.header.audience
             /\ settings.apps = {} \/ me.header.app \in settings.apps
             /\ me.header.key \in 0 .. signing
             /\ me.header.issuer = Issuer(me.document)
             /\ "issuer" \in settings.pinned \/ lastServed[me.document] > me.now - Lifetime
=============================================================================
