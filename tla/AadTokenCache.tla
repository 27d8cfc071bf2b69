----------------------------- MODULE AadTokenCache -----------------------------
(***************************************************************************)
(* The bearer token that all Azure guards share: get_bearer_token of       *)
(* guardrails-service/app/core/aad_cache.py for one scope, called by guard *)
(* tasks that the pipeline may cancel.                                     *)
(*                                                                         *)
(* A token is abstracted to its age: "fresh" until REFRESH_SKEW_SECONDS    *)
(* before its expiry, "due" from then on, "expired" in the end.  asyncio   *)
(* runs one task at a time, so the steps below are the stretches of code   *)
(* between two awaits; the token is fetched by a thread of the executor.   *)
(***************************************************************************)
EXTENDS Naturals, Sequences, FiniteSets

CONSTANTS
  Callers,      (* calls of get_bearer_token, each by a guard's task         *)
  NoCaller,
  MaxAgings     (* bound: how often a token becomes due                     *)

ASSUME CacheAssumption ==
  /\ IsFiniteSet(Callers)
  /\ NoCaller \notin Callers
  /\ MaxAgings \in Nat

Ages == {"fresh", "due", "expired"}

VARIABLES
  cached,     (* the age of the token in _tokens, or "none"                  *)
  pc,         (* of each caller                                              *)
  holder,     (* the holder of the scope's asyncio.Lock                      *)
  waiters,    (* the lock's queue                                            *)
  thread,     (* of each caller's fetch: the executor's future               *)
  got,        (* what each caller was handed                                 *)
  agings,     (* ghost: cached tokens that have become due                   *)
  fetches,    (* ghost: fetches begun                                        *)
  spent       (* ghost: fetches that put no fresh token into the cache       *)

vars == <<cached, pc, holder, waiters, thread, got, agings, fetches, spent>>

Return(c, token) ==
  /\ pc' = [pc EXCEPT ![c] = "returned"]
  /\ got' = [got EXCEPT ![c] = token]

(* asyncio.Lock: the first waiter is next.                                   *)
Release ==
  IF waiters = << >> THEN holder' = NoCaller /\ UNCHANGED waiters
  ELSE holder' = Head(waiters) /\ waiters' = Tail(waiters)

LeaveQueue(c) ==
  /\ \E i \in DOMAIN waiters :
       /\ waiters[i] = c
       /\ waiters' = SubSeq(waiters, 1, i - 1) \o SubSeq(waiters, i + 1, Len(waiters))
  /\ UNCHANGED holder

(* Seeded fault: the skew is not taken off the expiry.                       *)
CallFastDue(c) ==
  /\ pc[c] = "idle"
  /\ cached \in {"fresh", "due"}
  /\ Return(c, cached)
  /\ UNCHANGED <<cached, holder, waiters, thread, agings, fetches, spent>>

(* The fast path takes no lock.                                              *)
CallFast(c) ==
  /\ pc[c] = "idle"
  /\ cached = "fresh"
  /\ Return(c, "fresh")
  /\ UNCHANGED <<cached, holder, waiters, thread, agings, fetches, spent>>

StartThread(c) ==
  /\ pc' = [pc EXCEPT ![c] = "fetching"]
  /\ thread' = [thread EXCEPT ![c] = "running"]
  /\ fetches' = fetches + 1

(* A free lock is taken, and the fetch begun, without an await.              *)
CallSlow(c) ==
  /\ pc[c] = "idle"
  /\ cached # "fresh"
  /\ IF holder = NoCaller
     THEN holder' = c /\ StartThread(c) /\ UNCHANGED waiters
     ELSE /\ waiters' = Append(waiters, c)
          /\ pc' = [pc EXCEPT ![c] = "locking"]
          /\ UNCHANGED <<holder, thread, fetches>>
  /\ UNCHANGED <<cached, got, agings, spent>>

(* Seeded fault: the cache is not looked at again before a fetch.            *)
BeginFetchAlways(c) ==
  /\ pc[c] = "locking"
  /\ holder = c
  /\ StartThread(c)
  /\ UNCHANGED <<cached, holder, waiters, got, agings, spent>>

(* A waiter that is given the lock looks at the cache again.                 *)
UseRefreshed(c) ==
  /\ pc[c] = "locking"
  /\ holder = c
  /\ cached = "fresh"
  /\ Return(c, "fresh")
  /\ Release
  /\ UNCHANGED <<cached, thread, agings, fetches, spent>>

BeginFetch(c) ==
  /\ pc[c] = "locking"
  /\ holder = c
  /\ cached # "fresh"
  /\ StartThread(c)
  /\ UNCHANGED <<cached, holder, waiters, got, agings, spent>>

(* The credential answers in its thread: a token with more or less than the  *)
(* skew to live, or an exception.                                            *)
ThreadEnds(c) ==
  /\ thread[c] = "running"
  /\ \E result \in {"fresh", "due", "error"} : thread' = [thread EXCEPT ![c] = result]
  /\ UNCHANGED <<cached, pc, holder, waiters, got, agings, fetches, spent>>

(* Seeded faults: an error leaves the lock's block without releasing it; the *)
(* error is cached like a token.                                             *)
FinishFetchStuck(c) ==
  /\ pc[c] = "fetching"
  /\ holder = c
  /\ thread[c] \in {"fresh", "due", "error"}
  /\ IF thread[c] = "error"
     THEN Return(c, "none") /\ spent' = spent + 1 /\ UNCHANGED <<cached, holder, waiters>>
     ELSE /\ cached' = thread[c]
          /\ spent' = IF thread[c] = "fresh" THEN spent ELSE spent + 1
          /\ Return(c, thread[c])
          /\ Release
  /\ thread' = [thread EXCEPT ![c] = "none"]
  /\ UNCHANGED <<agings, fetches>>

FinishFetchCachesError(c) ==
  /\ pc[c] = "fetching"
  /\ holder = c
  /\ thread[c] \in {"fresh", "due", "error"}
  /\ cached' = thread[c]
  /\ Return(c, "none")
  /\ spent' = IF thread[c] = "fresh" THEN spent ELSE spent + 1
  /\ thread' = [thread EXCEPT ![c] = "none"]
  /\ Release
  /\ UNCHANGED <<agings, fetches>>

(* The token is cached and handed out; after an error the cache is left as   *)
(* it was and the caller gets nothing.                                       *)
FinishFetch(c) ==
  /\ pc[c] = "fetching"
  /\ holder = c
  /\ thread[c] \in {"fresh", "due", "error"}
  /\ IF thread[c] = "error"
     THEN Return(c, "none") /\ UNCHANGED cached
     ELSE Return(c, thread[c]) /\ cached' = thread[c]
  /\ spent' = IF thread[c] = "fresh" THEN spent ELSE spent + 1
  /\ thread' = [thread EXCEPT ![c] = "none"]
  /\ Release
  /\ UNCHANGED <<agings, fetches>>

(* Seeded fault: a cancelled waiter stays in the queue.                      *)
CancelStaysQueued(c) ==
  /\ pc[c] \in {"locking", "fetching"}
  /\ pc' = [pc EXCEPT ![c] = "cancelled"]
  /\ IF holder = c THEN Release ELSE UNCHANGED <<holder, waiters>>
  /\ spent' = IF pc[c] = "fetching" THEN spent + 1 ELSE spent
  /\ UNCHANGED <<cached, thread, got, agings, fetches>>

(* The pipeline cancels the guard: a waiter leaves the queue, the holder     *)
(* releases the lock, and whatever its thread still fetches is dropped.      *)
Cancel(c) ==
  /\ pc[c] \in {"locking", "fetching"}
  /\ pc' = [pc EXCEPT ![c] = "cancelled"]
  /\ IF holder = c THEN Release ELSE LeaveQueue(c)
  /\ spent' = IF pc[c] = "fetching" THEN spent + 1 ELSE spent
  /\ UNCHANGED <<cached, thread, got, agings, fetches>>

(* Time passes.                                                              *)
Age ==
  /\ \/ cached = "fresh" /\ agings < MaxAgings /\ cached' = "due" /\ agings' = agings + 1
     \/ cached = "due" /\ cached' = "expired" /\ UNCHANGED agings
  /\ UNCHANGED <<pc, holder, waiters, thread, got, fetches, spent>>

-----------------------------------------------------------------------------
Init ==
  /\ cached \in {"none", "fresh"}
  /\ pc = [c \in Callers |-> "idle"]
  /\ holder = NoCaller
  /\ waiters = << >>
  /\ thread = [c \in Callers |-> "none"]
  /\ got = [c \in Callers |-> "none"]
  /\ agings = 0
  /\ fetches = 0
  /\ spent = 0

Progress(c) ==
  \/ CallFast(c)
  \/ CallSlow(c)
  \/ UseRefreshed(c)
  \/ BeginFetch(c)
  \/ ThreadEnds(c)
  \/ FinishFetch(c)

Next == Age \/ \E c \in Callers : Progress(c) \/ Cancel(c)

(* The event loop runs every task that can go on, and the credential answers *)
(* or gives up: its transports have timeouts.                                *)
Spec == Init /\ [][Next]_vars /\ \A c \in Callers : WF_vars(Progress(c))

-----------------------------------------------------------------------------
(* The type of every variable.                                               *)
TypeOK ==
  /\ cached \in Ages \cup {"none"}
  /\ pc \in [Callers -> {"idle", "locking", "fetching", "returned", "cancelled"}]
  /\ holder \in Callers \cup {NoCaller}
  /\ waiters \in Seq(Callers)
  /\ thread \in [Callers -> {"none", "running", "fresh", "due", "error"}]
  /\ got \in [Callers -> {"none", "fresh", "due"}]
  /\ agings \in 0 .. MaxAgings
  /\ fetches \in Nat
  /\ spent \in Nat

(* However callers are cancelled, the lock is held by exactly the caller at  *)
(* work on the token, nobody waits for a free lock, and the queue names all  *)
(* the callers that still want it and no others, once each.                  *)
LockIsSound ==
  /\ holder # NoCaller => pc[holder] \in {"locking", "fetching"}
  /\ holder = NoCaller => waiters = << >>
  /\ \A c \in Callers : pc[c] = "fetching" => holder = c
  /\ \A i \in DOMAIN waiters : pc[waiters[i]] = "locking" /\ waiters[i] # holder
  /\ \A i, j \in DOMAIN waiters : waiters[i] = waiters[j] => i = j
  /\ \A c \in Callers : pc[c] = "locking" /\ holder # c => \E i \in DOMAIN waiters : waiters[i] = c

(* Concurrent refreshes are coalesced: fetches beyond the first are each     *)
(* paid for by one that failed, was cancelled or brought a token already     *)
(* due, or by a token that has aged since.                                   *)
RefreshesAreCoalesced == fetches <= 1 + spent + agings

(* A token taken from the cache is never due when it is handed out, and no   *)
(* fetched token replaces a fresh one.                                       *)
FreshTokensStay ==
  [][/\ (cached = "fresh" /\ cached' # cached) => agings' = agings + 1
     /\ \A c \in Callers : got'[c] # got[c] /\ pc[c] # "fetching" => cached = "fresh"]_vars

(* Every caller gets an answer or is cancelled: no cancellation and no error *)
(* keeps the lock.                                                           *)
EveryCallerIsServed == \A c \in Callers : <>(pc[c] \in {"returned", "cancelled"})
=============================================================================
