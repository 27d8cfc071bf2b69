-------------------------- MODULE AadTokenCacheProofs --------------------------
(***************************************************************************)
(* Proofs about the token cache, for any finite set of callers and any     *)
(* number of tokens that become due.                                       *)
(***************************************************************************)
EXTENDS AadTokenCache, SequenceTheorems, TLAPS

(* The two places a fetch can be besides "spent": under way, or in the cache *)
(* as a token that is still fresh.                                           *)
Fetching == IF \E c \in Callers : pc[c] = "fetching" THEN 1 ELSE 0
Holding  == IF cached = "fresh" THEN 1 ELSE 0

(* Every fetch is under way, spent, or has brought a token that is fresh or  *)
(* has aged.                                                                 *)
FetchesAreCounted == fetches <= spent + agings + Holding + Fetching

(* Nobody puts a token into the cache while the lock's holder fetches one.   *)
FetchIsNeeded == \A c \in Callers : pc[c] = "fetching" => cached # "fresh"

IInv ==
  /\ TypeOK
  /\ LockIsSound
  /\ FetchesAreCounted
  /\ FetchIsNeeded

-----------------------------------------------------------------------------
(***************************************************************************)
(* The lock.                                                               *)
(***************************************************************************)

(* The sequence without its i-th element, by index.                          *)
LEMMA WithoutOne ==
  ASSUME NEW S, NEW s \in Seq(S), NEW i \in 1 .. Len(s), NEW t,
         t = SubSeq(s, 1, i - 1) \o SubSeq(s, i + 1, Len(s))
  PROVE  /\ t \in Seq(S)
         /\ Len(t) = Len(s) - 1
         /\ \A j \in 1 .. Len(t) : t[j] = s[IF j < i THEN j ELSE j + 1]
<1> DEFINE a == SubSeq(s, 1, i - 1)
           b == SubSeq(s, i + 1, Len(s))
<1>1. Len(s) \in Nat /\ i \in Nat /\ 1 <= i /\ i <= Len(s)
  BY LenProperties
<1>2. a \in Seq(S) /\ Len(a) = i - 1 /\ \A j \in 1 .. i - 1 : a[j] = s[j]
  BY <1>1
<1>3. b \in Seq(S) /\ Len(b) = Len(s) - i /\ \A j \in 1 .. Len(s) - i : b[j] = s[i + j]
  BY <1>1
<1> HIDE DEF a, b
<1>4. /\ t \in Seq(S)
      /\ Len(t) = Len(a) + Len(b)
      /\ \A j \in 1 .. Len(a) + Len(b) : t[j] = IF j <= Len(a) THEN a[j] ELSE b[j - Len(a)]
  BY <1>2, <1>3, ConcatProperties DEF a, b
<1>5. Len(t) = Len(s) - 1
  <2>1. Len(t) = Len(a) + Len(b) /\ Len(a) = i - 1 /\ Len(b) = Len(s) - i
    BY <1>2, <1>3, <1>4
  <2>2. (i - 1) + (Len(s) - i) = Len(s) - 1
    BY <1>1
  <2>3. QED
    BY <2>1, <2>2
<1>6. ASSUME NEW j \in 1 .. Len(s) - 1, j < i
      PROVE  t[j] = s[j]
  <2>1. j \in 1 .. i - 1 /\ j \in 1 .. Len(a) + Len(b) /\ j <= Len(a)
    BY <1>1, <1>2, <1>3, <1>6
  <2>2. QED
    BY <1>2, <1>4, <2>1
<1>7. ASSUME NEW j \in 1 .. Len(s) - 1, ~ (j < i)
      PROVE  t[j] = s[j + 1]
  <2>1. j \in 1 .. Len(a) + Len(b) /\ ~ (j <= Len(a))
    BY <1>1, <1>2, <1>3, <1>7
  <2>2. j - Len(a) \in 1 .. Len(s) - i /\ i + (j - Len(a)) = j + 1
    BY <1>1, <1>2, <1>3, <1>7
  <2>3. QED
    BY <1>3, <1>4, <2>1, <2>2
<1>8. QED
  BY <1>4, <1>5, <1>6, <1>7

(* The holder is done: the first waiter has the lock, or it is free.         *)
LEMMA ReleaseIsSound ==
  ASSUME TypeOK, LockIsSound, NEW c \in Callers, NEW p \in {"returned", "cancelled"},
         holder = c, pc' = [pc EXCEPT ![c] = p], Release
  PROVE  LockIsSound' /\ waiters' \in Seq(Callers) /\ holder' \in Callers \cup {NoCaller}
<1>1. waiters \in Seq(Callers) /\ Len(waiters) \in Nat /\ DOMAIN waiters = 1 .. Len(waiters)
  BY LenProperties DEF TypeOK
<1>2. pc'[c] = p /\ \A d \in Callers \ {c} : pc'[d] = pc[d] /\ pc[d] # "fetching"
  BY DEF TypeOK, LockIsSound
<1>3. CASE waiters = << >>
  <2>1. holder' = NoCaller /\ waiters' = << >>
    BY <1>3 DEF Release
  <2>2. \A d \in Callers : pc'[d] \notin {"fetching", "locking"}
    BY <1>2, <1>3 DEF LockIsSound
  <2>3. QED
    BY <2>1, <2>2 DEF LockIsSound
<1>4. CASE waiters # << >>
  <2>1. /\ holder' = waiters[1]
        /\ waiters' \in Seq(Callers)
        /\ Len(waiters') = Len(waiters) - 1
        /\ \A j \in 1 .. Len(waiters') : waiters'[j] = waiters[j + 1]
    <3>1. holder' = Head(waiters) /\ waiters' = Tail(waiters)
      BY <1>4 DEF Release
    <3>2. Head(waiters) = waiters[1]
      BY <1>1, <1>4
    <3>3. QED
      BY <1>1, <1>4, <3>1, <3>2, HeadTailProperties
  <2>2. 1 \in 1 .. Len(waiters)
    BY <1>1, <1>4, EmptySeq
  <2>3. \A i \in 1 .. Len(waiters) :
          waiters[i] \in Callers /\ pc[waiters[i]] = "locking" /\ waiters[i] # c
    BY <1>1 DEF LockIsSound
  <2>4. \A i, j \in 1 .. Len(waiters) : waiters[i] = waiters[j] => i = j
    BY <1>1 DEF LockIsSound
  <2>5. holder' \in Callers /\ pc'[holder'] = "locking"
    BY <1>2, <2>1, <2>2, <2>3
  <2>6. \A d \in Callers : pc'[d] # "fetching"
    BY <1>2
  <2>7. \A j \in 1 .. Len(waiters') :
          /\ j + 1 \in 1 .. Len(waiters)
          /\ pc'[waiters'[j]] = "locking"
          /\ waiters'[j] # holder'
    BY <1>1, <1>2, <2>1, <2>2, <2>3, <2>4
  <2>8. \A i, j \in 1 .. Len(waiters') : waiters'[i] = waiters'[j] => i = j
    BY <1>1, <2>1, <2>4, <2>7
  <2>9. ASSUME NEW d \in Callers, pc'[d] = "locking", holder' # d
        PROVE  \E j \in 1 .. Len(waiters') : waiters'[j] = d
    <3>1. d # c /\ pc[d] = "locking"
      BY <1>2, <2>9
    <3>2. PICK i \in 1 .. Len(waiters) : waiters[i] = d
      BY <1>1, <3>1 DEF LockIsSound
    <3>3. i # 1
      BY <2>1, <2>9, <3>2
    <3>4. i - 1 \in 1 .. Len(waiters') /\ (i - 1) + 1 = i
      BY <1>1, <2>1, <3>2, <3>3
    <3>5. waiters'[i - 1] = d
      BY <2>1, <3>2, <3>4
    <3>6. QED
      BY <3>4, <3>5
  <2>10. holder' # NoCaller /\ DOMAIN waiters' = 1 .. Len(waiters')
    BY <2>1, <2>5, CacheAssumption
  <2>11. QED
    BY <2>1, <2>5, <2>6, <2>7, <2>8, <2>9, <2>10 DEF LockIsSound
<1>5. QED
  BY <1>3, <1>4

(* A waiter that is cancelled leaves the queue as it was for the others.     *)
LEMMA LeavingIsSound ==
  ASSUME TypeOK, LockIsSound, NEW c \in Callers, pc[c] \in {"locking", "fetching"}, holder # c,
         pc' = [pc EXCEPT ![c] = "cancelled"], LeaveQueue(c)
  PROVE  LockIsSound' /\ waiters' \in Seq(Callers) /\ holder' = holder
<1>1. waiters \in Seq(Callers) /\ Len(waiters) \in Nat /\ DOMAIN waiters = 1 .. Len(waiters)
  BY LenProperties DEF TypeOK
<1>2. PICK i \in 1 .. Len(waiters) :
        /\ waiters[i] = c
        /\ waiters' = SubSeq(waiters, 1, i - 1) \o SubSeq(waiters, i + 1, Len(waiters))
  BY <1>1 DEF LeaveQueue
<1> DEFINE At(j) == IF j < i THEN j ELSE j + 1
<1>3. /\ waiters' \in Seq(Callers)
      /\ Len(waiters') = Len(waiters) - 1
      /\ \A j \in 1 .. Len(waiters') : waiters'[j] = waiters[At(j)]
  <2> DEFINE rest == SubSeq(waiters, 1, i - 1) \o SubSeq(waiters, i + 1, Len(waiters))
  <2>1. /\ rest \in Seq(Callers)
        /\ Len(rest) = Len(waiters) - 1
        /\ \A j \in 1 .. Len(rest) : rest[j] = waiters[At(j)]
    BY <1>1, WithoutOne
  <2>2. waiters' = rest
    BY <1>2
  <2>3. QED
    BY <2>1, <2>2
<1>4. \A j \in 1 .. Len(waiters') : At(j) \in 1 .. Len(waiters) /\ At(j) # i
  BY <1>1, <1>3
<1>5. holder' = holder /\ pc[c] = "locking"
  BY DEF LeaveQueue, LockIsSound
<1>6. pc'[c] = "cancelled" /\ \A d \in Callers \ {c} : pc'[d] = pc[d]
  BY DEF TypeOK
<1>7. \A j, k \in 1 .. Len(waiters) : waiters[j] = waiters[k] => j = k
  BY <1>1 DEF LockIsSound
<1>8. \A j \in 1 .. Len(waiters) :
        waiters[j] \in Callers /\ pc[waiters[j]] = "locking" /\ waiters[j] # holder
  BY <1>1 DEF LockIsSound
<1>9. holder # NoCaller
  BY <1>1, <1>2 DEF LockIsSound
<1>10. holder' \in Callers /\ pc'[holder'] \in {"locking", "fetching"}
  BY <1>5, <1>6, <1>9 DEF LockIsSound, TypeOK
<1>11. \A d \in Callers : pc'[d] = "fetching" => holder' = d
  BY <1>5, <1>6 DEF LockIsSound
<1>12. \A j \in 1 .. Len(waiters') : pc'[waiters'[j]] = "locking" /\ waiters'[j] # holder'
  <2>1. \A j \in 1 .. Len(waiters') : waiters[At(j)] # c
    BY <1>2, <1>4, <1>7
  <2>2. QED
    BY <1>3, <1>4, <1>5, <1>6, <1>8, <2>1
<1>13. \A j, k \in 1 .. Len(waiters') : waiters'[j] = waiters'[k] => j = k
  <2>1. ASSUME NEW j \in 1 .. Len(waiters'), NEW k \in 1 .. Len(waiters'),
               waiters'[j] = waiters'[k]
        PROVE  j = k
    <3>1. waiters[At(j)] = waiters[At(k)]
      BY <1>3, <2>1
    <3>2. At(j) = At(k)
      <4> HIDE DEF At
      <4>1. QED
        BY <1>4, <1>7, <3>1
    <3>3. QED
      BY <1>1, <1>3, <3>2
  <2>2. QED
    BY <2>1
<1>14. ASSUME NEW d \in Callers, pc'[d] = "locking", holder' # d
       PROVE  \E j \in 1 .. Len(waiters') : waiters'[j] = d
  <2>1. d # c /\ pc[d] = "locking" /\ holder # d
    BY <1>5, <1>6, <1>14
  <2>2. PICK k \in 1 .. Len(waiters) : waiters[k] = d
    BY <1>1, <2>1 DEF LockIsSound
  <2>3. k # i
    BY <1>2, <2>1, <2>2
  <2>4. CASE k < i
    <3>1. k \in 1 .. Len(waiters') /\ At(k) = k
      BY <1>1, <1>3, <2>4
    <3>2. QED
      BY <1>3, <2>2, <3>1
  <2>5. CASE k > i
    <3>1. k - 1 \in 1 .. Len(waiters') /\ At(k - 1) = k
      BY <1>1, <1>3, <2>5
    <3>2. QED
      BY <1>3, <2>2, <3>1
  <2>6. QED
    BY <1>1, <2>2, <2>3, <2>4, <2>5
<1>15. DOMAIN waiters' = 1 .. Len(waiters') /\ holder' # NoCaller
  BY <1>3, <1>5, <1>9
<1>16. QED
  BY <1>3, <1>5, <1>10, <1>11, <1>12, <1>13, <1>14, <1>15 DEF LockIsSound

(* A new waiter goes to the end of the queue.                                *)
LEMMA JoiningIsSound ==
  ASSUME TypeOK, LockIsSound, NEW c \in Callers, pc[c] = "idle", holder # NoCaller,
         pc' = [pc EXCEPT ![c] = "locking"], waiters' = Append(waiters, c), UNCHANGED holder
  PROVE  LockIsSound' /\ waiters' \in Seq(Callers)
<1>1. waiters \in Seq(Callers) /\ Len(waiters) \in Nat /\ DOMAIN waiters = 1 .. Len(waiters)
  BY LenProperties DEF TypeOK
<1>2. /\ waiters' \in Seq(Callers)
      /\ Len(waiters') = Len(waiters) + 1
      /\ waiters'[Len(waiters) + 1] = c
      /\ \A j \in 1 .. Len(waiters) : waiters'[j] = waiters[j]
  BY <1>1, AppendProperties
<1>3. pc'[c] = "locking" /\ \A d \in Callers \ {c} : pc'[d] = pc[d]
  BY DEF TypeOK
<1>4. \A j \in 1 .. Len(waiters) :
        waiters[j] \in Callers /\ pc[waiters[j]] = "locking" /\ waiters[j] # holder
  BY <1>1 DEF LockIsSound
<1>5. holder \in Callers /\ pc[holder] \in {"locking", "fetching"} /\ holder # c
  BY DEF LockIsSound, TypeOK
<1>6. \A j \in 1 .. Len(waiters') : j \in 1 .. Len(waiters) \/ j = Len(waiters) + 1
  BY <1>1, <1>2
<1>7. \A j \in 1 .. Len(waiters') : pc'[waiters'[j]] = "locking" /\ waiters'[j] # holder'
  BY <1>2, <1>3, <1>4, <1>5, <1>6
<1>8. \A j, k \in 1 .. Len(waiters') : waiters'[j] = waiters'[k] => j = k
  <2>1. \A j, k \in 1 .. Len(waiters) : waiters[j] = waiters[k] => j = k
    BY <1>1 DEF LockIsSound
  <2>2. \A j \in 1 .. Len(waiters) : waiters[j] # c
    BY <1>4
  <2>3. QED
    BY <1>2, <1>6, <2>1, <2>2
<1>9. ASSUME NEW d \in Callers, pc'[d] = "locking", holder' # d
      PROVE  \E j \in 1 .. Len(waiters') : waiters'[j] = d
  <2>1. CASE d = c
    <3>1. Len(waiters) + 1 \in 1 .. Len(waiters')
      BY <1>1, <1>2
    <3>2. QED
      BY <1>2, <2>1, <3>1
  <2>2. CASE d # c
    <3>1. PICK j \in 1 .. Len(waiters) : waiters[j] = d
      BY <1>1, <1>3, <1>9, <2>2 DEF LockIsSound
    <3>2. j \in 1 .. Len(waiters')
      BY <1>1, <1>2
    <3>3. QED
      BY <1>2, <3>1, <3>2
  <2>3. QED
    BY <2>1, <2>2
<1>10. /\ holder' # NoCaller
       /\ pc'[holder'] \in {"locking", "fetching"}
       /\ \A d \in Callers : pc'[d] = "fetching" => holder' = d
       /\ DOMAIN waiters' = 1 .. Len(waiters')
  BY <1>2, <1>3, <1>5 DEF LockIsSound
<1>11. QED
  BY <1>2, <1>7, <1>8, <1>9, <1>10 DEF LockIsSound

(* The queue and the lock are as they were, and so are their callers.        *)
LEMMA LockUntouched ==
  ASSUME TypeOK, LockIsSound, NEW c \in Callers, pc[c] = "idle",
         pc' = [pc EXCEPT ![c] = "returned"], UNCHANGED <<holder, waiters>>
  PROVE  LockIsSound'
<1>1. pc'[c] = "returned" /\ \A d \in Callers \ {c} : pc'[d] = pc[d]
  BY DEF TypeOK
<1>2. \A i \in DOMAIN waiters : waiters[i] \in Callers
  BY DEF TypeOK
<1>3. QED
  BY <1>1, <1>2 DEF LockIsSound, TypeOK

(* The lock's holder begins its fetch: only its own place changes.           *)
LEMMA FetchingIsSound ==
  ASSUME TypeOK, LockIsSound, NEW c \in Callers, pc[c] \in {"idle", "locking"},
         holder' = c, holder = c \/ (holder = NoCaller /\ pc[c] = "idle"),
         pc' = [pc EXCEPT ![c] = "fetching"], UNCHANGED waiters
  PROVE  LockIsSound'
<1>1. pc'[c] = "fetching" /\ \A d \in Callers \ {c} : pc'[d] = pc[d] /\ pc[d] # "fetching"
  BY CacheAssumption DEF TypeOK, LockIsSound
<1>2. \A i \in DOMAIN waiters : waiters[i] \in Callers /\ waiters[i] # c
  BY DEF TypeOK, LockIsSound
<1>3. c # NoCaller
  BY CacheAssumption
<1>4. holder = NoCaller => waiters = << >> /\ \A d \in Callers : pc[d] # "locking"
  <2>1. DOMAIN << >> = {}
    BY EmptySeq
  <2>2. QED
    BY <2>1, CacheAssumption DEF LockIsSound
<1>5. \A i \in DOMAIN waiters : pc'[waiters[i]] = "locking" /\ waiters[i] # holder'
  BY <1>1, <1>2 DEF LockIsSound
<1>6. \A i, j \in DOMAIN waiters : waiters[i] = waiters[j] => i = j
  BY DEF LockIsSound
<1>7. ASSUME NEW d \in Callers, pc'[d] = "locking", holder' # d
      PROVE  \E i \in DOMAIN waiters : waiters[i] = d
  <2>1. pc[d] = "locking" /\ holder = c
    BY <1>1, <1>4, <1>7
  <2>2. QED
    BY <1>7, <2>1 DEF LockIsSound
<1>8. QED
  BY <1>1, <1>3, <1>5, <1>6, <1>7 DEF LockIsSound

-----------------------------------------------------------------------------
(***************************************************************************)
(* The count of fetches.                                                   *)
(***************************************************************************)

(* What leaves one term of the count goes into another.                      *)
LEMMA Moved ==
  ASSUME NEW a \in Nat, NEW a1 \in Nat, NEW h \in Nat, NEW h1 \in Nat,
         NEW s \in Nat, NEW k \in Nat, NEW f \in Nat,
         a1 + h1 = a + h, f <= s + a + h + k
  PROVE  f <= s + a1 + h1 + k
OBVIOUS

LEMMA NoneFetching ==
  ASSUME \A c \in Callers : pc[c] # "fetching"
  PROVE  Fetching = 0
BY DEF Fetching

(* When the only fetch there is ends, none is under way.                     *)
LEMMA FetchOver ==
  ASSUME TypeOK, LockIsSound, NEW c \in Callers, NEW p \in {"returned", "cancelled"},
         pc[c] = "fetching", pc' = [pc EXCEPT ![c] = p]
  PROVE  Fetching = 1 /\ Fetching' = 0 /\ holder = c /\ \A d \in Callers : pc'[d] # "fetching"
<1>1. holder = c /\ \A d \in Callers \ {c} : pc[d] # "fetching"
  BY DEF LockIsSound
<1>2. \A d \in Callers : pc'[d] # "fetching"
  BY <1>1 DEF TypeOK
<1>3. QED
  BY <1>1, <1>2 DEF Fetching

(* A caller that is not fetching moves to another place that is not.         *)
LEMMA FetchingSame ==
  ASSUME TypeOK, NEW c \in Callers, pc[c] # "fetching",
         NEW p \in {"locking", "returned", "cancelled"}, pc' = [pc EXCEPT ![c] = p]
  PROVE  Fetching' = Fetching /\ \A d \in Callers : pc'[d] = "fetching" => pc[d] = "fetching"
<1>1. \A d \in Callers : pc'[d] = "fetching" <=> pc[d] = "fetching"
  BY DEF TypeOK
<1>2. QED
  BY <1>1 DEF Fetching

-----------------------------------------------------------------------------
(***************************************************************************)
(* The steps.                                                              *)
(***************************************************************************)
LEMMA InitHolds == ASSUME Init PROVE IInv
<1>1. TypeOK
  BY CacheAssumption DEF Init, TypeOK, Ages
<1>2. LockIsSound
  BY DEF Init, LockIsSound
<1>3. FetchesAreCounted /\ FetchIsNeeded
  BY DEF Init, FetchesAreCounted, FetchIsNeeded, Holding, Fetching
<1>4. QED
  BY <1>1, <1>2, <1>3 DEF IInv

LEMMA CallFastKeeps ==
  ASSUME IInv, NEW c \in Callers, CallFast(c)
  PROVE  IInv'
<1>1. /\ pc[c] = "idle"
      /\ pc' = [pc EXCEPT ![c] = "returned"]
      /\ got' = [got EXCEPT ![c] = "fresh"]
      /\ UNCHANGED <<cached, holder, waiters, thread, agings, fetches, spent>>
  BY DEF CallFast, Return
<1>2. TypeOK'
  BY <1>1 DEF IInv, TypeOK
<1>3. LockIsSound'
  BY <1>1, LockUntouched DEF IInv
<1>4. Fetching' = Fetching /\ \A d \in Callers : pc'[d] = "fetching" => pc[d] = "fetching"
  BY <1>1, FetchingSame DEF IInv
<1>5. FetchesAreCounted' /\ FetchIsNeeded'
  BY <1>1, <1>4 DEF IInv, FetchesAreCounted, FetchIsNeeded, Holding
<1>6. QED
  BY <1>2, <1>3, <1>5 DEF IInv

(* The step that begins a fetch, with the lock free or just granted.         *)
LEMMA FetchKeeps ==
  ASSUME IInv, NEW c \in Callers, pc[c] \in {"idle", "locking"}, cached # "fresh",
         holder' = c, holder = c \/ (holder = NoCaller /\ pc[c] = "idle"), StartThread(c),
         UNCHANGED <<cached, waiters, got, agings, spent>>
  PROVE  IInv'
<1>1. /\ pc' = [pc EXCEPT ![c] = "fetching"]
      /\ thread' = [thread EXCEPT ![c] = "running"]
      /\ fetches' = fetches + 1
  BY DEF StartThread
<1>2. TypeOK'
  BY <1>1 DEF IInv, TypeOK
<1>3. LockIsSound'
  BY <1>1, FetchingIsSound DEF IInv
<1>4. FetchesAreCounted'
  <2>1. Fetching = 0
    <3>1. \A d \in Callers : pc[d] # "fetching"
      BY CacheAssumption DEF IInv, LockIsSound
    <3>2. QED
      BY <3>1, NoneFetching
  <2>2. Fetching' = 1
    BY <1>1 DEF IInv, TypeOK, Fetching
  <2>3. Holding' = Holding
    BY DEF Holding
  <2>4. fetches <= spent + agings + Holding
    BY <2>1 DEF IInv, TypeOK, FetchesAreCounted, Holding
  <2>5. QED
    BY <1>1, <2>2, <2>3, <2>4 DEF IInv, TypeOK, FetchesAreCounted, Holding
<1>5. FetchIsNeeded'
  BY DEF FetchIsNeeded
<1>6. QED
  BY <1>2, <1>3, <1>4, <1>5 DEF IInv

LEMMA CallSlowKeeps ==
  ASSUME IInv, NEW c \in Callers, CallSlow(c)
  PROVE  IInv'
<1>1. CASE holder = NoCaller
  BY <1>1, FetchKeeps DEF CallSlow
<1>2. CASE holder # NoCaller
  <2>1. /\ pc[c] = "idle"
        /\ waiters' = Append(waiters, c)
        /\ pc' = [pc EXCEPT ![c] = "locking"]
        /\ UNCHANGED <<cached, holder, thread, got, agings, fetches, spent>>
    BY <1>2 DEF CallSlow
  <2>2. LockIsSound' /\ waiters' \in Seq(Callers)
    BY <1>2, <2>1, JoiningIsSound DEF IInv
  <2>3. TypeOK'
    BY <2>1, <2>2 DEF IInv, TypeOK
  <2>4. Fetching' = Fetching /\ \A d \in Callers : pc'[d] = "fetching" => pc[d] = "fetching"
    BY <2>1, FetchingSame DEF IInv
  <2>5. FetchesAreCounted' /\ FetchIsNeeded'
    BY <2>1, <2>4 DEF IInv, FetchesAreCounted, FetchIsNeeded, Holding
  <2>6. QED
    BY <2>2, <2>3, <2>5 DEF IInv
<1>3. QED
  BY <1>1, <1>2

LEMMA UseRefreshedKeeps ==
  ASSUME IInv, NEW c \in Callers, UseRefreshed(c)
  PROVE  IInv'
<1>1. /\ pc[c] = "locking" /\ holder = c
      /\ pc' = [pc EXCEPT ![c] = "returned"]
      /\ got' = [got EXCEPT ![c] = "fresh"]
      /\ Release
      /\ UNCHANGED <<cached, thread, agings, fetches, spent>>
  BY DEF UseRefreshed, Return
<1>2. LockIsSound' /\ waiters' \in Seq(Callers) /\ holder' \in Callers \cup {NoCaller}
  BY <1>1, ReleaseIsSound DEF IInv
<1>3. TypeOK'
  BY <1>1, <1>2 DEF IInv, TypeOK
<1>4. Fetching' = Fetching /\ \A d \in Callers : pc'[d] = "fetching" => pc[d] = "fetching"
  BY <1>1, FetchingSame DEF IInv
<1>5. FetchesAreCounted' /\ FetchIsNeeded'
  BY <1>1, <1>4 DEF IInv, FetchesAreCounted, FetchIsNeeded, Holding
<1>6. QED
  BY <1>2, <1>3, <1>5 DEF IInv

LEMMA ThreadEndsKeeps ==
  ASSUME IInv, NEW c \in Callers, ThreadEnds(c)
  PROVE  IInv'
<1>1. PICK result \in {"fresh", "due", "error"} : thread' = [thread EXCEPT ![c] = result]
  BY DEF ThreadEnds
<1>2. UNCHANGED <<cached, pc, holder, waiters, got, agings, fetches, spent>>
  BY DEF ThreadEnds
<1>3. TypeOK'
  BY <1>1, <1>2 DEF IInv, TypeOK
<1>4. LockIsSound' /\ FetchesAreCounted' /\ FetchIsNeeded'
  BY <1>2 DEF IInv, LockIsSound, FetchesAreCounted, FetchIsNeeded, Holding, Fetching
<1>5. QED
  BY <1>3, <1>4 DEF IInv

(* A fetch is over: it has made the cached token fresh, or it is spent.      *)
LEMMA FinishFetchKeeps ==
  ASSUME IInv, NEW c \in Callers, FinishFetch(c)
  PROVE  IInv'
<1>1. /\ pc[c] = "fetching" /\ holder = c
      /\ pc' = [pc EXCEPT ![c] = "returned"]
      /\ Release
      /\ UNCHANGED <<agings, fetches>>
      /\ thread' = [thread EXCEPT ![c] = "none"]
  BY DEF FinishFetch, Return
<1>2. LockIsSound' /\ waiters' \in Seq(Callers) /\ holder' \in Callers \cup {NoCaller}
  BY <1>1, ReleaseIsSound DEF IInv
<1>3. Fetching = 1 /\ Fetching' = 0 /\ \A d \in Callers : pc'[d] # "fetching"
  BY <1>1, FetchOver DEF IInv
<1>4. cached # "fresh"
  BY <1>1 DEF IInv, FetchIsNeeded
<1>5. TypeOK'
  <2>1. cached' \in Ages \cup {"none"} /\ spent' \in Nat /\ got' \in [Callers -> {"none", "fresh", "due"}]
    BY DEF FinishFetch, Return, IInv, TypeOK, Ages
  <2>2. QED
    BY <1>1, <1>2, <2>1 DEF IInv, TypeOK
<1>6. FetchesAreCounted'
  <2>1. fetches <= spent + agings + 1
    BY <1>3, <1>4 DEF IInv, TypeOK, FetchesAreCounted, Holding
  <2>2. CASE thread[c] = "fresh"
    <3>1. spent' = spent /\ Holding' = 1
      BY <2>2 DEF FinishFetch, Return, Holding
    <3>2. QED
      BY <1>1, <1>3, <2>1, <3>1 DEF IInv, TypeOK, FetchesAreCounted
  <2>3. CASE thread[c] # "fresh"
    <3>1. spent' = spent + 1 /\ Holding' = 0
      BY <1>4, <2>3 DEF FinishFetch, Return, Holding
    <3>2. QED
      BY <1>1, <1>3, <2>1, <3>1 DEF IInv, TypeOK, FetchesAreCounted
  <2>4. QED
    BY <2>2, <2>3
<1>7. FetchIsNeeded'
  BY <1>3 DEF FetchIsNeeded
<1>8. QED
  BY <1>2, <1>5, <1>6, <1>7 DEF IInv

(* A cancelled fetch is spent; a cancelled waiter had begun none.            *)
LEMMA CancelKeeps ==
  ASSUME IInv, NEW c \in Callers, Cancel(c)
  PROVE  IInv'
<1>1. /\ pc[c] \in {"locking", "fetching"}
      /\ pc' = [pc EXCEPT ![c] = "cancelled"]
      /\ UNCHANGED <<cached, thread, got, agings, fetches>>
  BY DEF Cancel
<1>2. LockIsSound' /\ waiters' \in Seq(Callers) /\ holder' \in Callers \cup {NoCaller}
  <2>1. CASE holder = c
    BY <1>1, <2>1, ReleaseIsSound DEF IInv, Cancel
  <2>2. CASE holder # c
    <3>1. LockIsSound' /\ waiters' \in Seq(Callers) /\ holder' = holder
      BY <1>1, <2>2, LeavingIsSound DEF IInv, Cancel
    <3>2. QED
      BY <3>1 DEF IInv, TypeOK
  <2>3. QED
    BY <2>1, <2>2
<1>3. TypeOK'
  BY <1>1, <1>2 DEF Cancel, IInv, TypeOK
<1>4. FetchesAreCounted' /\ FetchIsNeeded'
  <2>1. CASE pc[c] = "fetching"
    <3>1. Fetching = 1 /\ Fetching' = 0 /\ \A d \in Callers : pc'[d] # "fetching"
      BY <1>1, <2>1, FetchOver DEF IInv
    <3>2. spent' = spent + 1 /\ Holding' = Holding /\ Holding \in Nat
      BY <1>1, <2>1 DEF Cancel, Holding
    <3>3. QED
      BY <1>1, <3>1, <3>2 DEF IInv, TypeOK, FetchesAreCounted, FetchIsNeeded
  <2>2. CASE pc[c] = "locking"
    <3>1. Fetching' = Fetching /\ \A d \in Callers : pc'[d] = "fetching" => pc[d] = "fetching"
      BY <1>1, <2>2, FetchingSame DEF IInv
    <3>2. spent' = spent /\ Holding' = Holding
      BY <1>1, <2>2 DEF Cancel, Holding
    <3>3. QED
      BY <1>1, <3>1, <3>2 DEF IInv, FetchesAreCounted, FetchIsNeeded
  <2>3. QED
    BY <1>1, <2>1, <2>2
<1>5. QED
  BY <1>2, <1>3, <1>4 DEF IInv

LEMMA AgeKeeps ==
  ASSUME IInv, Age
  PROVE  IInv'
<1>1. UNCHANGED <<pc, holder, waiters, thread, got, fetches, spent>>
  BY DEF Age
<1>2. TypeOK'
  BY CacheAssumption DEF Age, IInv, TypeOK, Ages
<1>3. LockIsSound'
  BY <1>1 DEF IInv, LockIsSound
<1>4. agings' + Holding' = agings + Holding
  BY DEF Age, Holding, IInv, TypeOK
<1>5. Fetching' = Fetching /\ Fetching \in Nat /\ Holding \in Nat /\ Holding' \in Nat
  BY <1>1 DEF Fetching, Holding
<1>6. FetchesAreCounted'
  <2>1. agings \in Nat /\ agings' \in Nat /\ fetches \in Nat /\ spent \in Nat
    BY <1>2 DEF IInv, TypeOK
  <2>2. fetches <= spent + agings + Holding + Fetching
    BY DEF IInv, FetchesAreCounted
  <2>3. fetches <= spent + agings' + Holding' + Fetching
    BY <1>4, <1>5, <2>1, <2>2, Moved
  <2>4. QED
    BY <1>1, <1>5, <2>3 DEF FetchesAreCounted
<1>7. FetchIsNeeded'
  BY <1>1 DEF Age, IInv, FetchIsNeeded
<1>8. QED
  BY <1>2, <1>3, <1>6, <1>7 DEF IInv

LEMMA StepKeeps == IInv /\ [Next]_vars => IInv'
<1> SUFFICES ASSUME IInv, [Next]_vars PROVE IInv'
  OBVIOUS
<1>1. ASSUME NEW c \in Callers, CallFast(c) PROVE IInv'
  BY <1>1, CallFastKeeps
<1>2. ASSUME NEW c \in Callers, CallSlow(c) PROVE IInv'
  BY <1>2, CallSlowKeeps
<1>3. ASSUME NEW c \in Callers, UseRefreshed(c) PROVE IInv'
  BY <1>3, UseRefreshedKeeps
<1>4. ASSUME NEW c \in Callers, BeginFetch(c) PROVE IInv'
  BY <1>4, FetchKeeps DEF BeginFetch
<1>5. ASSUME NEW c \in Callers, ThreadEnds(c) PROVE IInv'
  BY <1>5, ThreadEndsKeeps
<1>6. ASSUME NEW c \in Callers, FinishFetch(c) PROVE IInv'
  BY <1>6, FinishFetchKeeps
<1>7. ASSUME NEW c \in Callers, Cancel(c) PROVE IInv'
  BY <1>7, CancelKeeps
<1>8. CASE Age
  BY <1>8, AgeKeeps
<1>9. CASE UNCHANGED vars
  BY <1>9 DEF vars, IInv, TypeOK, LockIsSound, FetchesAreCounted, FetchIsNeeded, Holding, Fetching
<1>10. QED
  BY <1>1, <1>2, <1>3, <1>4, <1>5, <1>6, <1>7, <1>8, <1>9 DEF Next, Progress

(* The inductive invariant holds in every state.                             *)
LEMMA Invariance == Spec => []IInv
<1>1. Init => IInv
  BY InitHolds
<1>2. QED
  BY <1>1, StepKeeps, PTL DEF Spec

-----------------------------------------------------------------------------
(* Every variable of the cache, the lock and the callers keeps its type.     *)
THEOREM TypeCorrect == Spec => []TypeOK
<1>1. IInv => TypeOK
  BY DEF IInv
<1>2. QED
  BY <1>1, Invariance, PTL

(* The lock of get_bearer_token (aad_cache.py) stays with the caller at work *)
(* on the token, and its queue with those that want it, through every        *)
(* cancellation.                                                             *)
THEOREM LockAlwaysSound == Spec => []LockIsSound
<1>1. IInv => LockIsSound
  BY DEF IInv
<1>2. QED
  BY <1>1, Invariance, PTL

(* A burst of callers makes one fetch, and one more for each that was spent  *)
(* or whose token has aged (the second look at the cache, aad_cache.py).     *)
THEOREM RefreshesCoalesce == Spec => []RefreshesAreCoalesced
<1>1. IInv => RefreshesAreCoalesced
  <2>1. SUFFICES ASSUME IInv PROVE RefreshesAreCoalesced
    OBVIOUS
  <2>2. Holding + Fetching <= 1 /\ Holding \in Nat /\ Fetching \in Nat
    BY <2>1 DEF IInv, FetchIsNeeded, Holding, Fetching
  <2>3. fetches <= spent + agings + Holding + Fetching
    BY <2>1 DEF IInv, FetchesAreCounted
  <2>4. fetches \in Nat /\ spent \in Nat /\ agings \in Nat
    BY <2>1 DEF IInv, TypeOK
  <2>5. QED
    BY <2>2, <2>3, <2>4 DEF RefreshesAreCoalesced
<1>2. QED
  BY <1>1, Invariance, PTL

(* No step replaces a fresh token but by its ageing, and a token that was    *)
(* not just fetched is fresh when it is handed out.                          *)
THEOREM FreshTokensKept == Spec => FreshTokensStay
<1> DEFINE Stays ==
      /\ (cached = "fresh" /\ cached' # cached) => agings' = agings + 1
      /\ \A c \in Callers : got'[c] # got[c] /\ pc[c] # "fetching" => cached = "fresh"
<1>1. IInv /\ [Next]_vars => [Stays]_vars
  <2>1. SUFFICES ASSUME IInv, Next PROVE Stays
    OBVIOUS
  <2>2. CASE Age
    BY <2>2 DEF Age
  <2>3. ASSUME NEW c \in Callers, Progress(c) \/ Cancel(c) PROVE Stays
    <3>1. CASE FinishFetch(c)
      <4>1. pc[c] = "fetching" /\ cached # "fresh"
        BY <2>1, <3>1 DEF FinishFetch, IInv, FetchIsNeeded
      <4>2. \A d \in Callers \ {c} : got'[d] = got[d]
        BY <2>1, <3>1 DEF FinishFetch, Return, IInv, TypeOK
      <4>3. QED
        BY <4>1, <4>2
    <3>2. CASE CallFast(c) \/ UseRefreshed(c)
      BY <3>2 DEF CallFast, UseRefreshed
    <3>3. CASE CallSlow(c) \/ BeginFetch(c) \/ ThreadEnds(c) \/ Cancel(c)
      BY <3>3 DEF CallSlow, BeginFetch, ThreadEnds, Cancel
    <3>4. QED
      BY <2>3, <3>1, <3>2, <3>3 DEF Progress
  <2>4. QED
    BY <2>1, <2>2, <2>3 DEF Next
<1>2. Spec => [][Stays]_vars
  BY <1>1, Invariance, PTL DEF Spec
<1>3. QED
  BY <1>2 DEF FreshTokensStay
=============================================================================
