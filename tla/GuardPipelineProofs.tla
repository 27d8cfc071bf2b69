-------------------------- MODULE GuardPipelineProofs --------------------------
(***************************************************************************)
(* Proofs about one guard stage, for any number of guards, every mode and  *)
(* any number of cancellations: its invariants, and that it implements     *)
(* StageVerdict.                                                           *)
(***************************************************************************)
EXTENDS MCGuardPipeline, FiniteSetTheorems, SequenceTheorems, WellFoundedInduction, TLAPS

(***************************************************************************)
(* The least and the greatest element of a finite set of guards.           *)
(***************************************************************************)

(* A nonempty finite set of naturals has a least element: the element with   *)
(* the smallest set of predecessors, and strict inclusion is well-founded.   *)
LEMMA LeastElement ==
  ASSUME NEW n \in Nat, NEW S \in SUBSET (1 .. n), S # {}
  PROVE  \E m \in S : \A j \in S : m <= j
<1> DEFINE Below(m) == {j \in S : j < m}
<1> DEFINE T == {Below(m) : m \in S}
<1>1. IsFiniteSet(S)
  <2>1. IsFiniteSet(1 .. n)
    BY FS_Interval
  <2>2. QED
    BY <2>1, FS_Subset
<1>2. IsWellFoundedOn(StrictSubsetOrdering(S), SUBSET S)
  BY <1>1, FS_StrictSubsetOrderingWellFounded, FS_FiniteSubsetsOfFinite
<1>3. T \subseteq SUBSET S /\ T # {}
  OBVIOUS
<1>4. PICK x \in T : \A y \in T : <<y, x>> \notin StrictSubsetOrdering(S)
  BY <1>2, <1>3, WFMin
<1>5. PICK m \in S : x = Below(m)
  BY <1>4
<1>6. ASSUME NEW j \in S, j < m
      PROVE  FALSE
  <2>1. Below(j) \subseteq x /\ j \in x /\ j \notin Below(j)
    <3>1. \A i \in S : i < j => i < m
      BY <1>6
    <3>2. \A i \in S : ~ (i < i)
      OBVIOUS
    <3>3. QED
      BY <1>5, <1>6, <3>1, <3>2
  <2>2. <<Below(j), x>> \in StrictSubsetOrdering(S)
    BY <2>1, <1>3, <1>4 DEF StrictSubsetOrdering
  <2>3. QED
    BY <2>2, <1>4
<1>7. QED
  BY <1>6

(* Earliest picks an element of the set.                                     *)
LEMMA EarliestIsMember ==
  ASSUME NEW n \in Nat, NEW S \in SUBSET (1 .. n), S # {}
  PROVE  Earliest(S) \in S
BY LeastElement DEF Earliest

(* And so does Latest: reflect the set in n + 1.                             *)
LEMMA LatestIsMember ==
  ASSUME NEW n \in Nat, NEW S \in SUBSET (1 .. n), S # {}
  PROVE  Latest(S) \in S
<1> DEFINE R == {i \in 1 .. n : n + 1 - i \in S}
<1>1. R # {}
  <2>1. PICK s \in S : TRUE
    OBVIOUS
  <2>2. n + 1 - s \in R
    BY <2>1
  <2>3. QED
    BY <2>2
<1>2. PICK m \in R : \A j \in R : m <= j
  <2> HIDE DEF R
  <2>1. R \subseteq 1 .. n
    BY DEF R
  <2>2. QED
    BY <1>1, <2>1, LeastElement
<1>3. n + 1 - m \in S
  BY <1>2
<1>4. ASSUME NEW j \in S
      PROVE  j <= n + 1 - m
  <2>1. n + 1 - j \in R
    BY <1>4
  <2>2. m <= n + 1 - j
    BY <2>1, <1>2
  <2>3. QED
    BY <2>2
<1>5. QED
  BY <1>3, <1>4 DEF Latest

-----------------------------------------------------------------------------
(***************************************************************************)
(* The inductive invariant.                                                *)
(***************************************************************************)
DoneTasks == {g \in Guards : task[g] = "done"}

(* A stage that has just been called has started nothing.                    *)
CalledIsFresh ==
  phase = "called" =>
    /\ \A g \in Guards : mode # "sequential" => task[g] = "idle"
    /\ queue = << >> /\ waited = 0 /\ cancels = 0

(* A guard has a result exactly when its task is done, and the result is     *)
(* its own.                                                                  *)
DoneHasResult ==
  \A g \in Guards :
    /\ task[g] = "done" <=> returned[g] # NoResult
    /\ returned[g] # NoResult => returned[g].guard = g /\ returned[g].kind # "cancelled"

QueueIsDone == \A k \in 1 .. Len(queue) : task[queue[k]] = "done"

(* A slot holds what some guard returned, though maybe not its own guard.    *)
SlotIsGenuine ==
  \A i \in Guards : results[i] # NoResult => results[i] = returned[results[i].guard]

(* While the loop runs, every done task is in the queue or has used up an    *)
(* iteration, and so has every swallowed cancellation.                       *)
IterationsCounted ==
  mode = "as_completed" /\ phase = "running" =>
    Cardinality(DoneTasks) + cancels = Len(queue) + waited

(* While the loop runs, a done task that is out of the queue did not block.  *)
ConsumedDidNotBlock ==
  mode = "as_completed" /\ phase = "running" =>
    \A g \in DoneTasks :
      (\E k \in 1 .. Len(queue) : queue[k] = g) \/ returned[g].decision # "block"

DrainingHoldsBlock ==
  phase = "draining" =>
    mode = "as_completed" /\ \E i \in Guards : results[i].decision = "block"

IInv ==
  /\ TypeOK
  /\ CalledIsFresh
  /\ DoneHasResult
  /\ QueueIsDone
  /\ SlotIsGenuine
  /\ IterationsCounted
  /\ ConsumedDidNotBlock
  /\ DrainingHoldsBlock
  /\ AllowHeardEveryGuard
  /\ RefusalHasWitness
  /\ TraceIsGenuine

-----------------------------------------------------------------------------
(***************************************************************************)
(* The walk over the results.                                              *)
(***************************************************************************)
(* What the walk makes of a list of results: it lets through exactly the     *)
(* lists without a BLOCK, and shows the text of a BLOCK otherwise.           *)
LEMMA WalkDecides ==
  ASSUME NEW res \in Seq(Result)
  PROVE  /\ Walk(res) \in [allowed : BOOLEAN, text : Text, checks : Seq(Result)]
         /\ Walk(res).checks = res
         /\ Walk(res).allowed <=> \A i \in DOMAIN res : res[i].decision # "block"
         /\ ~Walk(res).allowed => \E i \in DOMAIN res :
              res[i].decision = "block" /\ Walk(res).text = res[i].text
<1>1. Len(res) \in Nat /\ DOMAIN res = 1 .. Len(res) /\ \A i \in DOMAIN res : res[i] \in Result
  BY LenProperties, ElementOfSeq
<1>2. Blockers(res) \in SUBSET (1 .. Len(res)) /\ Sanitizers(res) \in SUBSET (1 .. Len(res))
  BY <1>1 DEF Blockers, Sanitizers
<1>3. Blockers(res) # {} =>
        Earliest(Blockers(res)) \in Blockers(res) /\ FinalText(res) = res[Earliest(Blockers(res))].text
  BY <1>1, <1>2, EarliestIsMember DEF FinalText
<1>4. Sanitizers(res) # {} => Latest(Sanitizers(res)) \in Sanitizers(res)
  BY <1>1, <1>2, LatestIsMember
<1>5. FinalText(res) \in Text
  <2>1. CASE Blockers(res) # {}
    BY <2>1, <1>3, <1>2, <1>1 DEF Result
  <2>2. CASE Blockers(res) = {} /\ Sanitizers(res) # {}
    BY <2>2, <1>4, <1>2, <1>1 DEF Result, FinalText
  <2>3. CASE Blockers(res) = {} /\ Sanitizers(res) = {}
    BY <2>3, StageAssumption DEF FinalText, Original, Text
  <2>4. QED
    BY <2>1, <2>2, <2>3
<1>6. Blockers(res) = {} <=> \A i \in DOMAIN res : res[i].decision # "block"
  BY DEF Blockers
<1>7. Blockers(res) # {} => \E i \in DOMAIN res :
        res[i].decision = "block" /\ FinalText(res) = res[i].text
  BY <1>3 DEF Blockers
<1>8. Walk(res) = [allowed |-> Blockers(res) = {}, text |-> FinalText(res), checks |-> res]
  BY DEF Walk
<1>9. /\ Walk(res).allowed = (Blockers(res) = {})
      /\ Walk(res).text = FinalText(res)
      /\ Walk(res).checks = res
  BY <1>8
<1>10. Walk(res) \in [allowed : BOOLEAN, text : Text, checks : Seq(Result)]
  <2> DEFINE b == Blockers(res) = {}
  <2>1. b \in BOOLEAN
    OBVIOUS
  <2>2. Walk(res) = [allowed |-> b, text |-> FinalText(res), checks |-> res]
    BY <1>8
  <2> HIDE DEF b
  <2>3. QED
    BY <2>1, <2>2, <1>5
<1>11. QED
  BY <1>6, <1>7, <1>9, <1>10

(* A list with one result for each guard.                                    *)
LEMMA ResultsAreSeq ==
  ASSUME NEW res \in [Guards -> Result]
  PROVE  res \in Seq(Result) /\ DOMAIN res = Guards
BY StageAssumption, SeqDef DEF Guards

(* NoResult is no result.                                                    *)
LEMMA NoResultIsNone ==
  NoResult \notin Result /\ NoResult.decision # "block" /\ \A r \in Result : r # NoResult
BY DEF NoResult, Result

(* The answers of a guard, and the entries the pipeline writes, are results. *)
LEMMA AnswersAreResults ==
  ASSUME NEW g \in Guards, NEW r \in Answers(g) \cup {CrashResult(g)}
  PROVE  r \in Result /\ r.guard = g /\ r.kind # "cancelled"
BY StageAssumption DEF Answers, CrashResult, Result, Guards, Text, Original, Decision

(* And so is every entry of the completed list.                              *)
LEMMA FilledIsResults ==
  ASSUME results \in [Guards -> Slot]
  PROVE  /\ Filled \in [Guards -> Result]
         /\ \A i \in Guards : Filled[i] = IF results[i] = NoResult THEN CancelledResult(i) ELSE results[i]
<1>1. ASSUME NEW i \in Guards
      PROVE  CancelledResult(i) \in Result
  BY StageAssumption DEF CancelledResult, Result, Guards, Text, Original, Decision
<1>2. QED
  BY <1>1 DEF Filled, Slot

-----------------------------------------------------------------------------
(***************************************************************************)
(* One lemma per action of the guards and of the stage.                    *)
(***************************************************************************)
(* The guards whose task is done can be counted.                             *)
LEMMA DoneTasksFinite == IsFiniteSet(Guards) /\ Cardinality(Guards) = N /\ IsFiniteSet(DoneTasks)
<1>1. IsFiniteSet(Guards) /\ Cardinality(Guards) = N
  BY StageAssumption, FS_Interval DEF Guards
<1>2. DoneTasks \in SUBSET Guards
  BY DEF DoneTasks
<1>3. QED
  BY <1>1, <1>2, FS_Subset

(* Initially nothing has happened.                                           *)
LEMMA InitInv == Init => IInv
<1> SUFFICES ASSUME Init
             PROVE  IInv
  OBVIOUS
<1>1. TypeOK
  <2>1. << >> \in Seq(Result) /\ queue \in Seq(Guards)
    BY EmptySeq DEF Init
  <2>2. verdict \in [allowed : BOOLEAN, text : Text, checks : Seq(Result)]
    BY <2>1, StageAssumption DEF Init, NoVerdict, Text, Original
  <2>3. mode \in {"as_completed", "gather", "sequential"}
    BY StageAssumption DEF Init
  <2>4. QED
    BY <2>1, <2>2, <2>3, StageAssumption DEF Init, TypeOK, Slot
<1>2. QED
  BY <1>1, EmptySeq DEF Init, IInv, CalledIsFresh, DoneHasResult, QueueIsDone, SlotIsGenuine,
     IterationsCounted, ConsumedDidNotBlock, DrainingHoldsBlock, AllowHeardEveryGuard,
     RefusalHasWitness, TraceIsGenuine, Allowed, Refused, Decided

(* A guard's task ends with a result.                                        *)
LEMMA FinishKeepsInv ==
  ASSUME IInv, NEW g \in Guards, NEW r \in Answers(g) \cup {CrashResult(g)}, Finish(g, r)
  PROVE  IInv'
<1> USE DEF IInv
<1>1. r \in Result /\ r.guard = g /\ r.kind # "cancelled" /\ r # NoResult
  BY AnswersAreResults, NoResultIsNone
<1>2. /\ task[g] = "running" /\ returned[g] = NoResult
      /\ task' = [task EXCEPT ![g] = "done"]
      /\ returned' = [returned EXCEPT ![g] = r]
      /\ queue' = IF mode = "as_completed" THEN Append(queue, g) ELSE queue
      /\ UNCHANGED <<mode, phase, results, waited, cancels, verdict>>
  BY DEF Finish, DoneHasResult, TypeOK
<1>3. queue' \in Seq(Guards)
  BY <1>2, AppendProperties DEF TypeOK
<1>4. TypeOK'
  BY <1>1, <1>2, <1>3 DEF TypeOK, Slot
<1>5. DOMAIN task = Guards /\ DOMAIN returned = Guards
  BY DEF TypeOK
<1>6. CalledIsFresh'
  <2>1. CASE phase = "called"
    <3>1. mode = "sequential"
      BY <2>1, <1>2 DEF CalledIsFresh
    <3>2. QED
      BY <3>1, <1>2 DEF CalledIsFresh
  <2>2. QED
    BY <2>1, <1>2 DEF CalledIsFresh
<1>7. DoneHasResult'
  BY <1>1, <1>2, <1>5 DEF DoneHasResult
<1>8. QueueIsDone'
  <2>1. ASSUME NEW k \in 1 .. Len(queue')
        PROVE  task'[queue'[k]] = "done"
    <3>1. CASE mode = "as_completed" /\ k = Len(queue) + 1
      BY <3>1, <1>2, <1>5, AppendProperties DEF TypeOK
    <3>2. CASE mode # "as_completed" \/ k # Len(queue) + 1
      <4>1. Len(queue) \in Nat /\ k \in 1 .. Len(queue) /\ queue'[k] = queue[k]
        BY <3>2, <1>2, AppendProperties, LenProperties DEF TypeOK
      <4>2. queue[k] \in Guards /\ task[queue[k]] = "done"
        BY <4>1, ElementOfSeq DEF QueueIsDone, TypeOK
      <4>3. QED
        BY <4>1, <4>2, <1>2, <1>5
    <3>3. QED
      BY <3>1, <3>2
  <2>2. QED
    BY <2>1 DEF QueueIsDone
<1>9. \A h \in Guards : returned[h] # NoResult => returned'[h] = returned[h]
  BY <1>2, <1>5
<1>10. SlotIsGenuine'
  <2>1. ASSUME NEW i \in Guards, results[i] # NoResult
        PROVE  results[i] = returned'[results[i].guard]
    <3>1. results[i] \in Result /\ results[i].guard \in Guards
      BY <2>1 DEF TypeOK, Slot, Result
    <3>2. QED
      BY <2>1, <3>1, <1>9 DEF SlotIsGenuine
  <2>2. QED
    BY <2>1, <1>2 DEF SlotIsGenuine
<1>11. DoneTasks' = DoneTasks \cup {g} /\ g \notin DoneTasks
  BY <1>2, <1>5 DEF DoneTasks
<1>12. IterationsCounted'
  <2>1. CASE mode = "as_completed" /\ phase = "running"
    <3>1. Cardinality(DoneTasks') = Cardinality(DoneTasks) + 1
      BY <1>11, DoneTasksFinite, FS_AddElement
    <3>2. Len(queue') = Len(queue) + 1
      BY <2>1, <1>2, AppendProperties DEF TypeOK
    <3>3. Cardinality(DoneTasks) \in Nat /\ Len(queue) \in Nat
      BY DoneTasksFinite, FS_CardinalityType, LenProperties DEF TypeOK
    <3>4. Cardinality(DoneTasks) + cancels = Len(queue) + waited
      BY <2>1 DEF IterationsCounted
    <3>5. cancels \in Nat /\ waited \in Nat
      BY StageAssumption DEF TypeOK
    <3>6. Cardinality(DoneTasks') + cancels = Len(queue') + waited
      BY <3>1, <3>2, <3>3, <3>4, <3>5
    <3>7. QED
      BY <3>6, <1>2 DEF IterationsCounted
  <2>2. QED
    BY <2>1, <1>2 DEF IterationsCounted
<1>13. ConsumedDidNotBlock'
  <2>1. ASSUME mode = "as_completed", phase = "running", NEW h \in DoneTasks'
        PROVE  (\E k \in 1 .. Len(queue') : queue'[k] = h) \/ returned'[h].decision # "block"
    <3>1. Len(queue) \in Nat /\ Len(queue') = Len(queue) + 1 /\ queue'[Len(queue) + 1] = g
          /\ \A k \in 1 .. Len(queue) : queue'[k] = queue[k]
      BY <2>1, <1>2, AppendProperties, LenProperties DEF TypeOK
    <3>2. CASE h = g
      BY <3>1, <3>2
    <3>3. CASE h # g
      <4>1. h \in DoneTasks /\ h \in Guards /\ returned'[h] = returned[h]
        BY <3>3, <1>11, <1>2, <1>5 DEF DoneTasks
      <4>2. (\E k \in 1 .. Len(queue) : queue[k] = h) \/ returned[h].decision # "block"
        BY <4>1, <2>1 DEF ConsumedDidNotBlock
      <4>3. QED
        BY <4>1, <4>2, <3>1
    <3>4. QED
      BY <3>2, <3>3
  <2>2. QED
    BY <2>1, <1>2 DEF ConsumedDidNotBlock
<1>14. DrainingHoldsBlock'
  BY <1>2 DEF DrainingHoldsBlock
<1>15. AllowHeardEveryGuard'
  BY <1>2, <1>5 DEF AllowHeardEveryGuard, Allowed, Decided
<1>16. RefusalHasWitness'
  <2>1. ASSUME Refused
        PROVE  RefusalHasWitness'
    <3>1. PICK i \in DOMAIN verdict.checks :
            /\ verdict.checks[i].decision = "block"
            /\ verdict.checks[i] = returned[verdict.checks[i].guard]
            /\ verdict.text = verdict.checks[i].text
      BY <2>1 DEF RefusalHasWitness, Refused, Decided
    <3>2. verdict.checks[i] \in Result
      BY LenProperties, ElementOfSeq DEF TypeOK
    <3>3. verdict.checks[i].guard \in Guards /\ verdict.checks[i] # NoResult
      BY <3>2, NoResultIsNone DEF Result
    <3>4. verdict.checks[i] = returned'[verdict.checks[i].guard]
      BY <3>1, <3>3, <1>9
    <3>5. QED
      BY <3>1, <3>4, <1>2 DEF RefusalHasWitness
  <2>2. QED
    BY <2>1, <1>2 DEF RefusalHasWitness, Refused, Decided
<1>17. TraceIsGenuine'
  <2>1. ASSUME Decided, NEW i \in DOMAIN verdict.checks
        PROVE  \/ verdict.checks[i] = returned'[verdict.checks[i].guard]
               \/ verdict.checks[i].kind = "cancelled" /\ verdict.checks[i] = CancelledResult(i)
    <3>1. verdict.checks[i] \in Result
      BY LenProperties, ElementOfSeq DEF TypeOK
    <3>2. verdict.checks[i].guard \in Guards /\ verdict.checks[i] # NoResult
      BY <3>1, NoResultIsNone DEF Result
    <3>3. QED
      BY <2>1, <3>2, <1>9 DEF TraceIsGenuine, Decided
  <2>2. QED
    BY <2>1, <1>2 DEF TraceIsGenuine, Decided
<1>18. QED
  BY <1>4, <1>6, <1>7, <1>8, <1>10, <1>12, <1>13, <1>14, <1>15, <1>16, <1>17

(* A step that moves neither a result nor a queue entry, ends no task and    *)
(* decides nothing keeps everything but what it says of phase and counters.  *)
LEMMA QuietStepKeepsInv ==
  ASSUME IInv,
         UNCHANGED <<mode, returned, queue, results, verdict>>,
         \A g \in Guards : task'[g] = "done" <=> task[g] = "done",
         phase' = "decided" => phase = "decided" /\ cancels' = cancels,
         TypeOK', CalledIsFresh', IterationsCounted', ConsumedDidNotBlock', DrainingHoldsBlock'
  PROVE  IInv'
<1>1. DoneHasResult' /\ SlotIsGenuine'
  BY DEF IInv, DoneHasResult, SlotIsGenuine
<1>2. QueueIsDone'
  <2>1. ASSUME NEW k \in 1 .. Len(queue)
        PROVE  task'[queue[k]] = "done"
    <3>1. queue[k] \in Guards
      BY ElementOfSeq DEF IInv, TypeOK
    <3>2. QED
      BY <3>1 DEF IInv, QueueIsDone
  <2>2. QED
    BY <2>1 DEF QueueIsDone
<1>3. AllowHeardEveryGuard' /\ RefusalHasWitness' /\ TraceIsGenuine'
  BY DEF IInv, AllowHeardEveryGuard, RefusalHasWitness, TraceIsGenuine, Allowed, Refused, Decided
<1>4. QED
  BY <1>1, <1>2, <1>3 DEF IInv

(* A cancelled task ends with no result.                                     *)
LEMMA GuardCancelledKeepsInv ==
  ASSUME IInv, NEW g \in Guards, GuardCancelled(g)
  PROVE  IInv'
<1>1. /\ TypeOK /\ task[g] = "cancelling" /\ task' = [task EXCEPT ![g] = "cancelled"]
      /\ UNCHANGED <<mode, phase, returned, queue, results, waited, cancels, verdict>>
  BY DEF GuardCancelled, IInv
<1>2. \A h \in Guards : task'[h] = "done" <=> task[h] = "done"
  BY <1>1 DEF TypeOK
<1>3. TypeOK'
  BY <1>1 DEF TypeOK
<1>4. DoneTasks' = DoneTasks
  BY <1>2 DEF DoneTasks
<1>5. CalledIsFresh'
  BY <1>1 DEF IInv, CalledIsFresh, TypeOK
<1>6. IterationsCounted' /\ ConsumedDidNotBlock' /\ DrainingHoldsBlock'
  BY <1>1, <1>4 DEF IInv, IterationsCounted, ConsumedDidNotBlock, DrainingHoldsBlock
<1>7. QED
  BY <1>1, <1>2, <1>3, <1>5, <1>6, QuietStepKeepsInv

(* The fan-out starts every task and nothing else.                           *)
LEMMA CreateTasksKeepsInv ==
  ASSUME IInv, CreateTasks
  PROVE  IInv'
<1>1. /\ TypeOK /\ phase = "called" /\ phase' = "running" /\ mode # "sequential"
      /\ task' = [g \in Guards |-> "running"]
      /\ UNCHANGED <<mode, returned, queue, results, waited, cancels, verdict>>
  BY DEF CreateTasks, IInv
<1>2. queue = << >> /\ waited = 0 /\ cancels = 0 /\ \A g \in Guards : task[g] = "idle"
  BY <1>1 DEF IInv, CalledIsFresh
<1>3. TypeOK' /\ CalledIsFresh' /\ DrainingHoldsBlock'
  BY <1>1 DEF TypeOK, CalledIsFresh, DrainingHoldsBlock
<1>4. DoneTasks' = {}
  BY <1>1 DEF DoneTasks
<1>5. IterationsCounted' /\ ConsumedDidNotBlock'
  BY <1>1, <1>2, <1>4, FS_EmptySet, EmptySeq DEF IterationsCounted, ConsumedDidNotBlock
<1>6. QED
  BY <1>1, <1>2, <1>3, <1>5, QuietStepKeepsInv

(* A swallowed cancellation spends an iteration of the loop: what is said of *)
(* loops without cancellations is no longer claimed.                         *)
LEMMA SwallowCancelKeepsInv ==
  ASSUME IInv, SwallowCancel
  PROVE  IInv'
<1>1. /\ TypeOK /\ phase = "running" /\ waited < N /\ cancels < MaxCancels
      /\ cancels' = cancels + 1 /\ waited' = waited + 1
      /\ UNCHANGED <<mode, phase, task, returned, queue, results, verdict>>
  BY DEF SwallowCancel, IInv
<1>2. TypeOK' /\ CalledIsFresh' /\ DrainingHoldsBlock'
  BY <1>1, StageAssumption DEF TypeOK, CalledIsFresh, DrainingHoldsBlock
<1>3. DoneTasks' = DoneTasks
  BY <1>1 DEF DoneTasks
<1>4. ConsumedDidNotBlock'
  BY <1>1, <1>3 DEF IInv, ConsumedDidNotBlock
<1>5. IterationsCounted'
  <2>1. Cardinality(DoneTasks) \in Nat /\ Len(queue) \in Nat /\ waited \in Nat /\ cancels \in Nat
    BY <1>1, StageAssumption, DoneTasksFinite, FS_CardinalityType, LenProperties DEF TypeOK
  <2>2. QED
    BY <1>1, <1>3, <2>1 DEF IInv, IterationsCounted
<1>6. QED
  BY <1>1, <1>2, <1>4, <1>5, QuietStepKeepsInv

(* A stage that is cancelled decides nothing.                                *)
LEMMA AbortStageKeepsInv ==
  ASSUME IInv, AbortStage
  PROVE  IInv'
<1>1. /\ TypeOK /\ cancels < MaxCancels /\ cancels' = cancels + 1 /\ phase' = "aborted"
      /\ task' = [g \in Guards |-> IF task[g] = "running" THEN "cancelling" ELSE task[g]]
      /\ UNCHANGED <<mode, returned, queue, results, waited, verdict>>
  BY DEF AbortStage, CancelRunning, IInv
<1>2. \A g \in Guards : task'[g] = "done" <=> task[g] = "done"
  BY <1>1 DEF TypeOK
<1>3. TypeOK'
  BY <1>1, StageAssumption DEF TypeOK
<1>4. CalledIsFresh' /\ IterationsCounted' /\ ConsumedDidNotBlock' /\ DrainingHoldsBlock'
  BY <1>1 DEF CalledIsFresh, IterationsCounted, ConsumedDidNotBlock, DrainingHoldsBlock
<1>5. QED
  BY <1>1, <1>2, <1>3, <1>4, QuietStepKeepsInv

(* The sequential loop starts its next guard.                                *)
LEMMA CallGuardKeepsInv ==
  ASSUME IInv, NEW g \in Guards, CallGuard(g)
  PROVE  IInv'
<1>1. /\ TypeOK /\ mode = "sequential" /\ task[g] = "idle" /\ phase' = "running"
      /\ task' = [task EXCEPT ![g] = "running"]
      /\ UNCHANGED <<mode, returned, queue, results, waited, cancels, verdict>>
  BY DEF CallGuard, IInv
<1>2. \A h \in Guards : task'[h] = "done" <=> task[h] = "done"
  BY <1>1 DEF TypeOK
<1>3. TypeOK'
  BY <1>1 DEF TypeOK
<1>4. CalledIsFresh' /\ IterationsCounted' /\ ConsumedDidNotBlock' /\ DrainingHoldsBlock'
  BY <1>1 DEF CalledIsFresh, IterationsCounted, ConsumedDidNotBlock, DrainingHoldsBlock
<1>5. QED
  BY <1>1, <1>2, <1>3, <1>4, QuietStepKeepsInv

(* The loop takes the result at the head of the queue into the first free    *)
(* slot, whoever returned it.                                                *)
LEMMA ConsumeNextKeepsInv ==
  ASSUME IInv, ConsumeNext
  PROVE  IInv'
<1> DEFINE h == Head(queue)
           r == returned[h]
           s == Earliest(Unclaimed)
<1>1. /\ TypeOK /\ mode = "as_completed" /\ phase = "running" /\ waited < N
      /\ queue # << >> /\ Unclaimed # {}
      /\ results' = [results EXCEPT ![s] = r]
      /\ queue' = Tail(queue) /\ waited' = waited + 1
      /\ UNCHANGED <<mode, returned, cancels, verdict>>
  BY DEF ConsumeNext, IInv
<1>2. \/ r.decision = "block" /\ phase' = "draining"
         /\ task' = [g \in Guards |-> IF task[g] = "running" THEN "cancelling" ELSE task[g]]
      \/ r.decision # "block" /\ UNCHANGED <<phase, task>>
  BY DEF ConsumeNext, CancelRunning
<1>3. s \in Guards
  <2>1. Unclaimed \in SUBSET (1 .. N)
    BY DEF Unclaimed, Guards
  <2>2. s \in Unclaimed
    BY <2>1, <1>1, StageAssumption, EarliestIsMember
  <2>3. QED
    BY <2>1, <2>2 DEF Guards
<1>4. /\ h \in Guards /\ queue' \in Seq(Guards) /\ Len(queue) \in Nat \ {0}
      /\ Len(queue') = Len(queue) - 1
      /\ \A i \in 1 .. Len(queue') : queue'[i] = queue[i + 1]
      /\ h = queue[1]
  BY <1>1, HeadTailProperties, EmptySeq DEF TypeOK
<1>5. r \in Result /\ r # NoResult /\ r.guard = h
  <2>1. task[h] = "done"
    BY <1>4 DEF IInv, QueueIsDone
  <2>2. QED
    BY <2>1, <1>4 DEF IInv, DoneHasResult, TypeOK, Slot
<1>6. \A g \in Guards : task'[g] = "done" <=> task[g] = "done"
  BY <1>1, <1>2 DEF TypeOK
<1> HIDE DEF h, r, s
<1>7. TypeOK'
  <2>1. task' \in [Guards -> {"idle", "running", "done", "cancelling", "cancelled"}]
    BY <1>1, <1>2 DEF TypeOK
  <2>2. results' \in [Guards -> Slot]
    BY <1>1, <1>3, <1>5 DEF TypeOK, Slot
  <2>3. waited' \in 0 .. N
    BY <1>1, StageAssumption DEF TypeOK
  <2>4. QED
    BY <2>1, <2>2, <2>3, <1>1, <1>2, <1>4 DEF TypeOK
<1>8. CalledIsFresh' /\ DoneHasResult'
  BY <1>1, <1>2, <1>6 DEF IInv, CalledIsFresh, DoneHasResult
<1>9. QueueIsDone'
  <2>1. ASSUME NEW i \in 1 .. Len(queue')
        PROVE  task'[queue'[i]] = "done"
    <3>1. i + 1 \in 1 .. Len(queue) /\ queue'[i] = queue[i + 1]
      BY <1>4
    <3>2. queue[i + 1] \in Guards /\ task[queue[i + 1]] = "done"
      BY <3>1, ElementOfSeq DEF IInv, TypeOK, QueueIsDone
    <3>3. QED
      BY <3>1, <3>2, <1>6
  <2>2. QED
    BY <2>1 DEF QueueIsDone
<1>10. SlotIsGenuine'
  <2>1. ASSUME NEW i \in Guards, results'[i] # NoResult
        PROVE  results'[i] = returned[results'[i].guard]
    <3>1. CASE i = s
      BY <3>1, <1>1, <1>3, <1>5 DEF TypeOK, r
    <3>2. CASE i # s
      BY <2>1, <3>2, <1>1, <1>3 DEF IInv, TypeOK, SlotIsGenuine
    <3>3. QED
      BY <3>1, <3>2
  <2>2. QED
    BY <2>1, <1>1 DEF SlotIsGenuine
<1>11. IterationsCounted'
  <2>1. CASE phase' = "running"
    <3>1. DoneTasks' = DoneTasks
      BY <1>6 DEF DoneTasks
    <3>2. Cardinality(DoneTasks) \in Nat /\ waited \in Nat /\ cancels \in Nat
      BY <1>1, StageAssumption, DoneTasksFinite, FS_CardinalityType DEF TypeOK
    <3>3. Cardinality(DoneTasks) + cancels = Len(queue) + waited
      BY <1>1 DEF IInv, IterationsCounted
    <3>4. QED
      BY <3>1, <3>2, <3>3, <1>1, <1>4 DEF IterationsCounted
  <2>2. QED
    BY <2>1 DEF IterationsCounted
<1>12. ConsumedDidNotBlock'
  <2>1. ASSUME phase' = "running", NEW g \in DoneTasks'
        PROVE  (\E k \in 1 .. Len(queue') : queue'[k] = g) \/ returned[g].decision # "block"
    <3>1. g \in DoneTasks /\ r.decision # "block"
      BY <2>1, <1>2, <1>6 DEF DoneTasks
    <3>2. CASE \E k \in 1 .. Len(queue) : queue[k] = g
      <4>1. PICK k \in 1 .. Len(queue) : queue[k] = g
        BY <3>2
      <4>2. CASE k = 1
        BY <4>1, <4>2, <3>1, <1>4 DEF r
      <4>3. CASE k # 1
        <5>1. k - 1 \in 1 .. Len(queue') /\ queue'[k - 1] = g
          BY <4>1, <4>3, <1>4
        <5>2. QED
          BY <5>1
      <4>4. QED
        BY <4>2, <4>3
    <3>3. CASE ~ \E k \in 1 .. Len(queue) : queue[k] = g
      BY <3>1, <3>3, <1>1 DEF IInv, ConsumedDidNotBlock
    <3>4. QED
      BY <3>2, <3>3
  <2>2. QED
    BY <2>1, <1>1 DEF ConsumedDidNotBlock
<1>13. DrainingHoldsBlock'
  <2>1. CASE phase' = "draining"
    <3>1. r.decision = "block" /\ results'[s] = r
      BY <2>1, <1>1, <1>2, <1>3 DEF TypeOK
    <3>2. QED
      BY <3>1, <1>1, <1>3 DEF DrainingHoldsBlock
  <2>2. QED
    BY <2>1 DEF DrainingHoldsBlock
<1>14. AllowHeardEveryGuard' /\ RefusalHasWitness' /\ TraceIsGenuine'
  BY <1>1, <1>2 DEF AllowHeardEveryGuard, RefusalHasWitness, TraceIsGenuine, Allowed, Refused, Decided
<1>15. QED
  BY <1>7, <1>8, <1>9, <1>10, <1>11, <1>12, <1>13, <1>14 DEF IInv

(* A decision on a list of genuine results, or of entries for cancelled      *)
(* peers.                                                                    *)
LEMMA DecisionKeepsInv ==
  ASSUME IInv, NEW res \in Seq(Result), Decide(res),
         UNCHANGED <<mode, task, returned, queue, results, waited, cancels>>,
         \A i \in DOMAIN res : \/ res[i] = returned[res[i].guard]
                               \/ res[i].kind = "cancelled" /\ res[i] = CancelledResult(i),
         cancels = 0 /\ (\A i \in DOMAIN res : res[i].decision # "block") =>
           \A g \in Guards : task[g] = "done" /\ returned[g].decision # "block"
  PROVE  IInv'
<1>1. phase' = "decided" /\ verdict' = Walk(res)
  BY DEF Decide
<1>2. TypeOK' /\ CalledIsFresh' /\ DoneHasResult' /\ QueueIsDone' /\ SlotIsGenuine'
  <2>1. verdict' \in [allowed : BOOLEAN, text : Text, checks : Seq(Result)]
    BY <1>1, WalkDecides
  <2>2. QED
    BY <1>1, <2>1 DEF IInv, TypeOK, CalledIsFresh, DoneHasResult, QueueIsDone, SlotIsGenuine
<1>3. IterationsCounted' /\ ConsumedDidNotBlock' /\ DrainingHoldsBlock'
  BY <1>1 DEF IterationsCounted, ConsumedDidNotBlock, DrainingHoldsBlock
<1>4. AllowHeardEveryGuard'
  <2>1. ASSUME verdict'.allowed, cancels = 0, NEW g \in Guards
        PROVE  task[g] = "done" /\ returned[g].decision \in {"allow", "sanitize"}
    <3>1. task[g] = "done" /\ returned[g].decision # "block"
      BY <2>1, <1>1, WalkDecides
    <3>2. returned[g] \in Result
      BY <3>1 DEF IInv, DoneHasResult, TypeOK, Slot
    <3>3. QED
      BY <3>1, <3>2 DEF Result, Decision
  <2>2. QED
    BY <2>1 DEF AllowHeardEveryGuard, Allowed, Decided
<1>5. RefusalHasWitness'
  <2>1. ASSUME ~verdict'.allowed
        PROVE  \E i \in DOMAIN res : /\ res[i].decision = "block"
                                     /\ res[i] = returned[res[i].guard]
                                     /\ verdict'.text = res[i].text
    <3>1. PICK i \in DOMAIN res : res[i].decision = "block" /\ verdict'.text = res[i].text
      BY <2>1, <1>1, WalkDecides
    <3>2. CancelledResult(i).decision # "block"
      BY DEF CancelledResult
    <3>3. QED
      BY <3>1, <3>2
  <2>2. verdict'.checks = res
    BY <1>1, WalkDecides
  <2>3. QED
    BY <2>1, <2>2 DEF RefusalHasWitness, Refused, Decided
<1>6. TraceIsGenuine'
  <2>1. verdict'.checks = res
    BY <1>1, WalkDecides
  <2>2. QED
    BY <2>1 DEF TraceIsGenuine, CancelledResult
<1>7. QED
  BY <1>2, <1>3, <1>4, <1>5, <1>6 DEF IInv

(* When the loop has spent its N iterations and none was swallowed, the      *)
(* count leaves no room for a guard that is unheard or still in the queue.   *)
LEMMA FullLoopHeardAll ==
  ASSUME IInv, mode = "as_completed", phase = "running", waited = N, cancels = 0
  PROVE  Len(queue) = 0 /\ DoneTasks = Guards
<1>1. Cardinality(DoneTasks) = Len(queue) + N
  <2>1. Cardinality(DoneTasks) \in Nat /\ Len(queue) \in Nat
    BY DoneTasksFinite, FS_CardinalityType, LenProperties DEF IInv, TypeOK
  <2>2. QED
    BY <2>1, StageAssumption DEF IInv, IterationsCounted
<1>2. DoneTasks \in SUBSET Guards
  BY DEF DoneTasks
<1>3. /\ Cardinality(DoneTasks) <= N
      /\ Cardinality(DoneTasks) = N => DoneTasks = Guards
  BY <1>2, DoneTasksFinite, FS_Subset
<1>4. QED
  BY <1>1, <1>3, LenProperties, StageAssumption DEF IInv, TypeOK

(* So a decision of the loop is sound.                                       *)
LEMMA DecideAsCompletedKeepsInv ==
  ASSUME IInv, DecideAsCompleted
  PROVE  IInv'
<1>1. /\ TypeOK /\ mode = "as_completed" /\ Decide(Filled)
      /\ (phase = "running" /\ waited = N) \/ phase = "draining"
      /\ UNCHANGED <<mode, task, returned, queue, results, waited, cancels>>
  BY DEF DecideAsCompleted, IInv
<1>2. /\ Filled \in Seq(Result) /\ DOMAIN Filled = Guards
      /\ \A i \in Guards : Filled[i] = IF results[i] = NoResult THEN CancelledResult(i) ELSE results[i]
  <2>1. results \in [Guards -> Slot]
    BY <1>1 DEF TypeOK
  <2>2. QED
    BY <2>1, FilledIsResults, ResultsAreSeq
<1>3. ASSUME NEW i \in DOMAIN Filled
      PROVE  \/ Filled[i] = returned[Filled[i].guard]
             \/ Filled[i].kind = "cancelled" /\ Filled[i] = CancelledResult(i)
  <2>1. CASE results[i] = NoResult
    BY <2>1, <1>2 DEF CancelledResult
  <2>2. CASE results[i] # NoResult
    BY <2>2, <1>2 DEF IInv, SlotIsGenuine
  <2>3. QED
    BY <2>1, <2>2
<1>4. ASSUME cancels = 0, \A i \in DOMAIN Filled : Filled[i].decision # "block"
      PROVE  \A g \in Guards : task[g] = "done" /\ returned[g].decision # "block"
  <2>1. phase # "draining"
    BY <1>2, <1>4, NoResultIsNone DEF IInv, DrainingHoldsBlock
  <2>2. Len(queue) = 0 /\ DoneTasks = Guards
    BY <2>1, <1>1, <1>4, FullLoopHeardAll
  <2>3. QED
    BY <2>1, <2>2, <1>1 DEF IInv, ConsumedDidNotBlock, DoneTasks
<1>5. QED
  BY <1>1, <1>2, <1>3, <1>4, DecisionKeepsInv

(* gather decides on what the guards returned, when all have.                *)
LEMMA DecideGatherKeepsInv ==
  ASSUME IInv, DecideGather
  PROVE  IInv'
<1>1. /\ TypeOK /\ \A g \in Guards : task[g] = "done"
      /\ Decide(returned) /\ UNCHANGED <<mode, task, returned, queue, results, waited, cancels>>
  BY DEF DecideGather, IInv
<1>2. \A g \in Guards : returned[g] \in Result /\ returned[g].guard = g
  BY <1>1 DEF IInv, DoneHasResult, TypeOK, Slot
<1>3. returned \in Seq(Result) /\ DOMAIN returned = Guards
  <2>1. returned \in [Guards -> Result]
    BY <1>1, <1>2 DEF TypeOK
  <2>2. QED
    BY <2>1, ResultsAreSeq
<1>4. QED
  BY <1>1, <1>2, <1>3, DecisionKeepsInv

(* The sequential loop ends short of the last guard only on a BLOCK.         *)
LEMMA DecideSequentialKeepsInv ==
  ASSUME IInv, NEW k \in 0 .. N, DecideSequential(k)
  PROVE  IInv'
<1> DEFINE res == SubSeq(returned, 1, k)
<1>1. /\ TypeOK /\ \A h \in 1 .. k : task[h] = "done"
      /\ k = N \/ (k > 0 /\ returned[k].decision = "block")
      /\ Decide(res) /\ UNCHANGED <<mode, task, returned, queue, results, waited, cancels>>
  BY DEF DecideSequential, IInv
<1>2. \A g \in 1 .. k : g \in Guards /\ returned[g] \in Result /\ returned[g].guard = g
  BY <1>1, StageAssumption DEF IInv, DoneHasResult, TypeOK, Slot, Guards
<1>3. res \in Seq(Result) /\ DOMAIN res = 1 .. k /\ \A i \in 1 .. k : res[i] = returned[i]
  <2>1. k \in Nat
    BY StageAssumption
  <2>2. res \in Seq(Result) /\ Len(res) = k /\ \A i \in 1 .. k : res[i] = returned[i]
    BY <1>2, <2>1, SubSeqProperties
  <2> HIDE DEF res
  <2>3. QED
    BY <2>2, LenProperties
<1> HIDE DEF res
<1>4. ASSUME \A i \in DOMAIN res : res[i].decision # "block"
      PROVE  \A g \in Guards : task[g] = "done" /\ returned[g].decision # "block"
  BY <1>1, <1>3, <1>4, StageAssumption DEF Guards
<1>5. QED
  BY <1>1, <1>2, <1>3, <1>4, DecisionKeepsInv

-----------------------------------------------------------------------------
(* Every step of a stage, one action after the other, keeps the invariant.   *)
LEMMA NextKeepsInv == IInv /\ [Next]_vars => IInv'
<1> SUFFICES ASSUME IInv, [Next]_vars
             PROVE  IInv'
  OBVIOUS
<1>1. CASE CreateTasks
  BY <1>1, CreateTasksKeepsInv
<1>2. CASE ConsumeNext
  BY <1>2, ConsumeNextKeepsInv
<1>3. CASE DecideAsCompleted
  BY <1>3, DecideAsCompletedKeepsInv
<1>4. CASE DecideGather
  BY <1>4, DecideGatherKeepsInv
<1>5. CASE \E g \in Guards : CallGuard(g)
  BY <1>5, CallGuardKeepsInv
<1>6. CASE \E k \in 0 .. N : DecideSequential(k)
  BY <1>6, DecideSequentialKeepsInv
<1>7. CASE SwallowCancel
  BY <1>7, SwallowCancelKeepsInv
<1>8. CASE AbortStage
  BY <1>8, AbortStageKeepsInv
<1>9. CASE \E g \in Guards : GuardStep(g)
  <2>1. PICK g \in Guards : GuardStep(g)
    BY <1>9
  <2>2. CASE GuardAnswers(g) \/ GuardCrashes(g)
    BY <2>2, FinishKeepsInv DEF GuardAnswers, GuardCrashes
  <2>3. CASE GuardCancelled(g)
    BY <2>3, GuardCancelledKeepsInv
  <2>4. QED
    BY <2>1, <2>2, <2>3 DEF GuardStep
<1>10. CASE UNCHANGED vars
  BY <1>10 DEF vars, IInv, TypeOK, CalledIsFresh, DoneHasResult, QueueIsDone, SlotIsGenuine,
     IterationsCounted, ConsumedDidNotBlock, DrainingHoldsBlock, AllowHeardEveryGuard,
     RefusalHasWitness, TraceIsGenuine, Allowed, Refused, Decided, DoneTasks
<1>11. QED
  BY <1>1, <1>2, <1>3, <1>4, <1>5, <1>6, <1>7, <1>8, <1>9, <1>10 DEF Next, StageStep

(* The invariant holds in every reachable state.                             *)
THEOREM Invariant == Spec => []IInv
<1>1. QED
  BY InitInv, NextKeepsInv, PTL DEF Spec

(* Every variable of a stage keeps its type: in particular every slot of the *)
(* trace of a decided stage is filled.                                       *)
THEOREM TypeCorrect == Spec => []TypeOK
<1>1. IInv => TypeOK
  BY DEF IInv
<1>2. QED
  BY <1>1, Invariant, PTL

(* A stage never lets a text through before it has heard every guard, and    *)
(* never when one of them blocked, though the loop may store a result in     *)
(* another guard's slot (pipeline.py:229-251).                               *)
THEOREM AllowIsSound == Spec => []AllowHeardEveryGuard
<1>1. IInv => AllowHeardEveryGuard
  BY DEF IInv
<1>2. QED
  BY <1>1, Invariant, PTL

(* A stage refuses a text only on the word of a guard that blocked it, and   *)
(* hands back that guard's text (pipeline.py:272-288).                       *)
THEOREM RefusalIsJustified == Spec => []RefusalHasWitness
<1>1. IInv => RefusalHasWitness
  BY DEF IInv
<1>2. QED
  BY <1>1, Invariant, PTL

(* The trace of a stage never shows an answer that no guard gave             *)
(* (pipeline.py:252-265).                                                    *)
THEOREM TraceNeverInvents == Spec => []TraceIsGenuine
<1>1. IInv => TraceIsGenuine
  BY DEF IInv
<1>2. QED
  BY <1>1, Invariant, PTL
-----------------------------------------------------------------------------
(***************************************************************************)
(* The stage implements StageVerdict: a second invariant says where every  *)
(* answer is, so that no rewritten text is lost on its way to the verdict. *)
(***************************************************************************)
AnswersAreOwn ==
  \A g \in Guards : returned[g] # NoResult => returned[g] \in Answers(g) \cup {CrashResult(g)}

Waiting(g) == \E k \in 1 .. Len(queue) : queue[k] = g
HasSlot(g) == \E i \in Guards : results[i] = returned[g]

(* While the loop runs, the answer of a guard waits in the queue or is in    *)
(* some slot.                                                                *)
AnswersAreKept ==
  mode = "as_completed" /\ phase = "running" => \A g \in DoneTasks : Waiting(g) \/ HasSlot(g)

VerdictIsLast == phase # "decided" => verdict = NoVerdict

KeptInv == AnswersAreOwn /\ AnswersAreKept /\ VerdictIsLast

(* What the entries of a result tell about its text.                         *)
LEMMA AnswerTexts ==
  ASSUME AnswersAreOwn, NEW g \in Guards, returned[g] # NoResult
  PROVE  /\ returned[g].text \in {0, g}
         /\ returned[g].decision \in {"allow", "sanitize", "block"}
         /\ returned[g].decision = "sanitize" => returned[g].text = g
BY DEF AnswersAreOwn, Answers, CrashResult, Original

(* Without a BLOCK the text of a walk is one that some entry rewrote, or the *)
(* caller's own if none did.                                                 *)
LEMMA WalkText ==
  ASSUME NEW res \in Seq(Result), Blockers(res) = {}
  PROVE  /\ Sanitizers(res) = {} => Walk(res).text = Original
         /\ Sanitizers(res) # {} => \E i \in Sanitizers(res) : Walk(res).text = res[i].text
<1>1. Len(res) \in Nat /\ DOMAIN res = 1 .. Len(res)
  BY LenProperties
<1>2. Sanitizers(res) \in SUBSET (1 .. Len(res))
  BY <1>1 DEF Sanitizers
<1>3. Walk(res).text = FinalText(res)
  BY DEF Walk
<1>4. Sanitizers(res) # {} => Latest(Sanitizers(res)) \in Sanitizers(res)
  BY <1>1, <1>2, LatestIsMember
<1>5. QED
  BY <1>3, <1>4 DEF FinalText

(* A step that ends no task, moves no answer and decides nothing.            *)
LEMMA QuietStepKeepsAnswers ==
  ASSUME KeptInv, UNCHANGED <<mode, returned, queue, results, verdict>>,
         \A g \in Guards : task'[g] = "done" <=> task[g] = "done",
         phase' = "running" => phase = "running" \/ \A g \in Guards : task[g] # "done" \/ mode = "sequential",
         phase' = phase \/ (phase # "decided" /\ phase' # "decided")
  PROVE  KeptInv'
<1>1. DoneTasks' = DoneTasks
  BY DEF DoneTasks
<1>2. AnswersAreOwn' /\ VerdictIsLast'
  BY DEF KeptInv, AnswersAreOwn, VerdictIsLast
<1>3. ASSUME mode = "as_completed", phase' = "running", NEW g \in DoneTasks
      PROVE  Waiting(g) \/ HasSlot(g)
  BY <1>3 DEF KeptInv, AnswersAreKept, DoneTasks
<1>4. AnswersAreKept'
  BY <1>1, <1>3 DEF AnswersAreKept, Waiting, HasSlot
<1>5. QED
  BY <1>2, <1>4 DEF KeptInv

(* A guard that ends goes into the queue.                                    *)
LEMMA FinishKeepsAnswers ==
  ASSUME IInv, KeptInv, NEW g \in Guards, NEW r \in Answers(g) \cup {CrashResult(g)}, Finish(g, r)
  PROVE  KeptInv'
<1>1. /\ TypeOK /\ task[g] = "running" /\ returned[g] = NoResult
      /\ task' = [task EXCEPT ![g] = "done"]
      /\ returned' = [returned EXCEPT ![g] = r]
      /\ queue' = IF mode = "as_completed" THEN Append(queue, g) ELSE queue
      /\ UNCHANGED <<mode, phase, results, waited, cancels, verdict>>
  BY DEF Finish, IInv, DoneHasResult, TypeOK
<1>2. DOMAIN task = Guards /\ DOMAIN returned = Guards
  BY <1>1 DEF TypeOK
<1>3. AnswersAreOwn' /\ VerdictIsLast'
  BY <1>1, <1>2 DEF KeptInv, AnswersAreOwn, VerdictIsLast
<1>4. ASSUME mode = "as_completed", phase = "running", NEW h \in DoneTasks'
      PROVE  Waiting(h)' \/ HasSlot(h)'
  <2>1. /\ Len(queue) \in Nat /\ Len(queue') = Len(queue) + 1 /\ queue'[Len(queue) + 1] = g
        /\ \A k \in 1 .. Len(queue) : queue'[k] = queue[k]
    BY <1>1, <1>4, AppendProperties, LenProperties DEF TypeOK
  <2>2. CASE h = g
    BY <2>1, <2>2 DEF Waiting
  <2>3. CASE h # g
    <3>1. h \in DoneTasks /\ returned'[h] = returned[h]
      BY <2>3, <1>1, <1>2 DEF DoneTasks
    <3>2. Waiting(h) \/ HasSlot(h)
      BY <3>1, <1>4 DEF KeptInv, AnswersAreKept
    <3>3. QED
      BY <3>1, <3>2, <2>1, <1>1 DEF Waiting, HasSlot
  <2>4. QED
    BY <2>2, <2>3
<1>5. AnswersAreKept'
  BY <1>1, <1>4 DEF AnswersAreKept
<1>6. QED
  BY <1>3, <1>5 DEF KeptInv

(* The loop stores the answer at the head of the queue in a free slot, so it *)
(* overwrites none.                                                          *)
LEMMA ConsumeNextKeepsAnswers ==
  ASSUME IInv, KeptInv, ConsumeNext
  PROVE  KeptInv'
<1> DEFINE h == Head(queue)
           s == Earliest(Unclaimed)
<1>1. /\ TypeOK /\ mode = "as_completed" /\ phase = "running"
      /\ queue # << >> /\ Unclaimed # {}
      /\ results' = [results EXCEPT ![s] = returned[h]]
      /\ queue' = Tail(queue)
      /\ UNCHANGED <<mode, returned, cancels, verdict>>
  BY DEF ConsumeNext, IInv
<1>2. \/ phase' = "draining"
      \/ UNCHANGED <<phase, task>>
  BY DEF ConsumeNext
<1>3. s \in Guards /\ results[s] = NoResult
  <2>1. Unclaimed \in SUBSET (1 .. N)
    BY DEF Unclaimed, Guards
  <2>2. s \in Unclaimed
    BY <2>1, <1>1, StageAssumption, EarliestIsMember
  <2>3. QED
    BY <2>2 DEF Unclaimed
<1>4. /\ Len(queue) \in Nat \ {0} /\ Len(queue') = Len(queue) - 1
      /\ \A i \in 1 .. Len(queue') : queue'[i] = queue[i + 1]
      /\ h = queue[1]
  BY <1>1, HeadTailProperties, EmptySeq DEF TypeOK
<1> HIDE DEF h, s
<1>5. ASSUME phase' = "running", NEW g \in DoneTasks'
      PROVE  Waiting(g)' \/ HasSlot(g)'
  <2>1. g \in DoneTasks /\ g \in Guards /\ returned'[g] = returned[g] /\ returned[g] # NoResult
    BY <1>5, <1>1, <1>2 DEF DoneTasks, IInv, DoneHasResult
  <2>2. CASE Waiting(g)
    <3>1. PICK k \in 1 .. Len(queue) : queue[k] = g
      BY <2>2 DEF Waiting
    <3>2. CASE k = 1
      BY <3>1, <3>2, <2>1, <1>1, <1>3, <1>4 DEF TypeOK, HasSlot
    <3>3. CASE k # 1
      <4>1. k - 1 \in 1 .. Len(queue') /\ queue'[k - 1] = g
        BY <3>1, <3>3, <1>4
      <4>2. QED
        BY <4>1 DEF Waiting
    <3>4. QED
      BY <3>2, <3>3
  <2>3. CASE HasSlot(g)
    <3>1. PICK i \in Guards : results[i] = returned[g]
      BY <2>3 DEF HasSlot
    <3>2. results'[i] = returned[g]
      BY <3>1, <2>1, <1>1, <1>3 DEF TypeOK
    <3>3. QED
      BY <3>2, <2>1 DEF HasSlot
  <2>4. QED
    BY <2>1, <2>2, <2>3, <1>1 DEF KeptInv, AnswersAreKept
<1>6. AnswersAreKept'
  BY <1>5 DEF AnswersAreKept
<1>7. AnswersAreOwn' /\ VerdictIsLast'
  BY <1>1, <1>2 DEF KeptInv, AnswersAreOwn, VerdictIsLast
<1>8. QED
  BY <1>6, <1>7 DEF KeptInv

(* Every step keeps the answers.                                             *)
LEMMA NextKeepsAnswers == IInv /\ KeptInv /\ [Next]_vars => KeptInv'
<1> SUFFICES ASSUME IInv, KeptInv, [Next]_vars
             PROVE  KeptInv'
  OBVIOUS
<1>0. TypeOK /\ CalledIsFresh
  BY DEF IInv
<1>1. CASE CreateTasks
  <2>1. /\ phase = "called" /\ phase' = "running" /\ mode # "sequential"
        /\ task' = [g \in Guards |-> "running"]
        /\ UNCHANGED <<mode, returned, queue, results, verdict>>
    BY <1>1 DEF CreateTasks
  <2>2. \A g \in Guards : task[g] = "idle" /\ task'[g] = "running"
    BY <2>1, <1>0 DEF CalledIsFresh
  <2>3. QED
    BY <2>1, <2>2, QuietStepKeepsAnswers
<1>2. CASE ConsumeNext
  BY <1>2, ConsumeNextKeepsAnswers
<1>3. CASE DecideAsCompleted \/ DecideGather \/ \E k \in 0 .. N : DecideSequential(k)
  <2>1. phase' = "decided" /\ UNCHANGED <<mode, task, returned, queue, results>>
    BY <1>3 DEF DecideAsCompleted, DecideGather, DecideSequential, Decide
  <2>2. QED
    BY <2>1 DEF KeptInv, AnswersAreOwn, AnswersAreKept, VerdictIsLast
<1>4. ASSUME NEW g \in Guards, CallGuard(g)
      PROVE  KeptInv'
  <2>1. /\ mode = "sequential" /\ phase \in {"called", "running"} /\ phase' = "running"
        /\ task[g] = "idle" /\ task' = [task EXCEPT ![g] = "running"]
        /\ UNCHANGED <<mode, returned, queue, results, verdict>>
    BY <1>4 DEF CallGuard
  <2>2. \A h \in Guards : task'[h] = "done" <=> task[h] = "done"
    BY <2>1, <1>0 DEF TypeOK
  <2>3. QED
    BY <2>1, <2>2, QuietStepKeepsAnswers
<1>5. CASE SwallowCancel
  BY <1>5, QuietStepKeepsAnswers DEF SwallowCancel
<1>6. CASE AbortStage
  <2>1. /\ phase # "decided" /\ phase' = "aborted"
        /\ task' = [g \in Guards |-> IF task[g] = "running" THEN "cancelling" ELSE task[g]]
        /\ UNCHANGED <<mode, returned, queue, results, verdict>>
    BY <1>6 DEF AbortStage, CancelRunning
  <2>2. \A h \in Guards : task'[h] = "done" <=> task[h] = "done"
    BY <2>1
  <2>3. QED
    BY <2>1, <2>2, QuietStepKeepsAnswers
<1>7. ASSUME NEW g \in Guards, GuardCancelled(g)
      PROVE  KeptInv'
  <2>1. /\ task[g] = "cancelling" /\ task' = [task EXCEPT ![g] = "cancelled"]
        /\ UNCHANGED <<mode, phase, returned, queue, results, verdict>>
    BY <1>7 DEF GuardCancelled
  <2>2. \A h \in Guards : task'[h] = "done" <=> task[h] = "done"
    BY <2>1, <1>0 DEF TypeOK
  <2>3. QED
    BY <2>1, <2>2, QuietStepKeepsAnswers
<1>8. ASSUME NEW g \in Guards, GuardAnswers(g) \/ GuardCrashes(g)
      PROVE  KeptInv'
  BY <1>8, FinishKeepsAnswers DEF GuardAnswers, GuardCrashes
<1>9. CASE UNCHANGED vars
  BY <1>9, QuietStepKeepsAnswers DEF vars
<1>10. QED
  BY <1>1, <1>2, <1>3, <1>4, <1>5, <1>6, <1>7, <1>8, <1>9 DEF Next, StageStep, GuardStep

-----------------------------------------------------------------------------
(* A step that changes neither an answer nor the outcome is a stutter.       *)
LEMMA QuietStepStutters ==
  ASSUME UNCHANGED <<returned, cancels, verdict>>, phase' = "decided" <=> phase = "decided"
  PROVE  UNCHANGED Promise!vars
BY DEF Promise!vars, Outcome

(* The answer of a guard is an answer of StageVerdict.                       *)
LEMMA FinishAnswers ==
  ASSUME IInv, NEW g \in Guards, NEW r \in Answers(g) \cup {CrashResult(g)}, Finish(g, r)
  PROVE  Promise!Next
<1>1. /\ returned[g] = NoResult /\ returned' = [returned EXCEPT ![g] = r]
      /\ UNCHANGED <<phase, cancels, verdict>> /\ DOMAIN returned = Guards
  BY DEF Finish, IInv, DoneHasResult, TypeOK
<1>2. r.decision \in {"allow", "sanitize", "block"}
  BY DEF Answers, CrashResult
<1>3. Promise!Answer(g, r.decision)
  <2> DEFINE given == [h \in Guards |-> returned[h].decision]
  <2>1. given[g] = "none" /\ g \in Guards
    BY <1>1 DEF NoResult
  <2>2. [h \in Guards |-> returned'[h].decision] = [given EXCEPT ![g] = r.decision]
    BY <1>1
  <2>3. UNCHANGED <<Outcome, IF cancels > 0 THEN Original ELSE verdict.text>>
    BY <1>1 DEF Outcome
  <2>4. QED
    BY <2>1, <2>2, <2>3 DEF Promise!Answer
<1>4. QED
  BY <1>2, <1>3 DEF Promise!Next, Promise!Guards, Guards

(* A cancellation makes the caller go away, once.                            *)
LEMMA CancellationAbandons ==
  ASSUME KeptInv, UNCHANGED <<returned, verdict>>, phase # "decided", phase' # "decided",
         cancels \in Nat, cancels' = cancels + 1
  PROVE  [Promise!Next]_(Promise!vars)
<1>1. verdict.text = Original
  BY DEF KeptInv, VerdictIsLast, NoVerdict
<1>2. CASE cancels = 0
  <2>1. Promise!Abandon
    BY <1>1, <1>2 DEF Promise!Abandon, Outcome
  <2>2. QED
    BY <2>1 DEF Promise!Next
<1>3. CASE cancels # 0
  BY <1>3 DEF Promise!vars, Outcome
<1>4. QED
  BY <1>2, <1>3

(* A decision refuses or allows, if anybody still waits for it.              *)
LEMMA DecisionKeepsPromise ==
  ASSUME IInv, KeptInv, NEW res \in Seq(Result), Decide(res), phase # "decided",
         UNCHANGED <<returned, cancels>>,
         \A i \in DOMAIN res : \/ res[i] = returned[res[i].guard]
                               \/ res[i].kind = "cancelled" /\ res[i] = CancelledResult(i),
         cancels = 0 /\ (\A i \in DOMAIN res : res[i].decision # "block") =>
           \A g \in Guards : /\ returned[g] # NoResult /\ returned[g].decision # "block"
                             /\ \E i \in DOMAIN res : res[i] = returned[g]
  PROVE  [Promise!Next]_(Promise!vars)
<1>1. phase' = "decided" /\ verdict' = Walk(res) /\ verdict.text = Original
  BY DEF Decide, KeptInv, VerdictIsLast, NoVerdict
<1>2. CASE cancels # 0
  <2>1. cancels > 0 /\ cancels' > 0
    BY <1>2 DEF IInv, TypeOK
  <2>2. QED
    BY <2>1 DEF Promise!vars, Outcome
<1>3. ASSUME NEW i \in DOMAIN res, res[i].decision # "allow"
      PROVE  /\ res[i].guard \in Guards /\ res[i] = returned[res[i].guard]
             /\ returned[res[i].guard] # NoResult
  <2>1. res[i] \in Result /\ res[i] # NoResult
    BY NoResultIsNone, LenProperties, ElementOfSeq
  <2>2. res[i] = returned[res[i].guard]
    BY <1>3 DEF CancelledResult
  <2>3. QED
    BY <2>1, <2>2 DEF Result
<1>4. CASE cancels = 0 /\ Blockers(res) # {}
  <2>1. ~Walk(res).allowed
    BY <1>4, WalkDecides DEF Blockers
  <2>2. PICK i \in DOMAIN res : res[i].decision = "block" /\ Walk(res).text = res[i].text
    BY <2>1, WalkDecides
  <2> DEFINE g == res[i].guard
  <2>3. g \in Guards /\ returned[g].decision = "block" /\ Walk(res).text \in {0, g}
    BY <2>2, <1>3, AnswerTexts DEF KeptInv
  <2> HIDE DEF g
  <2>4. Promise!Refuse(g)
    BY <2>1, <2>3, <1>1, <1>4 DEF Promise!Refuse, Outcome
  <2>5. QED
    BY <2>3, <2>4 DEF Promise!Next, Promise!Guards, Guards
<1>5. CASE cancels = 0 /\ Blockers(res) = {}
  <2>1. Walk(res).allowed /\ \A i \in DOMAIN res : res[i].decision # "block"
    BY <1>5, WalkDecides DEF Blockers
  <2>2. \A g \in Guards : /\ returned[g] # NoResult /\ returned[g].decision # "block"
                          /\ \E i \in DOMAIN res : res[i] = returned[g]
    BY <2>1, <1>5
  <2>3. \A g \in Guards : returned[g].decision \in {"allow", "sanitize"}
    BY <2>2, AnswerTexts DEF KeptInv
  <2>4. Promise!Sanitizing = {g \in Guards : returned[g].decision = "sanitize"}
    BY DEF Promise!Sanitizing, Promise!Guards, Guards
  <2>5. Walk(res).text \in IF Promise!Sanitizing = {} THEN {0} ELSE Promise!Sanitizing
    <3>1. CASE Sanitizers(res) = {}
      <4>1. \A g \in Guards : returned[g].decision # "sanitize"
        BY <3>1, <2>2 DEF Sanitizers
      <4>2. QED
        BY <4>1, <3>1, <2>4, <1>5, WalkText DEF Original
    <3>2. CASE Sanitizers(res) # {}
      <4>1. PICK i \in Sanitizers(res) : Walk(res).text = res[i].text
        BY <3>2, <1>5, WalkText
      <4> DEFINE g == res[i].guard
      <4>2. i \in DOMAIN res /\ res[i].decision = "sanitize"
        BY DEF Sanitizers
      <4>3. g \in Guards /\ res[i] = returned[g] /\ returned[g] # NoResult
        BY <4>2, <1>3
      <4>4. returned[g].text = g
        BY <4>2, <4>3, AnswerTexts DEF KeptInv
      <4>5. QED
        BY <4>1, <4>2, <4>3, <4>4, <2>4
    <3>3. QED
      BY <3>1, <3>2
  <2>6. Promise!Allow
    BY <2>1, <2>3, <2>5, <1>1, <1>5 DEF Promise!Allow, Outcome, Promise!Guards, Guards
  <2>7. QED
    BY <2>6 DEF Promise!Next
<1>6. QED
  BY <1>2, <1>4, <1>5 DEF IInv, TypeOK

(* Every step of the stage is a step of StageVerdict or a stutter.           *)
LEMMA NextKeepsPromise == IInv /\ KeptInv /\ [Next]_vars => [Promise!Next]_(Promise!vars)
<1> SUFFICES ASSUME IInv, KeptInv, [Next]_vars
             PROVE  [Promise!Next]_(Promise!vars)
  OBVIOUS
<1>0. TypeOK /\ CalledIsFresh /\ cancels \in Nat
  BY StageAssumption DEF IInv, TypeOK
<1>1. CASE CreateTasks
  BY <1>1, QuietStepStutters DEF CreateTasks
<1>2. CASE ConsumeNext
  BY <1>2, QuietStepStutters DEF ConsumeNext
<1>3. CASE DecideAsCompleted
  <2>1. /\ mode = "as_completed" /\ Decide(Filled)
        /\ (phase = "running" /\ waited = N) \/ phase = "draining"
        /\ UNCHANGED <<returned, cancels>>
    BY <1>3 DEF DecideAsCompleted
  <2>2. /\ Filled \in Seq(Result) /\ DOMAIN Filled = Guards
        /\ \A i \in Guards : Filled[i] = IF results[i] = NoResult THEN CancelledResult(i) ELSE results[i]
    <3>1. results \in [Guards -> Slot]
      BY <1>0 DEF TypeOK
    <3>2. QED
      BY <3>1, FilledIsResults, ResultsAreSeq
  <2>3. \A i \in DOMAIN Filled : \/ Filled[i] = returned[Filled[i].guard]
                                 \/ Filled[i].kind = "cancelled" /\ Filled[i] = CancelledResult(i)
    BY <2>2 DEF IInv, SlotIsGenuine, CancelledResult
  <2>4. ASSUME cancels = 0, \A i \in DOMAIN Filled : Filled[i].decision # "block"
        PROVE  \A g \in Guards : /\ returned[g] # NoResult /\ returned[g].decision # "block"
                                 /\ \E i \in DOMAIN Filled : Filled[i] = returned[g]
    <3>1. phase = "running" /\ waited = N
      BY <2>1, <2>2, <2>4, NoResultIsNone DEF IInv, DrainingHoldsBlock
    <3>2. Len(queue) = 0 /\ DoneTasks = Guards
      BY <2>1, <2>4, <3>1, FullLoopHeardAll
    <3>3. ASSUME NEW g \in Guards
          PROVE  /\ returned[g] # NoResult /\ returned[g].decision # "block"
                 /\ HasSlot(g)
      <4>1. returned[g] # NoResult
        BY <3>2 DEF IInv, DoneHasResult, DoneTasks
      <4>2. ~Waiting(g)
        BY <3>2 DEF Waiting
      <4>3. QED
        BY <2>1, <3>1, <3>2, <4>1, <4>2
        DEF IInv, ConsumedDidNotBlock, KeptInv, AnswersAreKept, Waiting
    <3>4. QED
      BY <2>2, <3>3 DEF HasSlot
  <2>5. QED
    BY <2>1, <2>2, <2>3, <2>4, DecisionKeepsPromise
<1>4. CASE DecideGather
  <2>1. /\ \A g \in Guards : task[g] = "done"
        /\ phase = "running" /\ Decide(returned) /\ UNCHANGED <<returned, cancels>>
    BY <1>4 DEF DecideGather
  <2>2. \A g \in Guards : returned[g] \in Result /\ returned[g].guard = g /\ returned[g] # NoResult
    BY <2>1, <1>0 DEF IInv, DoneHasResult, TypeOK, Slot
  <2>3. returned \in Seq(Result) /\ DOMAIN returned = Guards
    <3>1. returned \in [Guards -> Result]
      BY <2>2, <1>0 DEF TypeOK
    <3>2. QED
      BY <3>1, ResultsAreSeq
  <2>4. QED
    BY <2>1, <2>2, <2>3, DecisionKeepsPromise
<1>5. ASSUME NEW g \in Guards, CallGuard(g)
      PROVE  [Promise!Next]_(Promise!vars)
  BY <1>5, QuietStepStutters DEF CallGuard
<1>6. ASSUME NEW k \in 0 .. N, DecideSequential(k)
      PROVE  [Promise!Next]_(Promise!vars)
  <2> DEFINE res == SubSeq(returned, 1, k)
  <2>1. /\ \A h \in 1 .. k : task[h] = "done"
        /\ k = N \/ (k > 0 /\ returned[k].decision = "block")
        /\ phase # "decided" /\ Decide(res) /\ UNCHANGED <<returned, cancels>>
    BY <1>6 DEF DecideSequential
  <2>2. \A g \in 1 .. k : /\ g \in Guards /\ returned[g] \in Result /\ returned[g].guard = g
                          /\ returned[g] # NoResult
    BY <2>1, <1>0, StageAssumption DEF IInv, DoneHasResult, TypeOK, Slot, Guards
  <2>3. res \in Seq(Result) /\ DOMAIN res = 1 .. k /\ \A i \in 1 .. k : res[i] = returned[i]
    <3>1. res \in Seq(Result) /\ Len(res) = k /\ \A i \in 1 .. k : res[i] = returned[i]
      BY <2>2, StageAssumption, SubSeqProperties
    <3> HIDE DEF res
    <3>2. QED
      BY <3>1, LenProperties
  <2> HIDE DEF res
  <2>4. ASSUME \A i \in DOMAIN res : res[i].decision # "block"
        PROVE  \A g \in Guards : /\ returned[g] # NoResult /\ returned[g].decision # "block"
                                 /\ \E i \in DOMAIN res : res[i] = returned[g]
    <3>1. k = N
      BY <2>1, <2>3, <2>4, StageAssumption
    <3>2. QED
      BY <3>1, <2>2, <2>3, <2>4 DEF Guards
  <2>5. QED
    BY <2>1, <2>2, <2>3, <2>4, DecisionKeepsPromise
<1>7. CASE SwallowCancel
  BY <1>7, <1>0, CancellationAbandons DEF SwallowCancel
<1>8. CASE AbortStage
  BY <1>8, <1>0, CancellationAbandons DEF AbortStage
<1>9. ASSUME NEW g \in Guards, GuardCancelled(g)
      PROVE  [Promise!Next]_(Promise!vars)
  BY <1>9, QuietStepStutters DEF GuardCancelled
<1>10. ASSUME NEW g \in Guards, GuardAnswers(g) \/ GuardCrashes(g)
       PROVE  [Promise!Next]_(Promise!vars)
  BY <1>10, FinishAnswers DEF GuardAnswers, GuardCrashes
<1>11. CASE UNCHANGED vars
  BY <1>11, QuietStepStutters DEF vars
<1>12. QED
  BY <1>1, <1>2, <1>3, <1>4, <1>5, <1>6, <1>7, <1>8, <1>9, <1>10, <1>11 DEF Next, StageStep, GuardStep

(* Every way of running the guards of a stage, with results that change      *)
(* slots, crashes and cancellations, keeps the promise of StageVerdict; in   *)
(* particular a text that is let through is never the caller's own once some *)
(* guard sanitized it (pipeline.py:209-288).                                 *)
THEOREM StageKeepsPromise == Spec => KeepsPromise
<1>1. Init => KeptInv /\ Promise!Init
  <2> SUFFICES ASSUME Init
               PROVE  KeptInv /\ Promise!Init
    OBVIOUS
  <2>1. KeptInv
    BY DEF Init, KeptInv, AnswersAreOwn, AnswersAreKept, VerdictIsLast
  <2>2. Promise!Init
    BY DEF Init, Promise!Init, Outcome, NoResult, NoVerdict, Original, Promise!Guards, Guards
  <2>3. QED
    BY <2>1, <2>2
<1>2. IInv /\ KeptInv /\ [Next]_vars => IInv' /\ KeptInv'
  BY NextKeepsInv, NextKeepsAnswers
<1>3. QED
  BY <1>1, <1>2, InitInv, NextKeepsPromise, PTL DEF Spec, KeepsPromise, Promise!Spec
=============================================================================
