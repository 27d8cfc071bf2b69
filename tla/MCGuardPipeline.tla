---------------------------- MODULE MCGuardPipeline ----------------------------
(***************************************************************************)
(* The guard stage for TLC, with its refinement mapping to StageVerdict.   *)
(***************************************************************************)
EXTENDS GuardPipeline

(* The caller of a cancelled request is gone: whatever the stage still       *)
(* computes is handed to nobody.                                             *)
Outcome ==
  IF cancels > 0 THEN "gone"
  ELSE IF phase # "decided" THEN "open"
  ELSE IF verdict.allowed THEN "allowed" ELSE "refused"

Promise == INSTANCE StageVerdict WITH
  answer  <- [g \in Guards |-> returned[g].decision],
  outcome <- Outcome,
  text    <- IF cancels > 0 THEN Original ELSE verdict.text

(* Every way of running the guards keeps the promise of a stage: it lets a   *)
(* text through only when every guard has answered and none blocked, refuses *)
(* it only when some guard blocked, and hands back the caller's own text     *)
(* only when no guard sanitized it.                                          *)
KeepsPromise == Promise!Spec
=============================================================================
