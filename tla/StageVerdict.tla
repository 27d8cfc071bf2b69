------------------------------ MODULE StageVerdict ------------------------------
(***************************************************************************)
(* What a guardrail stage promises its caller, whatever way it runs its    *)
(* guards: it refuses only a text that some guard blocked, it lets a text  *)
(* through only when every guard has answered and none blocked, and the    *)
(* text it lets through is the caller's own only if no guard sanitized it. *)
(***************************************************************************)
EXTENDS Naturals

CONSTANT N  (* number of guards of the stage *)

Guards == 1 .. N

VARIABLES
  answer,   (* each guard's answer so far                      *)
  outcome,  (* "open", "allowed", "refused" or "gone"          *)
  text      (* the text handed back: 0 is the caller's own     *)

vars == <<answer, outcome, text>>

Init ==
  /\ answer = [g \in Guards |-> "none"]
  /\ outcome = "open"
  /\ text = 0

Answer(g, d) ==
  /\ answer[g] = "none"
  /\ answer' = [answer EXCEPT ![g] = d]
  /\ UNCHANGED <<outcome, text>>

Refuse(g) ==
  /\ outcome = "open"
  /\ answer[g] = "block"
  /\ outcome' = "refused"
  /\ text' \in {0, g}
  /\ UNCHANGED answer

Sanitizing == {g \in Guards : answer[g] = "sanitize"}

Allow ==
  /\ outcome = "open"
  /\ \A g \in Guards : answer[g] \in {"allow", "sanitize"}
  /\ outcome' = "allowed"
  /\ text' \in IF Sanitizing = {} THEN {0} ELSE Sanitizing
  /\ UNCHANGED answer

(* The caller goes away: no decision is made.                    *)
Abandon ==
  /\ outcome = "open"
  /\ outcome' = "gone"
  /\ UNCHANGED <<answer, text>>

Next ==
  \/ \E g \in Guards, d \in {"allow", "sanitize", "block"} : Answer(g, d)
  \/ \E g \in Guards : Refuse(g)
  \/ Allow
  \/ Abandon

Spec == Init /\ [][Next]_vars
=============================================================================
