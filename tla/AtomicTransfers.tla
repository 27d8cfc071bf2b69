---------------------------- MODULE AtomicTransfers ----------------------------
(***************************************************************************)
(* What the bank promises of transfers ("Atomic transfer between two       *)
(* accounts, both owned by the same customer", mock-bank/app/              *)
(* repositories.py:71): each one happens at a single moment, or not at     *)
(* all, and is refused only at a moment at which it may be.                *)
(***************************************************************************)
EXTENDS Integers

CONSTANTS Accounts, Owner, Opening, Cent, Requests, Orders

VARIABLES order, balance, fate

vars == <<order, balance, fate>>

(* b is x in whole cents, rounded one way or the other.                      *)
Nearest(b, x) == b % Cent = 0 /\ 2 * (b - x) <= Cent /\ 2 * (x - b) <= Cent

MayMove(o) ==
  /\ o.from # o.to
  /\ o.from \in Accounts /\ Owner[o.from] = o.by
  /\ o.to \in Accounts /\ Owner[o.to] = o.by
  /\ o.amount > 0
  /\ o.amount <= balance[o.from]

Init ==
  /\ order \in [Requests -> Orders]
  /\ balance = Opening
  /\ fate = [r \in Requests |-> "open"]

Decide(r, what) ==
  /\ fate[r] = "open"
  /\ fate' = [fate EXCEPT ![r] = what]
  /\ UNCHANGED order

Move(r) ==
  LET o == order[r]
  IN  /\ MayMove(o)
      /\ Decide(r, "moved")
      /\ Nearest(balance'[o.from], balance[o.from] - o.amount)
      /\ Nearest(balance'[o.to], balance[o.to] + o.amount)
      /\ balance' = [balance EXCEPT ![o.from] = balance'[o.from], ![o.to] = balance'[o.to]]

Refuse(r) ==
  /\ ~MayMove(order[r])
  /\ Decide(r, "refused")
  /\ UNCHANGED balance

(* An error may end any request that has not moved anything.                 *)
Fail(r) == Decide(r, "failed") /\ UNCHANGED balance

Next == \E r \in Requests : Move(r) \/ Refuse(r) \/ Fail(r)

Spec == Init /\ [][Next]_vars
=============================================================================
