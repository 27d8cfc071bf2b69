------------------------------ MODULE MCMockBank ------------------------------
(***************************************************************************)
(* The bank for TLC: two customers, three accounts, a cent of two units.   *)
(***************************************************************************)
EXTENDS MockBank

CONSTANTS r1, r2, r3

AccountIds  == {"checking", "savings", "other"}
OwnerOf     == [a \in AccountIds |-> IF a = "other" THEN "bob" ELSE "alice"]
FirstDay    == [a \in AccountIds |-> IF a = "savings" THEN 2 ELSE 4]

Ask(by, from, to, amount) == [by |-> by, from |-> from, to |-> to, amount |-> amount]

(* Transfers both ways between the accounts of one customer, of two cents    *)
(* and of half a cent, and one order for each way to be refused.             *)
AnyOrder ==
  {Ask("alice", "checking", "savings", 4),
   Ask("alice", "savings", "checking", 1),
   Ask("alice", "checking", "checking", 2),
   Ask("alice", "checking", "unknown", 2),
   Ask("alice", "savings", "other", 2),
   Ask("eve", "checking", "savings", 2)}
=============================================================================
