------------------------------- MODULE MockBank -------------------------------
(***************************************************************************)
(* Concurrent transfers in the mock bank: POST /transfers                  *)
(* (mock-bank/app/routers.py) and TransferService.transfer                 *)
(* (mock-bank/app/repositories.py), each request with a session, and so a  *)
(* database transaction, of its own.                                       *)
(*                                                                         *)
(* Money is counted in units of which Cent make a cent: a request may name *)
(* fractions of a cent, the columns NUMERIC(18, 2) round them away.  An    *)
(* order is what one request asks for.  The database is modelled by what   *)
(* SELECT ... FOR UPDATE and COMMIT do: row locks held to the end of the   *)
(* transaction, taken in an order the statement does not fix, and a        *)
(* deadlock detector that aborts one transaction of a cycle.               *)
(***************************************************************************)
EXTENDS Integers, Sequences, FiniteSets

CONSTANTS
  Accounts,   (* the ids of the accounts that exist                         *)
  Customers,
  Owner,      (* the customer of each account                               *)
  Opening,    (* the opening balance of each account                        *)
  Cent,       (* units per cent                                             *)
  Requests,
  Orders,     (* what a request may ask: [by, from, to, amount]             *)
  NoRequest

ASSUME BankAssumption ==
  /\ Owner \in [Accounts -> Customers]
  /\ Cent \in Nat \ {0}
  /\ Opening \in [Accounts -> Nat]
  /\ \A a \in Accounts : Opening[a] % Cent = 0
  /\ IsFiniteSet(Requests)
  /\ NoRequest \notin Requests
  /\ \A o \in Orders : DOMAIN o = {"by", "from", "to", "amount"} /\ o.amount \in Nat

VARIABLES
  order,     (* what each request asks, fixed when it arrives                *)
  pc,        (* of each request's handler                                    *)
  scan,      (* the rows each request's SELECT has still to lock, in order   *)
  holder,    (* the request whose transaction holds the lock of each row     *)
  seen,      (* the balances each request read when it locked the rows       *)
  balance,   (* the committed column accounts.balance                        *)
  ledger,    (* the sum of the committed transactions of each account        *)
  moved,     (* the requests whose transaction committed                     *)
  outcome    (* what the caller of each request was told                     *)

vars == <<order, pc, scan, holder, seen, balance, ledger, moved, outcome>>

Refusals == {"not_found", "forbidden", "invalid", "insufficient"}

(* Half a cent rounds away from zero in NUMERIC(18, 2).                      *)
RoundUp(x) == Cent * ((2 * x + Cent) \div (2 * Cent))
Round(x)   == IF x >= 0 THEN RoundUp(x) ELSE -RoundUp(-x)

(* Seeded fault: the ids asked for are taken for rows that exist.            *)
RowsAsked(r) == {order[r].from, order[r].to}

(* The rows the SELECT finds.                                                *)
Rows(r) == {order[r].from, order[r].to} \cap Accounts

(* Every order in which a statement may reach the rows it selects.           *)
Scans(S) == {s \in [1 .. Cardinality(S) -> S] : \A a \in S : \E i \in DOMAIN s : s[i] = a}

Locks(r) == {a \in Accounts : holder[a] = r}

(* The end of a transaction gives its locks back.                            *)
Unlock(r) ==
  holder' = [a \in Accounts |-> IF holder[a] = r THEN NoRequest ELSE holder[a]]

Answer(r, what) ==
  /\ pc' = [pc EXCEPT ![r] = "answered"]
  /\ outcome' = [outcome EXCEPT ![r] = what]

(* The handler raises: the session is closed, which rolls back.              *)
Raise(r, what) ==
  /\ Answer(r, what)
  /\ Unlock(r)
  /\ scan' = [scan EXCEPT ![r] = << >>]
  /\ UNCHANGED <<order, seen, balance, ledger, moved>>

(***************************************************************************)
(* The handler, up to the locks.                                           *)
(***************************************************************************)
UnknownCustomer(r) ==
  /\ pc[r] = "arrived"
  /\ order[r].by \notin Customers
  /\ Raise(r, "not_found")

BadOrder(r) ==
  /\ pc[r] = "arrived"
  /\ order[r].by \in Customers
  /\ order[r].from = order[r].to \/ order[r].amount = 0
  /\ Raise(r, "invalid")

Select(r) ==
  /\ pc[r] = "arrived"
  /\ order[r].by \in Customers
  /\ order[r].from # order[r].to
  /\ order[r].amount > 0
  /\ pc' = [pc EXCEPT ![r] = "locking"]
  /\ \E s \in Scans(Rows(r)) : scan' = [scan EXCEPT ![r] = s]
  /\ UNCHANGED <<order, holder, seen, balance, ledger, moved, outcome>>

(* Seeded fault: SELECT without FOR UPDATE reads whether or not another      *)
(* transaction is about to write.                                            *)
LockRowShared(r) ==
  /\ pc[r] = "locking"
  /\ scan[r] # << >>
  /\ LET a == Head(scan[r])
     IN  seen' = [seen EXCEPT ![r][a] = balance[a]]
  /\ scan' = [scan EXCEPT ![r] = Tail(scan[r])]
  /\ UNCHANGED <<order, pc, holder, balance, ledger, moved, outcome>>

(* The next row is locked as soon as nobody holds it, and read as the last   *)
(* commit left it.                                                           *)
LockRow(r) ==
  /\ pc[r] = "locking"
  /\ scan[r] # << >>
  /\ LET a == Head(scan[r])
     IN  /\ holder[a] = NoRequest
         /\ holder' = [holder EXCEPT ![a] = r]
         /\ seen' = [seen EXCEPT ![r][a] = balance[a]]
  /\ scan' = [scan EXCEPT ![r] = Tail(scan[r])]
  /\ UNCHANGED <<order, pc, balance, ledger, moved, outcome>>

(***************************************************************************)
(* The database's deadlock detector.                                       *)
(***************************************************************************)
WaitsFor(r, q) ==
  /\ pc[r] = "locking"
  /\ scan[r] # << >>
  /\ holder[Head(scan[r])] = q

(* Seeded fault: no transaction is ever found in a cycle of several.         *)
InCycleOfOne(r) == WaitsFor(r, r)

(* Every member of C waits for one of C, and one of C waits for it.          *)
InCycle(r) ==
  \E C \in SUBSET Requests :
    /\ r \in C
    /\ \A q \in C : (\E p \in C : WaitsFor(q, p)) /\ (\E p \in C : WaitsFor(p, q))

(* The victim's statement fails with an error the router does not map.       *)
AbortDeadlock(r) == InCycle(r) /\ Raise(r, "deadlock")

(***************************************************************************)
(* The handler, once it has its rows.                                      *)
(***************************************************************************)
(* Seeded fault: the funds are not checked.                                  *)
VerdictNoFunds(r) ==
  LET o == order[r]
  IN  IF {o.from, o.to} \ Accounts # {} THEN "not_found"
      ELSE IF {Owner[o.from], Owner[o.to]} # {o.by} THEN "forbidden" ELSE "go"

(* The checks on the rows, in the order the code makes them.                 *)
Verdict(r) ==
  LET o == order[r]
  IN  IF {o.from, o.to} \ Accounts # {} THEN "not_found"
      ELSE IF {Owner[o.from], Owner[o.to]} # {o.by} THEN "forbidden"
      ELSE IF seen[r][o.from] < o.amount THEN "insufficient"
      ELSE "go"

HasRows(r) == pc[r] = "locking" /\ scan[r] = << >>

Reject(r) ==
  /\ HasRows(r)
  /\ Verdict(r) # "go"
  /\ Raise(r, Verdict(r))

(* Seeded fault: the destination is credited on top of whatever it holds     *)
(* and the source's new balance is not written.                              *)
CommitCreditOnly(r) ==
  /\ HasRows(r)
  /\ Verdict(r) = "go"
  /\ LET o == order[r]
     IN  /\ balance' = [balance EXCEPT ![o.to] = Round(seen[r][o.to] + o.amount)]
         /\ ledger' = [ledger EXCEPT ![o.from] = @ + Round(-o.amount),
                                     ![o.to] = @ + Round(o.amount)]
  /\ moved' = moved \cup {r}
  /\ pc' = [pc EXCEPT ![r] = "committed"]
  /\ Unlock(r)
  /\ UNCHANGED <<order, scan, seen, outcome>>

(* Both balances, from the values read, and both transactions are written    *)
(* and committed together.                                                   *)
Commit(r) ==
  /\ HasRows(r)
  /\ Verdict(r) = "go"
  /\ LET o == order[r]
     IN  /\ balance' = [balance EXCEPT ![o.from] = Round(seen[r][o.from] - o.amount),
                                       ![o.to] = Round(seen[r][o.to] + o.amount)]
         /\ ledger' = [ledger EXCEPT ![o.from] = @ + Round(-o.amount),
                                     ![o.to] = @ + Round(o.amount)]
  /\ moved' = moved \cup {r}
  /\ pc' = [pc EXCEPT ![r] = "committed"]
  /\ Unlock(r)
  /\ UNCHANGED <<order, scan, seen, outcome>>

(* The balances of the answer are read back in a transaction of their own.   *)
Reply(r) ==
  /\ pc[r] = "committed"
  /\ Answer(r, "ok")
  /\ UNCHANGED <<order, scan, holder, seen, balance, ledger, moved>>

(* Seeded fault: every database error is answered as one that rolled back.   *)
LoseConnectionAsRolledBack(r) ==
  /\ pc[r] \in {"locking", "committed"}
  /\ Raise(r, "deadlock")

(* The connection to the database breaks, before or after the commit: the    *)
(* caller gets an error that tells nothing of what was committed.            *)
LoseConnection(r) ==
  /\ pc[r] \in {"locking", "committed"}
  /\ Raise(r, "lost")

-----------------------------------------------------------------------------
Init ==
  /\ order \in [Requests -> Orders]
  /\ pc = [r \in Requests |-> "arrived"]
  /\ scan = [r \in Requests |-> << >>]
  /\ holder = [a \in Accounts |-> NoRequest]
  /\ seen = [r \in Requests |-> [a \in Accounts |-> 0]]
  /\ balance = Opening
  /\ ledger = [a \in Accounts |-> 0]
  /\ moved = {}
  /\ outcome = [r \in Requests |-> "none"]

Progress(r) ==
  \/ UnknownCustomer(r)
  \/ BadOrder(r)
  \/ Select(r)
  \/ LockRow(r)
  \/ AbortDeadlock(r)
  \/ Reject(r)
  \/ Commit(r)
  \/ Reply(r)

Next == \E r \in Requests : Progress(r) \/ LoseConnection(r)

(* A handler runs in a thread of its own and every statement ends: a lock is *)
(* granted when its holder is done, and a cycle of waiters is broken.        *)
Spec == Init /\ [][Next]_vars /\ \A r \in Requests : WF_vars(Progress(r))

-----------------------------------------------------------------------------
(* The type of every variable.                                               *)
TypeOK ==
  /\ order \in [Requests -> Orders]
  /\ pc \in [Requests -> {"arrived", "locking", "committed", "answered"}]
  /\ scan \in [Requests -> Seq(Accounts)]
  /\ holder \in [Accounts -> Requests \cup {NoRequest}]
  /\ seen \in [Requests -> [Accounts -> Int]]
  /\ balance \in [Accounts -> Int]
  /\ ledger \in [Accounts -> Int]
  /\ moved \subseteq Requests
  /\ outcome \in [Requests ->
       Refusals \cup {"none", "ok", "deadlock", "lost"}]

(* No account is ever overdrawn, whatever transfers out of it run at once.   *)
NoOverdraft == \A a \in Accounts : balance[a] >= 0

(* A refused order has moved nothing and an order answered "ok" has moved    *)
(* its amount; a lost connection is the only answer that leaves it open.     *)
AnswersAreTrue ==
  \A r \in Requests :
    /\ outcome[r] = "ok" => r \in moved
    /\ outcome[r] \in Refusals \cup {"deadlock"} => r \notin moved

(* Amounts whose fraction is half a cent to the unit: the source's new       *)
(* balance and the destination's are then both rounded up.                   *)
Tie(x) == 2 * (x % Cent) = Cent
TiesFrom(a) == {r \in moved : order[r].from = a /\ Tie(order[r].amount)}

(* Concurrent transfers lose no update: the books of an account balance, its *)
(* opening balance and its transactions adding up to its balance, up to the  *)
(* cent that rounding gives the source of a half-cent amount.                *)
BooksBalance ==
  \A a \in Accounts :
    balance[a] = Opening[a] + ledger[a] + Cent * Cardinality(TiesFrom(a))

(* Only a request of its owner moves an account, and it moves two.           *)
OnlyOwnersMove ==
  [][\A a \in Accounts : balance'[a] # balance[a] =>
       \E r \in moved' \ moved :
         /\ order[r].by = Owner[a]
         /\ order[r].from # order[r].to
         /\ a \in {order[r].from, order[r].to}]_vars

(* Every request is answered: no lock is left behind and no cycle of waiting *)
(* transactions lasts.                                                       *)
EveryRequestAnswered == \A r \in Requests : <>(pc[r] = "answered")

(* The two rows are locked in a deterministic order, so that transfers do    *)
(* not deadlock (repositories.py:89).                                        *)
NoDeadlock == \A r \in Requests : outcome[r] # "deadlock"

(* A request has moved its money once its transaction has committed.         *)
Fate(r) ==
  IF r \in moved THEN "moved"
  ELSE IF outcome[r] \in Refusals THEN "refused"
  ELSE IF outcome[r] \in {"deadlock", "lost"} THEN "failed"
  ELSE "open"

Promise == INSTANCE AtomicTransfers WITH fate <- [r \in Requests |-> Fate(r)]

(* Concurrent transfers, their locks, deadlocks and lost connections behave  *)
(* like transfers that each happen at one moment: a refusal is justified by  *)
(* the balances of the moment it is decided.                                 *)
TransfersAreAtomic == Promise!Spec
=============================================================================
