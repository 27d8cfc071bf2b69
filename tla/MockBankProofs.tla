---------------------------- MODULE MockBankProofs ----------------------------
(***************************************************************************)
(* Proofs about concurrent transfers: the books of every account balance,  *)
(* no account is overdrawn, only its owner moves it, answers are true, and *)
(* transfers are atomic.                                                   *)
(***************************************************************************)
EXTENDS MockBank, FiniteSetTheorems, TLAPS

(***************************************************************************)
(* Rounding.                                                               *)
(***************************************************************************)
(* A cent has units: all that the lemmas on rounding need to know.           *)
LEMMA CentPositive == Cent \in Nat \ {0}
BY BankAssumption

(* A quotient and a remainder below the divisor are the only ones.           *)
LEMMA DivisionIsUnique ==
  ASSUME NEW d \in Nat \ {0}, NEW q \in Int, NEW s \in Int, 0 <= s, s < d
  PROVE  (d * q + s) \div d = q /\ (d * q + s) % d = s
OBVIOUS

(* Every amount is a whole number of cents and a fraction of one.            *)
LEMMA CentsAndFraction ==
  ASSUME NEW x \in Int
  PROVE  /\ x \div Cent \in Int /\ x % Cent \in Int
         /\ 0 <= x % Cent /\ x % Cent < Cent
         /\ x = Cent * (x \div Cent) + (x % Cent)
BY CentPositive

(* Rounding drops a fraction below half a cent and completes any other.      *)
LEMMA RoundingOfFraction ==
  ASSUME NEW q \in Int, NEW s \in Int, 0 <= s, s < Cent
  PROVE  RoundUp(Cent * q + s) = IF 2 * s >= Cent THEN Cent * q + Cent ELSE Cent * q
<1> USE CentPositive
<1>1. CASE 2 * s >= Cent
  <2>1. 2 * (Cent * q + s) + Cent = (2 * Cent) * (q + 1) + (2 * s - Cent)
    OBVIOUS
  <2>2. (2 * (Cent * q + s) + Cent) \div (2 * Cent) = q + 1
    BY <2>1, <1>1, 2 * Cent \in Nat \ {0}, 0 <= 2 * s - Cent, 2 * s - Cent < 2 * Cent,
       DivisionIsUnique
  <2> QED BY <2>2, <1>1 DEF RoundUp
<1>2. CASE 2 * s < Cent
  <2>1. 2 * (Cent * q + s) + Cent = (2 * Cent) * q + (2 * s + Cent)
    OBVIOUS
  <2>2. (2 * (Cent * q + s) + Cent) \div (2 * Cent) = q
    BY <2>1, <1>2, 2 * Cent \in Nat \ {0}, 2 * s + Cent < 2 * Cent, DivisionIsUnique
  <2> QED BY <2>2, <1>2 DEF RoundUp
<1> QED BY <1>1, <1>2

(* What rounding makes of the two new balances of a transfer of x between    *)
(* accounts of whole cents: x is rounded the same way on both sides, unless  *)
(* it is a tie, which leaves the source a cent more.                         *)
LEMMA RoundingOfTransfer ==
  ASSUME NEW b \in Nat, b % Cent = 0, NEW x \in Nat
  PROVE  /\ Round(x) \in Int
         /\ Round(-x) = -Round(x)
         /\ Round(b + x) = b + Round(x)
         /\ Promise!Nearest(Round(b + x), b + x)
         /\ x <= b => /\ Round(b - x) = b - Round(x) + (IF Tie(x) THEN Cent ELSE 0)
                      /\ Promise!Nearest(Round(b - x), b - x)
                      /\ Round(b - x) >= 0
<1> DEFINE k == b \div Cent
           q == x \div Cent
           s == x % Cent
<1>1. k \in Int /\ q \in Int /\ s \in Int /\ 0 <= s /\ s < Cent /\ Cent \in Nat \ {0}
  BY CentsAndFraction, CentPositive
<1>2. b = Cent * k /\ x = Cent * q + s
  BY <1>1, CentsAndFraction
<1>3. Tie(x) <=> 2 * s = Cent
  BY DEF Tie
<1> HIDE DEF k, q, s
<1>4. RoundUp(x) = IF 2 * s >= Cent THEN Cent * q + Cent ELSE Cent * q
  BY <1>1, <1>2, RoundingOfFraction
<1>5. RoundUp(b + x) = IF 2 * s >= Cent THEN Cent * (k + q) + Cent ELSE Cent * (k + q)
  <2>1. b + x = Cent * (k + q) + s
    BY <1>1, <1>2
  <2>2. k + q \in Int
    BY <1>1
  <2>3. RoundUp(Cent * (k + q) + s)
          = IF 2 * s >= Cent THEN Cent * (k + q) + Cent ELSE Cent * (k + q)
    BY <1>1, <2>2, RoundingOfFraction
  <2> QED BY <2>1, <2>3
<1>6. RoundUp(b - x) = IF 2 * s > Cent THEN Cent * (k - q) - Cent ELSE Cent * (k - q)
  <2>1. CASE s = 0
    <3>1. b - x = Cent * (k - q) + 0
      BY <1>1, <1>2, <2>1
    <3>2. k - q \in Int
      BY <1>1
    <3>3. RoundUp(Cent * (k - q) + 0)
            = IF 2 * 0 >= Cent THEN Cent * (k - q) + Cent ELSE Cent * (k - q)
      BY <1>1, <3>2, 0 \in Int, 0 <= 0, 0 < Cent, RoundingOfFraction
    <3> QED BY <1>1, <2>1, <3>1, <3>3
  <2>2. CASE s > 0
    <3>1. b - x = Cent * (k - q - 1) + (Cent - s)
      BY <1>1, <1>2
    <3>2. Cent * (k - q - 1) = Cent * (k - q) - Cent
      BY <1>1
    <3>3. /\ k - q - 1 \in Int /\ Cent - s \in Int
          /\ 0 <= Cent - s /\ Cent - s < Cent
      BY <1>1, <2>2
    <3>4. RoundUp(Cent * (k - q - 1) + (Cent - s))
            = IF 2 * (Cent - s) >= Cent THEN Cent * (k - q - 1) + Cent
              ELSE Cent * (k - q - 1)
      BY <3>3, RoundingOfFraction
    <3>5. (2 * (Cent - s) >= Cent) <=> ~(2 * s > Cent)
      BY <1>1
    <3> QED BY <1>1, <3>1, <3>2, <3>4, <3>5
  <2> QED BY <1>1, <2>1, <2>2
<1>7. Round(x) = RoundUp(x) /\ Round(b + x) = RoundUp(b + x) /\ Round(-x) = -RoundUp(x)
  <2>1. CASE x = 0
    <3>1. RoundUp(x) = 0
      BY <1>1, <1>4, <1>2, <2>1, RoundingOfFraction DEF RoundUp
    <3> QED BY <2>1, <3>1 DEF Round
  <2>2. CASE x > 0
    BY <2>2 DEF Round
  <2> QED BY <2>1, <2>2
<1>8. /\ Cent * (k + q) = Cent * k + Cent * q
      /\ Cent * (k - q) = Cent * k - Cent * q
      /\ Cent * (k + q) + Cent = Cent * (k + q + 1) + 0
      /\ Cent * (k - q) - Cent = Cent * (k - q - 1) + 0
  BY <1>1
<1>9. \A j \in Int : (Cent * j + 0) % Cent = 0
  BY <1>1, DivisionIsUnique
<1>10. Round(x) \in Int
  BY <1>1, <1>4, <1>7
<1>11. Round(b + x) = b + Round(x)
  BY <1>1, <1>2, <1>4, <1>5, <1>7, <1>8
<1>12. Promise!Nearest(Round(b + x), b + x)
  <2>1. Round(b + x) % Cent = 0
    BY <1>1, <1>5, <1>7, <1>8, <1>9
  <2> QED BY <2>1, <1>1, <1>2, <1>5, <1>7, <1>8 DEF Promise!Nearest
<1>13. ASSUME x <= b
       PROVE  /\ Round(b - x) = b - Round(x) + (IF Tie(x) THEN Cent ELSE 0)
              /\ Promise!Nearest(Round(b - x), b - x)
              /\ Round(b - x) >= 0
  <2>1. Round(b - x) = RoundUp(b - x)
    BY <1>13 DEF Round
  <2>2. Round(b - x) % Cent = 0
    BY <1>1, <1>6, <1>8, <1>9, <2>1
  <2>3. Promise!Nearest(Round(b - x), b - x)
    BY <1>1, <1>2, <1>6, <1>8, <2>1, <2>2 DEF Promise!Nearest
  <2>4. Round(b - x) = b - Round(x) + (IF Tie(x) THEN Cent ELSE 0)
    <3>1. CASE 2 * s = Cent
      BY <1>1, <1>2, <1>3, <1>4, <1>6, <1>7, <1>8, <2>1, <3>1
    <3>2. CASE 2 * s > Cent
      BY <1>1, <1>2, <1>3, <1>4, <1>6, <1>7, <1>8, <2>1, <3>2
    <3>3. CASE 2 * s < Cent
      BY <1>1, <1>2, <1>3, <1>4, <1>6, <1>7, <1>8, <2>1, <3>3
    <3> QED BY <1>1, <3>1, <3>2, <3>3
  <2>5. Round(b - x) >= 0
    <3>1. (2 * (b - x) + Cent) \div (2 * Cent) >= 0
      BY <1>1, <1>13
    <3> QED BY <1>1, <2>1, <3>1 DEF RoundUp
  <2> QED BY <2>3, <2>4, <2>5
<1> QED BY <1>7, <1>10, <1>11, <1>12, <1>13

(***************************************************************************)
(* The inductive invariant.                                                *)
(***************************************************************************)
(* A lock is held by a request at work on its rows, and the balance that     *)
(* request read is still the balance of the row.                             *)
LockedRowIsRead ==
  \A a \in Accounts : holder[a] # NoRequest =>
    /\ pc[holder[a]] = "locking"
    /\ seen[holder[a]][a] = balance[a]

(* Each row a request works on is locked for it, or still on its list.       *)
RowLockedOrListed ==
  \A r \in Requests : pc[r] = "locking" =>
    \A a \in Rows(r) : holder[a] = r \/ \E i \in DOMAIN scan[r] : scan[r][i] = a

(* Only an order that passed the first checks gets to lock rows.             *)
LockingIsChecked ==
  \A r \in Requests : pc[r] = "locking" =>
    /\ order[r].by \in Customers
    /\ order[r].from # order[r].to
    /\ order[r].amount > 0

(* Every balance is a number of whole cents and none is negative.            *)
WholeCents == \A a \in Accounts : balance[a] >= 0 /\ balance[a] % Cent = 0

(* Where a request stands tells whether it has moved its amount.             *)
MovedIsCommitted ==
  \A r \in Requests :
    /\ r \in moved => /\ pc[r] \in {"committed", "answered"}
                      /\ outcome[r] \in {"none", "ok", "lost"}
    /\ pc[r] = "committed" => r \in moved
    /\ pc[r] # "answered" <=> outcome[r] = "none"
    /\ outcome[r] = "ok" => r \in moved

IInv ==
  /\ TypeOK
  /\ LockedRowIsRead
  /\ RowLockedOrListed
  /\ LockingIsChecked
  /\ WholeCents
  /\ MovedIsCommitted
  /\ BooksBalance

(* The orders' amounts are natural numbers.                                  *)
LEMMA AmountsAreNat ==
  ASSUME TypeOK, NEW r \in Requests
  PROVE  order[r].amount \in Nat
BY BankAssumption DEF TypeOK

(* However a statement reaches its rows, it reaches each of them and no      *)
(* other.                                                                    *)
LEMMA ScansReachRows ==
  ASSUME NEW r \in Requests, NEW s \in Scans(Rows(r))
  PROVE  /\ s \in Seq(Accounts)
         /\ \A a \in Rows(r) : \E i \in DOMAIN s : s[i] = a
<1>1. IsFiniteSet({order[r].from, order[r].to})
  <2>1. IsFiniteSet({order[r].from})
    BY FS_Singleton
  <2>2. {order[r].from, order[r].to} = {order[r].from} \cup {order[r].to}
    OBVIOUS
  <2> QED BY <2>1, <2>2, FS_AddElement
<1>2. Cardinality(Rows(r)) \in Nat
  BY <1>1, FS_Intersection, FS_CardinalityType DEF Rows
<1>3. s \in [1 .. Cardinality(Rows(r)) -> Rows(r)]
  BY DEF Scans
<1>4. s \in Seq(Rows(r))
  BY <1>2, <1>3
<1>5. Rows(r) \subseteq Accounts
  BY DEF Rows
<1>6. s \in Seq(Accounts)
  BY <1>4, <1>5
<1> QED BY <1>6 DEF Scans

(* The bank opens with its books in order.                                   *)
LEMMA InitInv == Init => IInv
<1> SUFFICES ASSUME Init PROVE IInv
  OBVIOUS
<1> USE DEF Init
<1>1. TypeOK
  BY BankAssumption DEF TypeOK
<1>2. LockedRowIsRead /\ RowLockedOrListed /\ LockingIsChecked /\ MovedIsCommitted
  BY DEF LockedRowIsRead, RowLockedOrListed, LockingIsChecked, MovedIsCommitted
<1>3. WholeCents
  BY BankAssumption DEF WholeCents
<1>4. BooksBalance
  <2> SUFFICES ASSUME NEW a \in Accounts
               PROVE  balance[a] = Opening[a] + ledger[a] + Cent * Cardinality(TiesFrom(a))
    BY DEF BooksBalance
  <2>1. TiesFrom(a) = {}
    BY DEF TiesFrom
  <2>2. Cardinality(TiesFrom(a)) = 0
    BY <2>1, FS_EmptySet
  <2> QED BY <2>2, BankAssumption
<1> QED BY <1>1, <1>2, <1>3, <1>4 DEF IInv

(***************************************************************************)
(* Every step keeps the invariant.                                         *)
(***************************************************************************)
(* The end of a transaction that committed nothing more: its locks are free  *)
(* again and nothing else changes but the answer.                            *)
LEMMA RaiseKeepsInv ==
  ASSUME IInv, NEW r \in Requests, NEW what \in Refusals \cup {"deadlock", "lost"},
         pc[r] # "answered", r \in moved => what = "lost", Raise(r, what)
  PROVE  IInv'
<1> USE DEF IInv, Raise, Answer, Unlock
<1>1. TypeOK'
  BY DEF TypeOK, Refusals
<1>2. LockedRowIsRead'
  BY BankAssumption DEF LockedRowIsRead, TypeOK
<1>3. RowLockedOrListed'
  BY BankAssumption DEF RowLockedOrListed, TypeOK, Rows
<1>4. LockingIsChecked'
  BY DEF LockingIsChecked, TypeOK
<1>5. WholeCents'
  BY DEF WholeCents
<1>6. MovedIsCommitted'
  BY DEF MovedIsCommitted, TypeOK, Refusals
<1>7. BooksBalance'
  BY DEF BooksBalance, TiesFrom
<1> QED BY <1>1, <1>2, <1>3, <1>4, <1>5, <1>6, <1>7

(* A transaction begins: it has every row still to lock.                     *)
LEMMA SelectKeepsInv ==
  ASSUME IInv, NEW r \in Requests, Select(r)
  PROVE  IInv'
<1> USE DEF IInv, Select
<1>1. PICK s \in Scans(Rows(r)) : scan' = [scan EXCEPT ![r] = s]
  OBVIOUS
<1>2. s \in Seq(Accounts) /\ \A a \in Rows(r) : \E i \in DOMAIN s : s[i] = a
  BY ScansReachRows
<1>3. TypeOK'
  BY <1>1, <1>2 DEF TypeOK
<1>4. LockedRowIsRead'
  BY DEF LockedRowIsRead, TypeOK
<1>5. RowLockedOrListed'
  <2> SUFFICES ASSUME NEW q \in Requests, pc'[q] = "locking", NEW a \in Rows(q)
               PROVE  holder[a] = q \/ \E i \in DOMAIN scan'[q] : scan'[q][i] = a
    BY DEF RowLockedOrListed, Rows
  <2>1. CASE q = r
    BY <2>1, <1>1, <1>2 DEF TypeOK
  <2>2. CASE q # r
    BY <2>2, <1>1 DEF TypeOK, RowLockedOrListed
  <2> QED BY <2>1, <2>2
<1>6. LockingIsChecked'
  BY DEF LockingIsChecked, TypeOK
<1>7. WholeCents' /\ BooksBalance'
  BY DEF WholeCents, BooksBalance, TiesFrom
<1>8. MovedIsCommitted'
  BY DEF MovedIsCommitted, TypeOK
<1> QED BY <1>3, <1>4, <1>5, <1>6, <1>7, <1>8

(* A row is locked and read in one step, so what is read is current.         *)
LEMMA LockRowKeepsInv ==
  ASSUME IInv, NEW r \in Requests, LockRow(r)
  PROVE  IInv'
<1> USE DEF IInv, LockRow
<1> DEFINE a == Head(scan[r])
<1>1. /\ a \in Accounts /\ Tail(scan[r]) \in Seq(Accounts)
      /\ scan[r] \in Seq(Accounts) /\ scan[r] # << >>
  BY DEF TypeOK
<1>2. TypeOK'
  BY <1>1 DEF TypeOK
<1>3. LockedRowIsRead'
  <2> SUFFICES ASSUME NEW b \in Accounts, holder'[b] # NoRequest
               PROVE  /\ pc[holder'[b]] = "locking"
                      /\ seen'[holder'[b]][b] = balance[b]
    BY DEF LockedRowIsRead
  <2>1. CASE b = a
    <3>1. holder'[b] = r
      BY <2>1, <1>1 DEF TypeOK
    <3>2. seen'[r][a] = balance[a]
      BY <1>1 DEF TypeOK
    <3> QED BY <2>1, <3>1, <3>2
  <2>2. CASE b # a
    <3>1. holder'[b] = holder[b] /\ holder[b] \in Requests
      BY <2>2, <1>1 DEF TypeOK
    <3>2. seen'[holder[b]][b] = seen[holder[b]][b]
      BY <2>2, <3>1, <1>1 DEF TypeOK
    <3> QED BY <3>1, <3>2 DEF LockedRowIsRead
  <2> QED BY <2>1, <2>2
<1>4. RowLockedOrListed'
  <2> SUFFICES ASSUME NEW q \in Requests, pc[q] = "locking", NEW b \in Rows(q)
               PROVE  holder'[b] = q \/ \E i \in DOMAIN scan'[q] : scan'[q][i] = b
    BY DEF RowLockedOrListed, Rows
  <2>0. b \in Accounts
    BY DEF Rows
  <2>1. CASE holder[b] = q
    BY <2>0, <2>1, <1>1, BankAssumption DEF TypeOK
  <2>2. CASE holder[b] # q
    <3>1. PICK i \in DOMAIN scan[q] : scan[q][i] = b
      BY <2>2 DEF RowLockedOrListed
    <3>2. CASE q # r
      BY <3>1, <3>2 DEF TypeOK
    <3>3. CASE q = r /\ i = 1
      BY <3>1, <3>3, <1>1, <2>0 DEF TypeOK
    <3>4. CASE q = r /\ i # 1
      <4>1. /\ i - 1 \in DOMAIN Tail(scan[r])
            /\ Tail(scan[r])[i - 1] = b
        BY <3>1, <3>4, <1>1
      <4> QED BY <4>1, <3>4 DEF TypeOK
    <3> QED BY <3>2, <3>3, <3>4
  <2> QED BY <2>1, <2>2
<1>5. LockingIsChecked' /\ WholeCents' /\ BooksBalance' /\ MovedIsCommitted'
  BY DEF LockingIsChecked, WholeCents, BooksBalance, TiesFrom, MovedIsCommitted
<1> QED BY <1>2, <1>3, <1>4, <1>5

(* What a request that is about to commit knows: both rows are its own, both *)
(* belong to its customer, and the balances it read cover the amount.        *)
LEMMA ReadyToCommit ==
  ASSUME IInv, NEW r \in Requests, HasRows(r), Verdict(r) = "go"
  PROVE  LET o == order[r]
         IN  /\ o.from \in Accounts /\ o.to \in Accounts /\ o.from # o.to
             /\ Owner[o.from] = o.by /\ Owner[o.to] = o.by
             /\ holder[o.from] = r /\ holder[o.to] = r
             /\ seen[r][o.from] = balance[o.from] /\ seen[r][o.to] = balance[o.to]
             /\ o.amount \in Nat /\ o.amount > 0 /\ o.amount <= balance[o.from]
             /\ r \notin moved
<1> DEFINE o == order[r]
<1> USE DEF IInv
<1>1. /\ {o.from, o.to} \ Accounts = {}
      /\ {Owner[o.from], Owner[o.to]} = {o.by}
      /\ ~(seen[r][o.from] < o.amount)
  BY DEF Verdict
<1>2. o.from \in Accounts /\ o.to \in Accounts /\ Owner[o.from] = o.by /\ Owner[o.to] = o.by
  BY <1>1
<1>3. pc[r] = "locking" /\ scan[r] = << >>
  BY DEF HasRows
<1>4. o.from # o.to /\ o.amount > 0 /\ o.amount \in Nat
  BY <1>3, AmountsAreNat DEF LockingIsChecked
<1>5. holder[o.from] = r /\ holder[o.to] = r
  BY <1>2, <1>3 DEF RowLockedOrListed, Rows
<1>6. seen[r][o.from] = balance[o.from] /\ seen[r][o.to] = balance[o.to]
  BY <1>2, <1>5, BankAssumption DEF LockedRowIsRead
<1>7. balance[o.from] \in Int
  BY <1>2 DEF TypeOK
<1>8. o.amount <= balance[o.from]
  BY <1>1, <1>4, <1>6, <1>7
<1>9. r \notin moved
  BY <1>3 DEF MovedIsCommitted
<1> QED BY <1>2, <1>4, <1>5, <1>6, <1>8, <1>9

(* What a commit writes: both balances, rounded from those the request read, *)
(* and the ledger entries of the amount.                                     *)
LEMMA CommitWrites ==
  ASSUME IInv, NEW r \in Requests, Commit(r)
  PROVE  LET o == order[r]
         IN  /\ balance'[o.from] = balance[o.from] - Round(o.amount)
                                     + (IF Tie(o.amount) THEN Cent ELSE 0)
             /\ balance'[o.to] = balance[o.to] + Round(o.amount)
             /\ Promise!Nearest(balance'[o.from], balance[o.from] - o.amount)
             /\ Promise!Nearest(balance'[o.to], balance[o.to] + o.amount)
             /\ balance'[o.from] >= 0 /\ balance'[o.to] >= 0
             /\ ledger'[o.from] = ledger[o.from] - Round(o.amount)
             /\ ledger'[o.to] = ledger[o.to] + Round(o.amount)
             /\ Round(o.amount) \in Int
             /\ balance' \in [Accounts -> Int] /\ ledger' \in [Accounts -> Int]
             /\ \A a \in Accounts \ {o.from, o.to} :
                  balance'[a] = balance[a] /\ ledger'[a] = ledger[a]
<1> DEFINE x == order[r].amount
           f == order[r].from
           t == order[r].to
<1>1. /\ f \in Accounts /\ t \in Accounts /\ f # t
      /\ seen[r][f] = balance[f] /\ seen[r][t] = balance[t]
      /\ x \in Nat /\ x <= balance[f]
  BY ReadyToCommit DEF Commit
<1>2. /\ balance \in [Accounts -> Int] /\ ledger \in [Accounts -> Int]
      /\ \A a \in Accounts : balance[a] \in Nat /\ balance[a] % Cent = 0
  BY DEF IInv, TypeOK, WholeCents
<1>3. /\ balance' = [balance EXCEPT ![f] = Round(balance[f] - x), ![t] = Round(balance[t] + x)]
      /\ ledger' = [ledger EXCEPT ![f] = @ + Round(-x), ![t] = @ + Round(x)]
  BY <1>1 DEF Commit
<1> HIDE DEF x, f, t
<1>4. /\ balance'[f] = Round(balance[f] - x) /\ balance'[t] = Round(balance[t] + x)
      /\ ledger'[f] = ledger[f] + Round(-x) /\ ledger'[t] = ledger[t] + Round(x)
      /\ \A a \in Accounts \ {f, t} : balance'[a] = balance[a] /\ ledger'[a] = ledger[a]
  BY <1>1, <1>2, <1>3
<1>5. /\ Round(x) \in Int /\ Round(-x) = -Round(x)
      /\ Round(balance[t] + x) = balance[t] + Round(x)
      /\ Promise!Nearest(Round(balance[t] + x), balance[t] + x)
  BY <1>1, <1>2, RoundingOfTransfer
<1>6. /\ Round(balance[f] - x) = balance[f] - Round(x) + (IF Tie(x) THEN Cent ELSE 0)
      /\ Promise!Nearest(Round(balance[f] - x), balance[f] - x)
      /\ Round(balance[f] - x) >= 0
  BY <1>1, <1>2, RoundingOfTransfer
<1>7. Round(x) >= 0
  <2>1. 0 % Cent = 0 /\ 0 \in Nat
    BY CentPositive
  <2>2. (2 * x + Cent) \div (2 * Cent) >= 0
    BY <1>1, CentPositive
  <2> QED BY <1>1, <2>2, CentPositive DEF Round, RoundUp
<1>8. balance[f] - Round(x) + (IF Tie(x) THEN Cent ELSE 0) \in Int
  BY <1>1, <1>2, <1>5, CentPositive
<1>9. /\ balance'[f] \in Int /\ balance'[t] \in Int /\ balance'[t] >= 0
      /\ ledger'[f] \in Int /\ ledger'[t] \in Int
      /\ ledger'[f] = ledger[f] - Round(x)
  BY <1>1, <1>2, <1>4, <1>5, <1>6, <1>7, <1>8
<1>10. balance' \in [Accounts -> Int] /\ ledger' \in [Accounts -> Int]
  BY <1>1, <1>2, <1>3, <1>4, <1>9
<1> QED BY <1>4, <1>5, <1>6, <1>9, <1>10 DEF x, f, t

(* A committed half-cent transfer is one more tie out of its source.         *)
LEMMA TiesGrow ==
  ASSUME TypeOK, NEW r \in Requests, r \notin moved, moved' = moved \cup {r},
         order' = order, NEW a \in Accounts
  PROVE  /\ Cardinality(TiesFrom(a)) \in Nat
         /\ Cardinality(TiesFrom(a)') = Cardinality(TiesFrom(a)) +
              (IF order[r].from = a /\ Tie(order[r].amount) THEN 1 ELSE 0)
<1>1. IsFiniteSet(TiesFrom(a))
  BY BankAssumption, FS_Subset DEF TiesFrom, TypeOK
<1>2. Cardinality(TiesFrom(a)) \in Nat
  BY <1>1, FS_CardinalityType
<1>3. CASE order[r].from = a /\ Tie(order[r].amount)
  <2>1. TiesFrom(a)' = TiesFrom(a) \cup {r} /\ r \notin TiesFrom(a)
    BY <1>3 DEF TiesFrom, Tie
  <2> QED BY <1>1, <1>2, <1>3, <2>1, FS_AddElement
<1>4. CASE ~(order[r].from = a /\ Tie(order[r].amount))
  <2>1. TiesFrom(a)' = TiesFrom(a)
    BY <1>4 DEF TiesFrom, Tie
  <2> QED BY <1>2, <1>4, <2>1
<1> QED BY <1>3, <1>4

(* A commit writes whole cents to rows that no other request has read, and   *)
(* keeps the books of both accounts.                                         *)
LEMMA CommitKeepsInv ==
  ASSUME IInv, NEW r \in Requests, Commit(r)
  PROVE  IInv'
<1> DEFINE f == order[r].from
           t == order[r].to
           x == order[r].amount
<1>0. /\ TypeOK /\ LockedRowIsRead /\ RowLockedOrListed /\ LockingIsChecked
      /\ WholeCents /\ MovedIsCommitted /\ BooksBalance
  BY DEF IInv
<1>1. /\ f \in Accounts /\ t \in Accounts /\ f # t /\ r \notin moved
      /\ holder[f] = r /\ holder[t] = r /\ x \in Nat
  BY ReadyToCommit DEF Commit
<1>2. /\ moved' = moved \cup {r} /\ pc' = [pc EXCEPT ![r] = "committed"]
      /\ holder' = [a \in Accounts |-> IF holder[a] = r THEN NoRequest ELSE holder[a]]
      /\ UNCHANGED <<order, scan, seen, outcome>> /\ pc[r] = "locking"
  BY DEF Commit, Unlock, HasRows
<1>3. /\ balance'[f] = balance[f] - Round(x) + (IF Tie(x) THEN Cent ELSE 0)
      /\ balance'[t] = balance[t] + Round(x)
      /\ balance'[f] % Cent = 0 /\ balance'[t] % Cent = 0
      /\ balance'[f] >= 0 /\ balance'[t] >= 0
      /\ ledger'[f] = ledger[f] - Round(x) /\ ledger'[t] = ledger[t] + Round(x)
      /\ Round(x) \in Int
      /\ balance' \in [Accounts -> Int] /\ ledger' \in [Accounts -> Int]
      /\ \A a \in Accounts \ {f, t} : balance'[a] = balance[a] /\ ledger'[a] = ledger[a]
  BY CommitWrites DEF Promise!Nearest
<1> HIDE DEF f, t, x
<1>4. TypeOK'
  BY <1>0, <1>2, <1>3 DEF TypeOK
<1>5. LockedRowIsRead'
  <2> SUFFICES ASSUME NEW a \in Accounts, holder'[a] # NoRequest
               PROVE  /\ pc'[holder'[a]] = "locking"
                      /\ seen'[holder'[a]][a] = balance'[a]
    BY DEF LockedRowIsRead
  <2>1. holder[a] # r /\ holder'[a] = holder[a]
    BY <1>2
  <2>2. a \notin {f, t}
    BY <1>1, <2>1
  <2> QED BY <1>0, <1>2, <1>3, <2>1, <2>2 DEF LockedRowIsRead, TypeOK
<1>6. RowLockedOrListed'
  BY <1>0, <1>2, BankAssumption DEF RowLockedOrListed, Rows, TypeOK
<1>7. LockingIsChecked' /\ MovedIsCommitted'
  BY <1>0, <1>2 DEF LockingIsChecked, MovedIsCommitted, TypeOK
<1>8. WholeCents'
  BY <1>0, <1>3 DEF WholeCents
<1>9. BooksBalance'
  <2> SUFFICES ASSUME NEW a \in Accounts
               PROVE  balance'[a] = Opening[a] + ledger'[a] + Cent * Cardinality(TiesFrom(a)')
    BY DEF BooksBalance
  <2> DEFINE n == Cardinality(TiesFrom(a))
             m == Cardinality(TiesFrom(a)')
  <2>1. n \in Nat /\ m = n + (IF f = a /\ Tie(x) THEN 1 ELSE 0)
    BY <1>0, <1>1, <1>2, TiesGrow DEF f, x
  <2>2. balance[a] = Opening[a] + ledger[a] + Cent * n
    BY <1>0 DEF BooksBalance
  <2>3. Opening[a] \in Nat /\ balance[a] \in Int /\ ledger[a] \in Int
    BY <1>0, BankAssumption DEF TypeOK
  <2> HIDE DEF n, m
  <2>4. Cent * (n + 1) = Cent * n + Cent /\ Cent * n \in Int
    BY <2>1, CentPositive
  <2>5. CASE a = f /\ Tie(x)
    BY <1>3, <2>1, <2>2, <2>3, <2>4, <2>5, CentPositive DEF m
  <2>6. CASE a = f /\ ~Tie(x)
    <3>1. m = n
      BY <2>1, <2>6
    <3> QED BY <1>3, <2>2, <2>3, <2>4, <2>6, <3>1 DEF m
  <2>7. CASE a = t
    <3>1. m = n
      BY <1>1, <2>1, <2>7
    <3> QED BY <1>3, <2>2, <2>3, <2>4, <2>7, <3>1 DEF m
  <2>8. CASE a \notin {f, t}
    <3>1. m = n
      BY <1>1, <2>1, <2>8
    <3>2. balance'[a] = balance[a] /\ ledger'[a] = ledger[a]
      BY <1>3, <2>8
    <3> QED BY <2>2, <3>1, <3>2 DEF m
  <2> QED BY <2>5, <2>6, <2>7, <2>8
<1> QED BY <1>4, <1>5, <1>6, <1>7, <1>8, <1>9 DEF IInv

(* Every step of the bank, one action after the other, keeps the invariant.  *)
LEMMA NextKeepsInv == IInv /\ [Next]_vars => IInv'
<1> SUFFICES ASSUME IInv, [Next]_vars PROVE IInv'
  OBVIOUS
<1>0. /\ TypeOK /\ MovedIsCommitted
  BY DEF IInv
<1>1. CASE UNCHANGED vars
  <2> USE <1>1 DEF vars
  <2>1. TypeOK' /\ LockedRowIsRead' /\ RowLockedOrListed' /\ LockingIsChecked'
    BY DEF IInv, TypeOK, LockedRowIsRead, RowLockedOrListed, LockingIsChecked, Rows
  <2>2. WholeCents' /\ MovedIsCommitted' /\ BooksBalance'
    BY DEF IInv, WholeCents, MovedIsCommitted, BooksBalance, TiesFrom
  <2> QED BY <2>1, <2>2 DEF IInv
<1>2. ASSUME NEW r \in Requests, Progress(r) \/ LoseConnection(r)
      PROVE  IInv'
  <2>0. pc[r] # "committed" => r \notin moved \/ pc[r] = "answered"
    BY <1>0 DEF MovedIsCommitted
  <2>1. CASE UnknownCustomer(r)
    BY <2>0, <2>1, RaiseKeepsInv DEF UnknownCustomer, Refusals
  <2>2. CASE BadOrder(r)
    BY <2>0, <2>2, RaiseKeepsInv DEF BadOrder, Refusals
  <2>3. CASE Select(r)
    BY <2>3, SelectKeepsInv
  <2>4. CASE LockRow(r)
    BY <2>4, LockRowKeepsInv
  <2>5. CASE AbortDeadlock(r)
    <3>1. pc[r] = "locking"
      BY <2>5 DEF AbortDeadlock, InCycle, WaitsFor
    <3> QED BY <2>0, <2>5, <3>1, RaiseKeepsInv DEF AbortDeadlock
  <2>6. CASE Reject(r)
    <3>1. Verdict(r) \in Refusals /\ pc[r] = "locking"
      BY <2>6 DEF Reject, Verdict, Refusals, HasRows
    <3> QED BY <2>0, <2>6, <3>1, RaiseKeepsInv DEF Reject
  <2>7. CASE Commit(r)
    BY <2>7, CommitKeepsInv
  <2>8. CASE Reply(r)
    <3> USE <2>8 DEF Reply, Answer
    <3>1. TypeOK'
      BY <1>0 DEF TypeOK
    <3>2. LockedRowIsRead' /\ RowLockedOrListed' /\ LockingIsChecked'
      BY <1>0 DEF IInv, TypeOK, LockedRowIsRead, RowLockedOrListed, LockingIsChecked, Rows
    <3>3. WholeCents' /\ BooksBalance'
      BY DEF IInv, WholeCents, BooksBalance, TiesFrom
    <3>4. MovedIsCommitted'
      BY <1>0 DEF TypeOK, MovedIsCommitted
    <3> QED BY <3>1, <3>2, <3>3, <3>4 DEF IInv
  <2>9. CASE LoseConnection(r)
    BY <2>9, RaiseKeepsInv DEF LoseConnection
  <2> QED BY <1>2, <2>1, <2>2, <2>3, <2>4, <2>5, <2>6, <2>7, <2>8, <2>9 DEF Progress
<1> QED BY <1>1, <1>2 DEF Next

(***************************************************************************)
(* The theorems.                                                           *)
(***************************************************************************)
(* The inductive invariant of concurrent transfers.                          *)
THEOREM Invariant == Spec => []IInv
BY InitInv, NextKeepsInv, PTL DEF Spec

(* Every variable keeps its type.                                            *)
THEOREM TypeCorrect == Spec => []TypeOK
<1>1. IInv => TypeOK
  BY DEF IInv
<1> QED BY <1>1, Invariant, PTL

(* The check of the funds, made on a locked row, is still true when the      *)
(* amount is taken, and rounding never takes more than there is: no account  *)
(* is overdrawn, whatever orders run at once and however fine their amounts. *)
THEOREM NeverOverdrawn == Spec => []NoOverdraft
<1>1. IInv => NoOverdraft
  BY DEF IInv, WholeCents, NoOverdraft
<1> QED BY <1>1, Invariant, PTL

(* An answer says what happened, except that of a lost connection.           *)
THEOREM AnswersTellTheTruth == Spec => []AnswersAreTrue
<1>1. IInv => AnswersAreTrue
  BY DEF IInv, MovedIsCommitted, AnswersAreTrue, Refusals
<1> QED BY <1>1, Invariant, PTL

(* No update is lost: opening balance, transactions and the cents that       *)
(* half-cent amounts add make up the balance of every account.               *)
THEOREM BooksAlwaysBalance == Spec => []BooksBalance
<1>1. IInv => BooksBalance
  BY DEF IInv
<1> QED BY <1>1, Invariant, PTL

(* A step that changes the balance of an account is the commit of an order   *)
(* of its owner between two accounts.                                        *)
THEOREM OwnersAlone == Spec => OnlyOwnersMove
<1>1. ASSUME IInv, [Next]_vars, NEW a \in Accounts, balance'[a] # balance[a]
      PROVE  \E r \in moved' \ moved :
               /\ order[r].by = Owner[a]
               /\ order[r].from # order[r].to
               /\ a \in {order[r].from, order[r].to}
  <2>1. PICK r \in Requests : Commit(r)
    BY <1>1 DEF Next, Progress, vars, UnknownCustomer, BadOrder, Select, LockRow,
                AbortDeadlock, Reject, Reply, LoseConnection, Raise
  <2>2. /\ order[r].from # order[r].to /\ r \notin moved
        /\ Owner[order[r].from] = order[r].by /\ Owner[order[r].to] = order[r].by
    BY <1>1, <2>1, ReadyToCommit DEF Commit
  <2>3. a \in {order[r].from, order[r].to}
    BY <1>1, <2>1, CommitWrites
  <2>4. r \in moved' \ moved
    BY <2>1, <2>2 DEF Commit
  <2> QED BY <2>2, <2>3, <2>4
<1>2. IInv /\ [Next]_vars =>
        [\A a \in Accounts : balance'[a] # balance[a] =>
           \E r \in moved' \ moved :
             /\ order[r].by = Owner[a]
             /\ order[r].from # order[r].to
             /\ a \in {order[r].from, order[r].to}]_vars
  BY <1>1
<1> QED BY <1>2, Invariant, PTL DEF Spec, OnlyOwnersMove

(***************************************************************************)
(* Transfers are atomic.                                                   *)
(***************************************************************************)
(* A transaction that ends without committing is a refusal of a transfer     *)
(* that may not be made, or a failure, or nothing at all after a commit.     *)
LEMMA RaiseRefines ==
  ASSUME IInv, NEW r \in Requests, NEW what \in Refusals \cup {"deadlock", "lost"},
         pc[r] # "answered", Raise(r, what),
         r \in moved => what = "lost",
         what \in Refusals => ~Promise!MayMove(order[r])
  PROVE  [Promise!Next]_(Promise!vars)
<1> DEFINE F == [q \in Requests |-> Fate(q)]
           G == [q \in Requests |-> Fate(q)']
<1>1. UNCHANGED <<order, balance, moved>> /\ outcome' = [outcome EXCEPT ![r] = what]
  BY DEF Raise, Answer
<1>2. \A q \in Requests \ {r} : Fate(q)' = Fate(q)
  BY <1>1 DEF IInv, TypeOK, Fate
<1>3. CASE r \in moved
  <2>1. Fate(r)' = Fate(r)
    BY <1>1, <1>3 DEF Fate
  <2>2. G = F
    BY <1>2, <2>1
  <2> QED BY <1>1, <2>2 DEF Promise!vars
<1>4. CASE r \notin moved
  <2>1. outcome[r] = "none" /\ outcome'[r] = what
    BY <1>1 DEF IInv, TypeOK, MovedIsCommitted
  <2>2. F[r] = "open"
    BY <1>4, <2>1 DEF Fate, Refusals
  <2>3. CASE what \in Refusals
    <3>1. G = [F EXCEPT ![r] = "refused"]
      BY <1>1, <1>2, <1>4, <2>1, <2>3 DEF Fate
    <3>2. Promise!Refuse(r)
      BY <1>1, <2>2, <2>3, <3>1 DEF Promise!Refuse, Promise!Decide
    <3> QED BY <3>2 DEF Promise!Next
  <2>4. CASE what \in {"deadlock", "lost"}
    <3>1. G = [F EXCEPT ![r] = "failed"]
      BY <1>1, <1>2, <1>4, <2>1, <2>4 DEF Fate, Refusals
    <3>2. Promise!Fail(r)
      BY <1>1, <2>2, <3>1 DEF Promise!Fail, Promise!Decide
    <3> QED BY <3>2 DEF Promise!Next
  <2> QED BY <2>3, <2>4
<1> QED BY <1>3, <1>4

(* A step that changes neither balances nor what is known of a request is no *)
(* step of the promise.                                                      *)
LEMMA QuietStepRefines ==
  ASSUME UNCHANGED <<order, balance, moved>>,
         \A q \in Requests : Fate(q)' = Fate(q)
  PROVE  [Promise!Next]_(Promise!vars)
<1>1. [q \in Requests |-> Fate(q)'] = [q \in Requests |-> Fate(q)]
  OBVIOUS
<1> QED BY <1>1 DEF Promise!vars

(* A commit is the one moment of a transfer.                                 *)
LEMMA CommitRefines ==
  ASSUME IInv, NEW r \in Requests, Commit(r)
  PROVE  Promise!Move(r)
<1> DEFINE o == order[r]
           F == [q \in Requests |-> Fate(q)]
           G == [q \in Requests |-> Fate(q)']
<1>1. /\ Promise!MayMove(o) /\ r \notin moved /\ pc[r] = "locking"
      /\ o.from \in Accounts /\ o.to \in Accounts /\ o.from # o.to
  BY ReadyToCommit DEF Commit, Promise!MayMove, HasRows
<1>2. moved' = moved \cup {r} /\ UNCHANGED <<order, outcome>>
  BY DEF Commit
<1>3. F[r] = "open"
  BY <1>1 DEF Fate, IInv, MovedIsCommitted, Refusals
<1>4. \A q \in Requests \ {r} : Fate(q)' = Fate(q)
  BY <1>2 DEF Fate
<1>5. Fate(r)' = "moved"
  BY <1>2 DEF Fate
<1>6. G = [F EXCEPT ![r] = "moved"]
  BY <1>4, <1>5
<1>7. Promise!Decide(r, "moved")
  BY <1>2, <1>3, <1>6 DEF Promise!Decide
<1>8. /\ Promise!Nearest(balance'[o.from], balance[o.from] - o.amount)
      /\ Promise!Nearest(balance'[o.to], balance[o.to] + o.amount)
      /\ balance' \in [Accounts -> Int] /\ balance \in [Accounts -> Int]
      /\ \A a \in Accounts \ {o.from, o.to} : balance'[a] = balance[a]
  BY CommitWrites DEF IInv, TypeOK
<1>9. balance' = [balance EXCEPT ![o.from] = balance'[o.from], ![o.to] = balance'[o.to]]
  BY <1>1, <1>8
<1> QED BY <1>1, <1>7, <1>8, <1>9 DEF Promise!Move

(* Transfers that take their locks in any order, wait, are aborted and lose  *)
(* their connections implement transfers that happen at one moment each.     *)
THEOREM BankIsAtomic == Spec => TransfersAreAtomic
<1>1. Init => Promise!Init
  <2> SUFFICES ASSUME Init PROVE Promise!Init
    OBVIOUS
  <2>1. \A r \in Requests : Fate(r) = "open"
    BY DEF Init, Fate, Refusals
  <2> QED BY <2>1 DEF Init, Promise!Init
<1>2. IInv /\ [Next]_vars => [Promise!Next]_(Promise!vars)
  <2> SUFFICES ASSUME IInv, [Next]_vars PROVE [Promise!Next]_(Promise!vars)
    OBVIOUS
  <2>0. TypeOK /\ MovedIsCommitted
    BY DEF IInv
  <2>1. CASE UNCHANGED vars
    BY <2>1, QuietStepRefines DEF vars, Fate
  <2>2. ASSUME NEW r \in Requests, Progress(r) \/ LoseConnection(r)
        PROVE  [Promise!Next]_(Promise!vars)
    <3>0. pc[r] # "committed" => r \notin moved \/ pc[r] = "answered"
      BY <2>0 DEF MovedIsCommitted
    <3>1. CASE UnknownCustomer(r)
      <4>1. ~Promise!MayMove(order[r])
        BY <3>1, BankAssumption DEF UnknownCustomer, Promise!MayMove
      <4> QED BY <3>0, <3>1, <4>1, RaiseRefines DEF UnknownCustomer, Refusals
    <3>2. CASE BadOrder(r)
      <4>1. ~Promise!MayMove(order[r])
        BY <3>2 DEF BadOrder, Promise!MayMove
      <4> QED BY <3>0, <3>2, <4>1, RaiseRefines DEF BadOrder, Refusals
    <3>3. CASE Select(r)
      BY <3>3, QuietStepRefines DEF Select, Fate
    <3>4. CASE LockRow(r)
      BY <3>4, QuietStepRefines DEF LockRow, Fate
    <3>5. CASE AbortDeadlock(r)
      <4>1. pc[r] = "locking"
        BY <3>5 DEF AbortDeadlock, InCycle, WaitsFor
      <4> QED BY <3>0, <3>5, <4>1, RaiseRefines DEF AbortDeadlock, Refusals
    <3>6. CASE Reject(r)
      <4> DEFINE f == order[r].from
                 t == order[r].to
      <4>1. pc[r] = "locking" /\ HasRows(r) /\ Verdict(r) # "go"
        BY <3>6 DEF Reject, HasRows
      <4>2. Verdict(r) \in Refusals
        BY <4>1 DEF Verdict, Refusals
      <4>3. ~Promise!MayMove(order[r])
        <5> SUFFICES ASSUME Promise!MayMove(order[r]) PROVE FALSE
          OBVIOUS
        <5>1. f \in Accounts /\ t \in Accounts /\ Owner[f] = order[r].by /\ Owner[t] = order[r].by
          BY DEF Promise!MayMove
        <5>2. holder[f] = r
          BY <4>1, <5>1 DEF IInv, RowLockedOrListed, Rows, HasRows
        <5>3. seen[r][f] = balance[f]
          BY <5>1, <5>2, BankAssumption DEF IInv, LockedRowIsRead
        <5>4. ~(seen[r][f] < order[r].amount)
          BY <2>0, <5>1, <5>3, AmountsAreNat DEF Promise!MayMove, TypeOK
        <5>5. Verdict(r) = "go"
          BY <5>1, <5>4 DEF Verdict
        <5> QED BY <4>1, <5>5
      <4> QED BY <3>0, <3>6, <4>1, <4>2, <4>3, RaiseRefines DEF Reject
    <3>7. CASE Commit(r)
      BY <3>7, CommitRefines DEF Promise!Next
    <3>8. CASE Reply(r)
      <4>1. r \in moved /\ UNCHANGED <<order, balance, moved>>
            /\ outcome' = [outcome EXCEPT ![r] = "ok"]
        BY <2>0, <3>8 DEF Reply, Answer, MovedIsCommitted
      <4>2. \A q \in Requests : Fate(q)' = Fate(q)
        BY <2>0, <4>1 DEF Fate, TypeOK
      <4> QED BY <4>1, <4>2, QuietStepRefines
    <3>9. CASE LoseConnection(r)
      BY <3>9, RaiseRefines DEF LoseConnection, Refusals
    <3> QED BY <2>2, <3>1, <3>2, <3>3, <3>4, <3>5, <3>6, <3>7, <3>8, <3>9 DEF Progress
  <2> QED BY <2>1, <2>2 DEF Next
<1> QED BY <1>1, <1>2, Invariant, PTL DEF Spec, TransfersAreAtomic, Promise!Spec
=============================================================================
