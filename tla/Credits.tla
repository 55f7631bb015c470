------------------------------ MODULE Credits ------------------------------
(***************************************************************************)
(* The credit wallets and their append-only ledger (CreditsService).       *)
(* Grant, Debit and Refund run inside the caller's transaction; adjust is  *)
(* called by the controller without one, so its two writes are two steps.  *)
(* The ledger is kept as totals: per wallet and entry type, and for the    *)
(* entries that reference a reservation per wallet and over all of them.   *)
(***************************************************************************)
EXTENDS Runtime

CONSTANTS
  MaxContracts,  \* bound: contracts the run may create
  Deltas         \* bound: the adjustments an administrator may request

ASSUME CreditsAssumption ==
  /\ MaxContracts \in Nat
  /\ Deltas \subseteq Int \ {0}

(***************************************************************************)
(* Contracts are numbered in the order of createdAt.  Contract c has       *)
(* exactly one wallet, created in the same transaction, so c also names    *)
(* the wallet.                                                             *)
(***************************************************************************)
ContractIds == 1..MaxContracts

VARIABLES
  wallet,   \* the row of each wallet
  posted,   \* posted[w][t]: sum of the amounts of the entries of type t
  charged,  \* charged[r][w]: what entries that reference reservation r say
  spent,    \* spent[r]: debits less refunds of the entries that reference r
  unposted  \* history: changes of the balance whose entry is not written yet

creditVars == <<wallet, posted, charged, spent, unposted>>

EntryTypes == {"CREDIT", "DEBIT", "REFUND", "ADJUSTMENT"}

Wallet == [balance : Int, totalGranted : Int, totalUsed : Int]
Charge == [debit : Int, refund : Int]

CreditsTypeOK ==
  /\ wallet \in [ContractIds -> Wallet]
  /\ posted \in [ContractIds -> [EntryTypes -> Int]]
  /\ charged \in [Requests -> [ContractIds -> Charge]]
  /\ spent \in [Requests -> Int]
  /\ unposted \in [ContractIds -> Int]

CreditsInit ==
  /\ wallet = [w \in ContractIds |->
                 [balance |-> 0, totalGranted |-> 0, totalUsed |-> 0]]
  /\ posted = [w \in ContractIds |-> [t \in EntryTypes |-> 0]]
  /\ charged = [r \in Requests |->
                  [w \in ContractIds |-> [debit |-> 0, refund |-> 0]]]
  /\ spent = [r \in Requests |-> 0]
  /\ unposted = [w \in ContractIds |-> 0]

LedgerTotal(w) ==
  posted[w]["CREDIT"] + posted[w]["DEBIT"]
    + posted[w]["REFUND"] + posted[w]["ADJUSTMENT"]

Post(w, type, amount) == posted' = [posted EXCEPT ![w][type] = @ + amount]

-----------------------------------------------------------------------------
(* Operations that run inside a caller's transaction *)

\* The columns each operation writes.
Granted(row, n) ==
  [balance |-> row.balance + n, totalGranted |-> row.totalGranted + n,
   totalUsed |-> row.totalUsed]
Debited(row, n) ==
  [balance |-> row.balance - n, totalGranted |-> row.totalGranted,
   totalUsed |-> row.totalUsed + n]
\* Slip: the aggregate is forgotten.
RefundedBalanceOnly(row, n) == [row EXCEPT !.balance = @ + n]

Refunded(row, n) ==
  [balance |-> row.balance + n, totalGranted |-> row.totalGranted,
   totalUsed |-> row.totalUsed - n]

\* grant: also what contract creation writes by hand for a new wallet.
Grant(w, n) ==
  /\ wallet' = [wallet EXCEPT ![w] = Granted(@, n)]
  /\ Post(w, "CREDIT", n)
  /\ UNCHANGED <<charged, spent, unposted>>

\* Slip: an unconditional decrement.
CoversAnything(w, n) == TRUE

\* The WHERE clause of the conditional UPDATE.
Covers(w, n) == wallet[w].balance >= n

\* debit: disabled when the UPDATE matches no row and the handler throws.
Debit(w, n, r) ==
  /\ Covers(w, n)
  /\ wallet' = [wallet EXCEPT ![w] = Debited(@, n)]
  /\ Post(w, "DEBIT", -n)
  /\ charged' = [charged EXCEPT ![r][w] =
                  [debit |-> @.debit + n, refund |-> @.refund]]
  /\ spent' = [spent EXCEPT ![r] = @ + n]
  /\ UNCHANGED unposted

Refund(w, n, r) ==
  /\ wallet' = [wallet EXCEPT ![w] = Refunded(@, n)]
  /\ Post(w, "REFUND", n)
  /\ charged' = [charged EXCEPT ![r][w] =
                  [debit |-> @.debit, refund |-> @.refund + n]]
  /\ spent' = [spent EXCEPT ![r] = @ - n]
  /\ UNCHANGED unposted

-----------------------------------------------------------------------------
(* POST /credits/wallets/:id/adjust *)

AdjustLocals == [wallet : ContractIds, delta : Int]

\* First write of adjust: the balance, never below zero.
MoveBalance(w, delta) ==
  /\ delta < 0 => Covers(w, -delta)
  /\ wallet' = [wallet EXCEPT ![w].balance = @ + delta]
  /\ unposted' = [unposted EXCEPT ![w] = @ + delta]
  /\ UNCHANGED <<posted, charged, spent>>

\* Slip: a negative adjustment is entered like a positive one.
RecordMagnitude(w, delta) ==
  /\ Post(w, "ADJUSTMENT", IF delta < 0 THEN -delta ELSE delta)
  /\ unposted' = [unposted EXCEPT ![w] = @ - delta]
  /\ UNCHANGED <<wallet, charged, spent>>

\* Second write of adjust: the ledger entry.
RecordAdjustment(w, delta) ==
  /\ Post(w, "ADJUSTMENT", delta)
  /\ unposted' = [unposted EXCEPT ![w] = @ - delta]
  /\ UNCHANGED <<wallet, charged, spent>>

AdjustBalance(q, w, delta) ==
  /\ Begin(q, "adjust_entry", [wallet |-> w, delta |-> delta])
  /\ MoveBalance(w, delta)

AdjustEntry(q) ==
  /\ pc[q] = "adjust_entry"
  /\ RecordAdjustment(loc[q].wallet, loc[q].delta)
  /\ Finish(q)

=============================================================================
