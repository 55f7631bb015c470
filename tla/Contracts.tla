----------------------------- MODULE Contracts -----------------------------
(***************************************************************************)
(* Service contracts (ContractsService): what an administrator does to     *)
(* them, and the daily job that expires the overdue ones.  Contract c owns *)
(* wallet c of module Credits.                                             *)
(***************************************************************************)
EXTENDS Credits

CONSTANTS
  Users,          \* the clients
  ContractTerms,  \* bound: the terms contracts may be created with
  Patches,        \* bound: the partial updates an administrator may send
  RenewalDates,   \* bound: the end dates a renewal may ask for
  NoUser          \* the user of a contract that does not exist

ContractStatuses == {"ACTIVE", "EXPIRING_SOON", "EXPIRED", "RENEWAL"}

PatchFields ==
  [status : ContractStatuses \cup {Keep}, endDate : Times \cup {Keep},
   monthlyHours : (Nat \ {0}) \cup {Keep}, cancellationLimit : Nat \cup {Keep},
   cancellationWindowHours : Nat \cup {Keep}]

ASSUME ContractsAssumption ==
  /\ NoUser \notin Users
  /\ Keep \notin ContractStatuses \cup Int
  /\ ContractTerms \subseteq
       [user : Users, endDate : Times, monthlyHours : Nat \ {0},
        cancellationLimit : Nat, cancellationWindowHours : Nat]
  /\ Patches \subseteq PatchFields
  /\ RenewalDates \subseteq Times

VARIABLES
  contracts,   \* the row of each contract; status "NONE" when there is none
  lateRefunds  \* history: late cancellations refunded since the last renewal

contractVars == <<contracts, lateRefunds>>

Contract ==
  [user : Users \cup {NoUser}, status : ContractStatuses \cup {"NONE"},
   endDate : Times, monthlyHours : Nat, cancellationLimit : Nat,
   cancellationWindowHours : Nat, cancellationsUsed : Nat]

ContractsTypeOK ==
  /\ contracts \in [ContractIds -> Contract]
  /\ lateRefunds \in [ContractIds -> Nat]

NoContract ==
  [user |-> NoUser, status |-> "NONE", endDate |-> 0, monthlyHours |-> 0,
   cancellationLimit |-> 0, cancellationWindowHours |-> 0,
   cancellationsUsed |-> 0]

ContractsInit ==
  /\ contracts = [c \in ContractIds |-> NoContract]
  /\ lateRefunds = [c \in ContractIds |-> 0]

Exists(c) == contracts[c].status # "NONE"

\* The condition of the expiry job's query.
Overdue(c) == contracts[c].status = "ACTIVE" /\ contracts[c].endDate < now

\* Slip: the filter on the user is missing.
UsableByAnyone(u) ==
  {c \in ContractIds : /\ contracts[c].status = "ACTIVE"
                       /\ contracts[c].endDate >= now}

\* Contracts ReservationsService accepts for user u.
Usable(u) ==
  {c \in ContractIds : /\ contracts[c].user = u
                       /\ contracts[c].status = "ACTIVE"
                       /\ contracts[c].endDate >= now}

\* findActiveContract: the most recently created of them.
IsActiveContract(c, u) ==
  /\ c \in Usable(u)
  /\ \A d \in Usable(u) : d <= c

-----------------------------------------------------------------------------
(* Administration *)

\* POST /contracts: the contract, its wallet and the opening entry.
CreateContract(c, terms) ==
  /\ Idle
  /\ ~Exists(c)
  /\ \A d \in ContractIds : d < c => Exists(d)
  /\ contracts' = [contracts EXCEPT ![c] =
       [user |-> terms.user, status |-> "ACTIVE", endDate |-> terms.endDate,
        monthlyHours |-> terms.monthlyHours,
        cancellationLimit |-> terms.cancellationLimit,
        cancellationWindowHours |-> terms.cancellationWindowHours,
        cancellationsUsed |-> 0]]
  /\ Grant(c, terms.monthlyHours)
  /\ UNCHANGED lateRefunds

Patched(contract, p) ==
  [contract EXCEPT
     !.status = Either(p.status, @),
     !.endDate = Either(p.endDate, @),
     !.monthlyHours = Either(p.monthlyHours, @),
     !.cancellationLimit = Either(p.cancellationLimit, @),
     !.cancellationWindowHours = Either(p.cancellationWindowHours, @)]

\* PATCH /contracts/:id: writes whatever fields the body holds.
UpdateContract(c, p) ==
  /\ Idle
  /\ Exists(c)
  /\ contracts' = [contracts EXCEPT ![c] = Patched(@, p)]
  /\ UNCHANGED <<creditVars, lateRefunds>>

\* POST /contracts/:id/renew: the reads before the transaction.
RenewRead(q, c, endDate) ==
  /\ Begin(q, "renew_commit", [contract |-> c, endDate |-> endDate,
                               hours |-> contracts[c].monthlyHours])
  /\ Exists(c)
  /\ endDate > now
  /\ UNCHANGED <<creditVars, contractVars>>

RenewLocals == [contract : ContractIds, endDate : Times, hours : Nat]

\* The renewal transaction grants the monthlyHours read before it.
RenewCommit(q) ==
  LET c == loc[q].contract IN
  /\ pc[q] = "renew_commit"
  /\ contracts' = [contracts EXCEPT ![c].endDate = loc[q].endDate,
                                    ![c].status = "ACTIVE",
                                    ![c].cancellationsUsed = 0]
  /\ lateRefunds' = [lateRefunds EXCEPT ![c] = 0]
  /\ Grant(c, loc[q].hours)
  /\ Finish(q)

-----------------------------------------------------------------------------
(* The daily job: expireOverdueContracts *)

\* Slip: only contracts that ended yesterday are looked for.
JobListYesterday ==
  {c \in ContractIds : contracts[c].status = "ACTIVE" /\ contracts[c].endDate = now - 1}

JobList == {c \in ContractIds : Overdue(c)}

SweepRead ==
  /\ job = {}
  /\ CanStart
  /\ job' = JobList
  /\ UNCHANGED <<now, pc, loc, creditVars, contractVars>>

\* One transaction per contract of the list, with no second look at the row.
SweepExpire(c) ==
  /\ c \in job
  /\ contracts' = [contracts EXCEPT ![c].status = "EXPIRED"]
  /\ job' = job \ {c}
  /\ UNCHANGED <<now, pc, loc, creditVars, lateRefunds>>

\* The worker dies; BullMQ runs the job again from its query (SweepRead).
SweepAbort ==
  /\ Crashes
  /\ job # {}
  /\ job' = {}
  /\ UNCHANGED <<now, pc, loc, creditVars, contractVars>>

ContractsChange ==
  \/ \E c \in ContractIds :
       \/ \E terms \in ContractTerms : CreateContract(c, terms)
       \/ \E p \in Patches : UpdateContract(c, p)
       \/ \E q \in Requests, endDate \in RenewalDates : RenewRead(q, c, endDate)
       \/ SweepExpire(c)
  \/ \E q \in Requests : RenewCommit(q)
  \/ SweepAbort

ContractsStep == ContractsChange \/ SweepRead

=============================================================================
