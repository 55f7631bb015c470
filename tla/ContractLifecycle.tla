-------------------------- MODULE ContractLifecycle --------------------------
(***************************************************************************)
(* Contracts on their own: an administrator creates, patches and renews    *)
(* them, the clock runs, and the worker's daily job alerts the owners of   *)
(* those about to end and expires the overdue.                             *)
(***************************************************************************)
EXTENDS ContractAlerts

lifecycleVars == <<runtimeVars, creditVars, contractVars, alertVars>>

Init == RuntimeInit /\ CreditsInit /\ ContractsInit /\ AlertsInit

Next ==
  \/ ContractsChange /\ UNCHANGED alertVars
  \/ AlertsStep
  \/ /\ Tick \/ \E q \in Requests : Abort(q)
     /\ UNCHANGED <<creditVars, contractVars, alertVars>>

(***************************************************************************)
(* The scheduler enqueues the job every day and the worker takes it and    *)
(* goes on with it: weak fairness of its calls.  A worker may die in the   *)
(* middle of a sweep, but not in every one before it gets to a given       *)
(* contract: strong fairness of each update (its deaths while alerting are *)
(* bounded).  A renewal that was started ends, or its request dies.        *)
(***************************************************************************)
Fairness ==
  /\ WF_lifecycleVars(AlertRead)
  /\ WF_lifecycleVars(AlertNotify \/ \E c \in ContractIds : AlertLook(c))
  /\ WF_lifecycleVars(AlertsThenSweep)
  /\ \A c \in ContractIds : SF_lifecycleVars(SweepExpire(c) /\ UNCHANGED alertVars)
  /\ \A q \in Requests : WF_lifecycleVars(RenewCommit(q) /\ UNCHANGED alertVars)

Spec == Init /\ [][Next]_lifecycleVars /\ Fairness

-----------------------------------------------------------------------------

\* A contract that is past its end date does not stay ACTIVE for ever, however
\* often the worker dies, whatever renewals and patches come in between.
OverdueIsExpired ==
  \A c \in ContractIds :
    (contracts[c].status = "ACTIVE" /\ contracts[c].endDate < now) ~>
      ~(contracts[c].status = "ACTIVE" /\ contracts[c].endDate < now)

=============================================================================
