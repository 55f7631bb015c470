--------------------------- MODULE ContractAlerts ---------------------------
(***************************************************************************)
(* The first half of the contracts job: alertExpiringContracts tells the   *)
(* owner of a contract that its end is near, once a day; the expiry sweep  *)
(* of module Contracts follows in the same job.  The worker takes one job  *)
(* at a time, and runs a job whose worker died again from its start.       *)
(***************************************************************************)
EXTENDS Contracts

CONSTANTS
  Thresholds,  \* days before its end at which a contract is near it
  DayLength,   \* the hours of a day
  MaxDeaths    \* bound: how often a worker dies while it alerts

ASSUME AlertsAssumption ==
  /\ Thresholds \subseteq Nat /\ Thresholds # {}
  /\ DayLength \in Nat \ {0}
  /\ MaxDeaths \in Nat

VARIABLES
  alerts,    \* alerts[c][t]: how many CONTRACT_EXPIRING alerts of c were made at t
  alerting,  \* the alerting job under way, or Off
  deaths     \* workers that have died while alerting

alertVars == <<alerts, alerting, deaths>>

Off == <<>>

\* at: the job's now; left: contracts not dealt with; due: the one found unalerted.
Alerting(at, left, due) == [at |-> at, left |-> left, due |-> due]

AlertsInit ==
  /\ alerts = [c \in ContractIds |-> [t \in Times |-> 0]]
  /\ alerting = Off
  /\ deaths = 0

Day(t) == t \div DayLength

\* ACTIVE, and ending between now and the widest threshold from now.
Expiring ==
  {c \in ContractIds :
     /\ contracts[c].status = "ACTIVE"
     /\ \E days \in Thresholds :
          contracts[c].endDate \in now..(now + days * DayLength)}

AlertRead ==
  /\ alerting = Off
  /\ job = {}
  /\ CanStart
  /\ alerting' = Alerting(now, Expiring, 0)
  /\ UNCHANGED <<runtimeVars, creditVars, contractVars, alerts, deaths>>

\* Slip: no look at what was sent before.
NeverAlerted(c, since) == FALSE

\* An alert of c created on or after the first hour of the job's day.
AlreadySeen(c, since) ==
  \E t \in Times : Day(t) >= Day(since) /\ alerts[c][t] > 0

AlertLook(c) ==
  /\ alerting # Off
  /\ alerting.due = 0
  /\ c \in alerting.left
  /\ alerting' = IF AlreadySeen(c, alerting.at)
                 THEN Alerting(alerting.at, alerting.left \ {c}, 0)
                 ELSE Alerting(alerting.at, alerting.left, c)
  /\ UNCHANGED <<runtimeVars, creditVars, contractVars, alerts, deaths>>

AlertNotify ==
  /\ alerting # Off
  /\ alerting.due # 0
  /\ alerts' = [alerts EXCEPT ![alerting.due][now] = @ + 1]
  /\ alerting' = Alerting(alerting.at, alerting.left \ {alerting.due}, 0)
  /\ UNCHANGED <<runtimeVars, creditVars, contractVars, deaths>>

\* ContractsProcessor.process: the sweep follows the alerts.
AlertsThenSweep ==
  /\ alerting # Off
  /\ alerting.left = {}
  /\ SweepRead
  /\ alerting' = Off
  /\ UNCHANGED <<alerts, deaths>>

AlertAbort ==
  /\ Crashes
  /\ alerting # Off
  /\ deaths < MaxDeaths
  /\ deaths' = deaths + 1
  /\ alerting' = Off
  /\ UNCHANGED <<runtimeVars, creditVars, contractVars, alerts>>

AlertsStep ==
  \/ AlertRead \/ AlertNotify \/ AlertsThenSweep \/ AlertAbort
  \/ \E c \in ContractIds : AlertLook(c)

(***************************************************************************)
(* A client hears that a contract is near its end at most once a day, with *)
(* jobs that die anywhere and run again, run across midnight or repeatedly *)
(* on one day, and whatever the dates are changed to in between.           *)
(***************************************************************************)
AlertedOncePerDay ==
  \A c \in ContractIds, t \in Times, s \in Times :
    Day(t) = Day(s) => alerts[c][t] + (IF s = t THEN 0 ELSE alerts[c][s]) <= 1

=============================================================================
