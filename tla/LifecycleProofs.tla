--------------------------- MODULE LifecycleProofs ---------------------------
(***************************************************************************)
(* Theorems about ContractLifecycle for every choice of its constants.     *)
(***************************************************************************)
EXTENDS ContractLifecycle, TLAPS

AlertingJobs ==
  [at : Times, left : SUBSET ContractIds, due : ContractIds \cup {0}]

\* Types, and a job that started in the past.
JobsOK ==
  /\ now \in Times
  /\ alerts \in [ContractIds -> [Times -> Nat]]
  /\ alerting # Off => alerting \in AlertingJobs /\ alerting.at <= now

\* What the job found out about the contract it is about to alert still holds.
DueIsUnalerted ==
  alerting # Off /\ alerting.due # 0 =>
    \A t \in Times : Day(t) >= Day(alerting.at) => alerts[alerting.due][t] = 0

AlertsInvariant == JobsOK /\ DueIsUnalerted /\ AlertedOncePerDay

-----------------------------------------------------------------------------

\* A later time is not on an earlier day.
LEMMA DaysInOrder ==
  ASSUME NEW s \in Times, NEW t \in Times, s <= t
  PROVE  Day(s) <= Day(t)
BY AlertsAssumption, RuntimeAssumption DEF Times, Day

LEMMA InitAlerts == Init => AlertsInvariant
<1> SUFFICES ASSUME Init PROVE AlertsInvariant
  OBVIOUS
<1>1. now = 0 /\ alerting = Off
      /\ alerts = [c \in ContractIds |-> [t \in Times |-> 0]]
  BY DEF Init, RuntimeInit, AlertsInit
<1>2. JobsOK
  BY <1>1, RuntimeAssumption DEF JobsOK, Times
<1>3. AlertedOncePerDay
  BY <1>1 DEF AlertedOncePerDay
<1> QED BY <1>1, <1>2, <1>3 DEF AlertsInvariant, DueIsUnalerted

\* Nothing but the alerting job touches what the invariant speaks of; the
\* clock only moves on.
LEMMA ElsewhereAlerts ==
  ASSUME AlertsInvariant, UNCHANGED <<alerts, alerting>>,
         UNCHANGED now \/ Tick
  PROVE  AlertsInvariant'
<1>1. now' \in Times /\ now <= now'
  BY RuntimeAssumption DEF AlertsInvariant, JobsOK, Tick, Times
<1>2. JobsOK'
  BY <1>1 DEF AlertsInvariant, JobsOK, AlertingJobs, Times
<1> QED BY <1>2 DEF AlertsInvariant, DueIsUnalerted, AlertedOncePerDay

LEMMA AlertReadAlerts ==
  ASSUME AlertsInvariant, AlertRead
  PROVE  AlertsInvariant'
<1>1. alerting' = Alerting(now, Expiring, 0) /\ UNCHANGED <<now, alerts>>
  BY DEF AlertRead, runtimeVars
<1>2. JobsOK'
  BY <1>1 DEF AlertsInvariant, JobsOK, AlertingJobs, Alerting, Expiring, Times
<1>3. DueIsUnalerted' /\ AlertedOncePerDay'
  BY <1>1 DEF AlertsInvariant, DueIsUnalerted, AlertedOncePerDay, Alerting
<1> QED BY <1>2, <1>3 DEF AlertsInvariant

LEMMA AlertLookAlerts ==
  ASSUME AlertsInvariant, NEW c \in ContractIds, AlertLook(c)
  PROVE  AlertsInvariant'
<1>1. /\ alerting \in AlertingJobs
      /\ alerting.at <= now
      /\ UNCHANGED <<now, alerts>>
  BY DEF AlertsInvariant, JobsOK, AlertLook, runtimeVars
<1>2. CASE AlreadySeen(c, alerting.at)
  <2>1. alerting' = Alerting(alerting.at, alerting.left \ {c}, 0)
    BY <1>2 DEF AlertLook
  <2>2. JobsOK'
    BY <1>1, <2>1 DEF AlertsInvariant, JobsOK, AlertingJobs, Alerting
  <2>3. DueIsUnalerted' /\ AlertedOncePerDay'
    BY <1>1, <2>1 DEF AlertsInvariant, DueIsUnalerted, AlertedOncePerDay, Alerting
  <2> QED BY <2>2, <2>3 DEF AlertsInvariant
<1>3. CASE ~AlreadySeen(c, alerting.at)
  <2>1. alerting' = Alerting(alerting.at, alerting.left, c)
    BY <1>3 DEF AlertLook
  <2>2. JobsOK'
    BY <1>1, <2>1 DEF AlertsInvariant, JobsOK, AlertingJobs, Alerting
  <2>3. ASSUME NEW t \in Times, Day(t) >= Day(alerting.at)
        PROVE  alerts[c][t] = 0
    BY <1>3, <2>3 DEF AlreadySeen, AlertsInvariant, JobsOK
  <2>4. DueIsUnalerted'
    BY <1>1, <2>1, <2>3 DEF DueIsUnalerted, Alerting, Day
  <2>5. AlertedOncePerDay'
    BY <1>1 DEF AlertsInvariant, AlertedOncePerDay
  <2> QED BY <2>2, <2>4, <2>5 DEF AlertsInvariant
<1> QED BY <1>2, <1>3

\* The contract had no alert of the job's day or later, so none of today's.
LEMMA AlertNotifyAlerts ==
  ASSUME AlertsInvariant, AlertNotify
  PROVE  AlertsInvariant'
<1> DEFINE due == alerting.due
<1>1. /\ alerting \in AlertingJobs
      /\ alerting.at <= now
      /\ now \in Times
      /\ due \in ContractIds
      /\ alerts \in [ContractIds -> [Times -> Nat]]
  BY DEF AlertsInvariant, JobsOK, AlertNotify, AlertingJobs
<1>2. /\ alerts' = [alerts EXCEPT ![due] = [alerts[due] EXCEPT ![now] = alerts[due][now] + 1]]
      /\ alerting' = Alerting(alerting.at, alerting.left \ {due}, 0)
      /\ UNCHANGED now
  BY DEF AlertNotify, runtimeVars
<1>3. ASSUME NEW t \in Times, Day(t) = Day(now)
      PROVE  alerts[due][t] = 0
  <2>1. Day(now) >= Day(alerting.at)
    BY <1>1, DaysInOrder, RuntimeAssumption, AlertsAssumption DEF AlertingJobs, Times, Day
  <2> QED BY <1>3, <2>1 DEF AlertsInvariant, DueIsUnalerted, AlertNotify
<1>4. JobsOK'
  <2>1. [alerts[due] EXCEPT ![now] = alerts[due][now] + 1] \in [Times -> Nat]
    BY <1>1
  <2>2. alerts' \in [ContractIds -> [Times -> Nat]]
    BY <1>1, <1>2, <2>1
  <2> QED BY <1>1, <1>2, <2>2 DEF JobsOK, AlertingJobs, Alerting
<1>5. DueIsUnalerted'
  BY <1>2 DEF DueIsUnalerted, Alerting
<1>6. AlertedOncePerDay'
  <2> SUFFICES ASSUME NEW c \in ContractIds, NEW t \in Times, NEW s \in Times,
                      Day(t) = Day(s)
               PROVE  alerts'[c][t] + (IF s = t THEN 0 ELSE alerts'[c][s]) <= 1
    BY DEF AlertedOncePerDay, Day
  <2>1. alerts[c][t] + (IF s = t THEN 0 ELSE alerts[c][s]) <= 1
    BY DEF AlertsInvariant, AlertedOncePerDay
  <2>2. CASE c = due /\ Day(t) = Day(now)
    <3>1. alerts[due][t] = 0 /\ alerts[due][s] = 0
      BY <1>3, <2>2
    <3>2. /\ alerts'[c][t] = IF t = now THEN 1 ELSE 0
          /\ alerts'[c][s] = IF s = now THEN 1 ELSE 0
      BY <1>1, <1>2, <2>2, <3>1
    <3> QED BY <3>2
  <2>3. CASE c # due \/ Day(t) # Day(now)
    <3>1. alerts'[c][t] = alerts[c][t] /\ alerts'[c][s] = alerts[c][s]
      BY <1>1, <1>2, <2>3
    <3> QED BY <2>1, <3>1
  <2> QED BY <2>2, <2>3
<1> QED BY <1>4, <1>5, <1>6 DEF AlertsInvariant

LEMMA AlertingEndsAlerts ==
  ASSUME AlertsInvariant, AlertsThenSweep \/ AlertAbort
  PROVE  AlertsInvariant'
<1>1. alerting' = Off /\ UNCHANGED <<now, alerts>>
  BY DEF AlertsThenSweep, AlertAbort, SweepRead, runtimeVars
<1> QED BY <1>1 DEF AlertsInvariant, JobsOK, DueIsUnalerted, AlertedOncePerDay

LEMMA NextAlerts == AlertsInvariant /\ [Next]_lifecycleVars => AlertsInvariant'
<1> SUFFICES ASSUME AlertsInvariant, [Next]_lifecycleVars
             PROVE  AlertsInvariant'
  OBVIOUS
<1>1. CASE ContractsChange /\ UNCHANGED alertVars
  <2>1. UNCHANGED now
    BY <1>1 DEF ContractsChange, CreateContract, UpdateContract, RenewRead,
                RenewCommit, SweepExpire, SweepAbort, Idle, Begin, Finish, Goto,
                runtimeVars
  <2> QED BY <1>1, <2>1, ElsewhereAlerts DEF alertVars
<1>2. CASE AlertsStep
  BY <1>2, AlertReadAlerts, AlertLookAlerts, AlertNotifyAlerts, AlertingEndsAlerts
     DEF AlertsStep
<1>3. CASE (Tick \/ \E q \in Requests : Abort(q)) /\ UNCHANGED alertVars
  BY <1>3, ElsewhereAlerts DEF Abort, Finish, Goto, alertVars
<1>4. CASE UNCHANGED lifecycleVars
  BY <1>4, ElsewhereAlerts DEF lifecycleVars, runtimeVars, alertVars
<1> QED BY <1>1, <1>2, <1>3, <1>4 DEF Next

\* With any number of contracts and any day length, a client hears that a
\* contract is near its end at most once a day, whatever jobs die and run again
\* (alertExpiringContracts and its look-back to the start of the day).
THEOREM AlertsOncePerDay == Spec => []AlertedOncePerDay
<1>1. AlertsInvariant => AlertedOncePerDay
  BY DEF AlertsInvariant
<1> QED BY <1>1, InitAlerts, NextAlerts, PTL DEF Spec

=============================================================================
