---------------------------- MODULE BookingProofs ----------------------------
(***************************************************************************)
(* Theorems about Booking for every choice of its constants.               *)
(*                                                                         *)
(* Every step is first classified by its effect on the wallets (one call   *)
(* of CreditsService, or none) and on the reservations table (one row that *)
(* the exclusion constraint admits, or none); the invariants then follow   *)
(* from the few kinds of effect, not from the many handlers.               *)
(***************************************************************************)
EXTENDS Booking, TLAPS

\* What a step may do to the wallets and the ledger.
CreditStep ==
  \/ UNCHANGED creditVars
  \/ \E w \in ContractIds, n \in Nat : Grant(w, n)
  \/ \E w \in ContractIds, n \in Nat, r \in Requests : Debit(w, n, r)
  \/ \E w \in ContractIds, n \in Nat, r \in Requests : Refund(w, n, r)
  \/ \E w \in ContractIds, d \in Int : MoveBalance(w, d)
  \/ \E w \in ContractIds, d \in Int : RecordAdjustment(w, d)

\* What a step may do to the reservations table.
ReservationStep ==
  \/ UNCHANGED reservations
  \/ \E r \in Requests, row \in Reservation : Admits(r, row) /\ Write(r, row)

-----------------------------------------------------------------------------
(* Requests and their locals *)

\* Moving a request to a stage with locals of that stage keeps the types of
\* the request table.
LEMMA GotoType ==
  ASSUME RuntimeTypeOK, NEW q \in Requests, NEW stage \in Stages, NEW locals,
         FitsStage(locals, stage), Goto(q, stage, locals)
  PROVE  RuntimeTypeOK'
<1>1. /\ pc' = [pc EXCEPT ![q] = stage]
      /\ loc' = [loc EXCEPT ![q] = locals]
      /\ now' = now /\ job' = job
  BY DEF Goto
<1>2. pc' \in [Requests -> Stages] /\ DOMAIN loc' = Requests
  BY <1>1 DEF RuntimeTypeOK
<1>3. ASSUME NEW p \in Requests PROVE FitsStage(loc'[p], pc'[p])
  <2>1. CASE p = q
    <3>1. pc'[p] = stage /\ loc'[p] = locals
      BY <2>1, <1>1 DEF RuntimeTypeOK
    <3> QED BY <3>1
  <2>2. CASE p # q
    <3>1. pc'[p] = pc[p] /\ loc'[p] = loc[p]
      BY <2>2, <1>1 DEF RuntimeTypeOK
    <3> QED BY <3>1 DEF RuntimeTypeOK
  <2> QED BY <2>1, <2>2
<1>4. now' \in Times /\ job' \subseteq ContractIds
  BY <1>1 DEF RuntimeTypeOK
<1> QED BY <1>2, <1>3, <1>4 DEF RuntimeTypeOK

\* The same when the request is new.
LEMMA BeginType ==
  ASSUME RuntimeTypeOK, NEW q \in Requests, NEW stage \in Stages, NEW locals,
         FitsStage(locals, stage), Begin(q, stage, locals)
  PROVE  RuntimeTypeOK'
BY GotoType DEF Begin, Goto

\* The same when the handler ends.
LEMMA FinishType ==
  ASSUME RuntimeTypeOK, NEW q \in Requests, Finish(q)
  PROVE  RuntimeTypeOK'
<1>1. FitsStage(NoLocals, "done") /\ "done" \in Stages
  BY DEF FitsStage, Stages
<1> QED BY <1>1, GotoType DEF Finish

-----------------------------------------------------------------------------
(* What each action does *)

\* The types after a step, and its effect on wallets and reservations.
Effect ==
  /\ RuntimeTypeOK'
  /\ CreditStep
  /\ ContractsTypeOK'
  /\ SchedulesTypeOK'
  /\ ReservationStep

\* A step that leaves a part of the state alone keeps its types.
LEMMA UnchangedTypes ==
  ASSUME TypeOK
  PROVE  /\ UNCHANGED runtimeVars => RuntimeTypeOK'
         /\ UNCHANGED creditVars => CreditStep
         /\ UNCHANGED contractVars => ContractsTypeOK'
         /\ UNCHANGED scheduleVars => SchedulesTypeOK'
         /\ UNCHANGED reservations => ReservationStep
<1>1. UNCHANGED runtimeVars => RuntimeTypeOK'
  BY DEF TypeOK, RuntimeTypeOK, runtimeVars
<1>2. UNCHANGED contractVars => ContractsTypeOK'
  BY DEF TypeOK, ContractsTypeOK, contractVars
<1>3. UNCHANGED scheduleVars => SchedulesTypeOK'
  BY DEF TypeOK, SchedulesTypeOK, scheduleVars
<1> QED BY <1>1, <1>2, <1>3 DEF CreditStep, ReservationStep

\* Every step of POST /reservations keeps the types of the request table and
\* writes at most one admitted row and one wallet.
LEMMA CreateEffect ==
  ASSUME TypeOK, NEW q \in Requests,
         \/ \E u \in Users, x \in Rooms, start \in Times, dur \in Durations :
              CreateRead(q, u, x, start, dur)
         \/ CreateSlot(q)
         \/ CreateCommit(q)
  PROVE  Effect
<1>1. RuntimeTypeOK BY DEF TypeOK
<1>2. ASSUME NEW u \in Users, NEW x \in Rooms, NEW start \in Times,
             NEW dur \in Durations, CreateRead(q, u, x, start, dur)
      PROVE  Effect
  <2>1. PICK c \in ContractIds :
          Begin(q, "create_slot", [user |-> u, room |-> x, start |-> start,
                                   dur |-> dur, contract |-> c])
    BY <1>2 DEF CreateRead
  <2>2. FitsStage([user |-> u, room |-> x, start |-> start,
                   dur |-> dur, contract |-> c], "create_slot")
    BY RuntimeAssumption DEF FitsStage, BookingLocals, Times
  <2>3. RuntimeTypeOK'
    BY <1>1, <2>1, <2>2, BeginType DEF Stages
  <2> QED BY <1>2, <2>3, UnchangedTypes DEF CreateRead, Effect
<1>3. ASSUME CreateSlot(q) PROVE Effect
  <2>1. FitsStage(loc[q], "create_commit")
    BY <1>1, <1>3 DEF CreateSlot, RuntimeTypeOK, FitsStage
  <2>2. RuntimeTypeOK'
    BY <1>1, <1>3, <2>1, GotoType, FinishType DEF CreateSlot, Stages
  <2> QED BY <1>3, <2>2, UnchangedTypes DEF CreateSlot, Effect
<1>4. ASSUME CreateCommit(q) PROVE Effect
  <2>1. loc[q] \in BookingLocals
    BY <1>1, <1>4 DEF CreateCommit, RuntimeTypeOK, FitsStage
  <2>2. RuntimeTypeOK'
    BY <1>1, <1>4, FinishType DEF CreateCommit
  <2>3. NewReservation(loc[q]) \in Reservation
    BY <2>1, ReservationsAssumption
    DEF NewReservation, Reservation, BookingLocals, ReservationStatuses
  <2>4. loc[q].contract \in ContractIds /\ loc[q].dur \in Nat
    BY <2>1, ReservationsAssumption DEF BookingLocals
  <2>5. CASE UNCHANGED <<reservations, creditVars>>
    BY <1>4, <2>2, <2>5, UnchangedTypes DEF CreateCommit, Effect
  <2>6. CASE /\ Admits(q, NewReservation(loc[q]))
             /\ Write(q, NewReservation(loc[q]))
             /\ Debit(loc[q].contract, loc[q].dur, q)
    <3>1. CreditStep BY <2>4, <2>6 DEF CreditStep
    <3>2. ReservationStep BY <2>3, <2>6 DEF ReservationStep
    <3> QED BY <1>4, <2>2, <3>1, <3>2, UnchangedTypes DEF CreateCommit, Effect
  <2> QED BY <1>4, <2>5, <2>6 DEF CreateCommit
<1> QED BY <1>2, <1>3, <1>4

\* The same for PATCH /reservations/:id/cancel.
LEMMA CancelEffect ==
  ASSUME TypeOK, NEW q \in Requests,
         \/ \E r \in Requests : CancelRead(q, r)
         \/ CancelContract(q)
         \/ CancelCommit(q)
  PROVE  Effect
<1>1. RuntimeTypeOK /\ ContractsTypeOK /\ ReservationsTypeOK BY DEF TypeOK
<1>2. ASSUME NEW r \in Requests, CancelRead(q, r) PROVE Effect
  <2>1. FitsStage([target |-> r, seen |-> reservations[r]], "cancel_contract")
    BY <1>1 DEF FitsStage, SeenLocals, ReservationsTypeOK
  <2>2. RuntimeTypeOK'
    BY <1>1, <1>2, <2>1, BeginType DEF CancelRead, Stages
  <2> QED BY <1>2, <2>2, UnchangedTypes DEF CancelRead, Effect
<1>3. ASSUME CancelContract(q) PROVE Effect
  <2> DEFINE r == loc[q].seen
  <2>1. loc[q] \in SeenLocals
    BY <1>1, <1>3 DEF CancelContract, RuntimeTypeOK, FitsStage
  <2>2. ASSUME NEW c \in ContractIds,
               Goto(q, "cancel_commit",
                    [target |-> loc[q].target, contract |-> c,
                     credits |-> r.dur, refund |-> Refunds(c, r.start),
                     late |-> Late(c, r.start)])
        PROVE  RuntimeTypeOK'
    <3>1. Refunds(c, r.start) \in BOOLEAN /\ Late(c, r.start) \in BOOLEAN
      BY DEF Refunds, Late, WithinAllowance
    <3>2. FitsStage([target |-> loc[q].target, contract |-> c,
                     credits |-> r.dur, refund |-> Refunds(c, r.start),
                     late |-> Late(c, r.start)], "cancel_commit")
      BY <2>1, <3>1 DEF FitsStage, SeenLocals, CancelLocals, Reservation
    <3> QED BY <1>1, <2>2, <3>2, GotoType DEF Stages
  <2>3. RuntimeTypeOK'
    BY <1>1, <1>3, <2>2, FinishType DEF CancelContract
  <2> QED BY <1>3, <2>3, UnchangedTypes DEF CancelContract, Effect
<1>4. ASSUME CancelCommit(q) PROVE Effect
  <2> DEFINE d == loc[q]
  <2>1. d \in CancelLocals
    BY <1>1, <1>4 DEF CancelCommit, RuntimeTypeOK, FitsStage
  <2>2. RuntimeTypeOK'
    BY <1>1, <1>4, FinishType DEF CancelCommit
  <2>3. CreditStep
    BY <1>4, <2>1 DEF CancelCommit, CancelLocals, CreditStep
  <2>4. ContractsTypeOK'
    <3>1. CASE d.late
      <4>1. CountLate(d.contract, d.refund)
        BY <1>4, <3>1 DEF CancelCommit
      <4>2. d.contract \in ContractIds
        BY <2>1 DEF CancelLocals
      <4>3. contracts' \in [ContractIds -> Contract]
        BY <1>1, <4>1, <4>2 DEF CountLate, ContractsTypeOK, Contract
      <4>4. lateRefunds' \in [ContractIds -> Nat]
        BY <1>1, <4>1, <4>2 DEF CountLate, ContractsTypeOK
      <4> QED BY <4>3, <4>4 DEF ContractsTypeOK
    <3>2. CASE ~d.late
      BY <1>4, <3>2, UnchangedTypes DEF CancelCommit
    <3> QED BY <3>1, <3>2
  <2>5. ReservationStep
    <3> DEFINE row == Cancelled(reservations[d.target])
    <3>1. d.target \in Requests BY <2>1 DEF CancelLocals
    <3>2. row \in Reservation /\ row.status = "CANCELLED"
      BY <1>1, <3>1
      DEF Cancelled, ReservationsTypeOK, Reservation, ReservationStatuses
    <3>3. Admits(d.target, row)
      BY <3>2 DEF Admits, ConstraintStatuses
    <3> QED BY <1>4, <3>1, <3>2, <3>3 DEF CancelCommit, ReservationStep
  <2>6. SchedulesTypeOK' BY <1>4, UnchangedTypes DEF CancelCommit
  <2> QED BY <2>2, <2>3, <2>4, <2>5, <2>6 DEF Effect
<1> QED BY <1>2, <1>3, <1>4

\* A rescheduled row is a row.
LEMMA MovedType ==
  ASSUME NEW row \in Reservation, NEW m, m.start \in Nat, m.dur \in Nat
  PROVE  Moved(row, m) \in Reservation
BY DEF Moved, Reservation

\* The same for PATCH /reservations/:id/reschedule: the debit or refund of the
\* difference is of a wallet that exists.
LEMMA RescheduleEffect ==
  ASSUME TypeOK, NEW q \in Requests,
         \/ \E r \in Requests, start \in Times, dur \in Durations :
              RescheduleRead(q, r, start, dur)
         \/ RescheduleContract(q)
         \/ RescheduleSlot(q)
         \/ RescheduleCommit(q)
  PROVE  Effect
<1>1. RuntimeTypeOK /\ ContractsTypeOK /\ ReservationsTypeOK BY DEF TypeOK
<1>2. ASSUME NEW r \in Requests, NEW start \in Times, NEW dur \in Durations,
             RescheduleRead(q, r, start, dur)
      PROVE  Effect
  <2>1. FitsStage([target |-> r, seen |-> reservations[r], start |-> start,
                   dur |-> dur], "reschedule_contract")
    BY <1>1, RuntimeAssumption
    DEF FitsStage, MoveSeenLocals, ReservationsTypeOK, Times
  <2>2. RuntimeTypeOK'
    BY <1>1, <1>2, <2>1, BeginType DEF RescheduleRead, Stages
  <2> QED BY <1>2, <2>2, UnchangedTypes DEF RescheduleRead, Effect
<1>3. ASSUME RescheduleContract(q) PROVE Effect
  <2> DEFINE m == loc[q]
  <2>1. m \in MoveSeenLocals
    BY <1>1, <1>3 DEF RescheduleContract, RuntimeTypeOK, FitsStage
  <2>2. ASSUME NEW c \in ContractIds,
               Goto(q, "reschedule_slot",
                    [target |-> m.target, room |-> m.seen.room,
                     start |-> m.start, dur |-> m.dur, contract |-> c,
                     delta |-> m.dur - m.seen.dur])
        PROVE  RuntimeTypeOK'
    <3>1. m.dur \in Nat /\ m.seen.dur \in Nat
      BY <2>1, ReservationsAssumption DEF MoveSeenLocals, Reservation
    <3>2. FitsStage([target |-> m.target, room |-> m.seen.room,
                     start |-> m.start, dur |-> m.dur, contract |-> c,
                     delta |-> m.dur - m.seen.dur], "reschedule_slot")
      BY <2>1, <3>1 DEF FitsStage, MoveSeenLocals, MoveLocals, Reservation
    <3> QED BY <1>1, <2>2, <3>2, GotoType DEF Stages
  <2>3. RuntimeTypeOK'
    BY <1>1, <1>3, <2>2, FinishType DEF RescheduleContract
  <2> QED BY <1>3, <2>3, UnchangedTypes DEF RescheduleContract, Effect
<1>4. ASSUME RescheduleSlot(q) PROVE Effect
  <2>1. FitsStage(loc[q], "reschedule_commit")
    BY <1>1, <1>4 DEF RescheduleSlot, RuntimeTypeOK, FitsStage
  <2>2. RuntimeTypeOK'
    BY <1>1, <1>4, <2>1, GotoType, FinishType DEF RescheduleSlot, Stages
  <2> QED BY <1>4, <2>2, UnchangedTypes DEF RescheduleSlot, Effect
<1>5. ASSUME RescheduleCommit(q) PROVE Effect
  <2> DEFINE m == loc[q]
             row == Moved(reservations[m.target], m)
  <2>1. m \in MoveLocals
    BY <1>1, <1>5 DEF RescheduleCommit, RuntimeTypeOK, FitsStage
  <2>2. RuntimeTypeOK'
    BY <1>1, <1>5, FinishType DEF RescheduleCommit
  <2>3. CASE UNCHANGED <<reservations, creditVars>>
    BY <1>5, <2>2, <2>3, UnchangedTypes DEF RescheduleCommit, Effect
  <2>4. CASE Admits(m.target, row) /\ Settle(m) /\ Write(m.target, row)
    <3>1. /\ m.target \in Requests /\ m.contract \in ContractIds
          /\ m.delta \in Int /\ m.dur \in Nat /\ m.start \in Nat
      BY <2>1, ReservationsAssumption DEF MoveLocals
    <3>2. reservations[m.target] \in Reservation
      BY <1>1, <3>1 DEF ReservationsTypeOK
    <3>3. row \in Reservation
      BY <3>1, <3>2, MovedType
    <3>4. ReservationStep BY <2>4, <3>1, <3>3 DEF ReservationStep
    <3>5. m.delta > 0 => m.delta \in Nat
      BY <3>1
    <3>6. m.delta < 0 => -m.delta \in Nat
      BY <3>1
    <3>7. CreditStep
      BY <2>4, <3>1, <3>5, <3>6 DEF Settle, CreditStep
    <3> QED BY <1>5, <2>2, <3>4, <3>7, UnchangedTypes DEF RescheduleCommit, Effect
  <2> QED BY <1>5, <2>3, <2>4 DEF RescheduleCommit
<1> QED BY <1>2, <1>3, <1>4, <1>5

\* The same for no-show and complete, which touch no wallet.
LEMMA CloseEffect ==
  ASSUME TypeOK, NEW q \in Requests,
         \/ \E r \in Requests : MarkNoShowRead(q, r) \/ CompleteRead(q, r)
         \/ MarkNoShowCommit(q)
         \/ CompleteCommit(q)
  PROVE  Effect
<1>1. RuntimeTypeOK /\ ReservationsTypeOK BY DEF TypeOK
<1>2. ASSUME NEW r \in Requests, NEW stage \in {"no_show_commit", "complete_commit"},
             CloseRead(q, r, stage)
      PROVE  Effect
  <2>1. FitsStage([target |-> r], stage) /\ stage \in Stages
    BY <1>2 DEF FitsStage, TargetLocals, Stages
  <2>2. RuntimeTypeOK'
    BY <1>1, <1>2, <2>1, BeginType DEF CloseRead
  <2> QED BY <1>2, <2>2, UnchangedTypes DEF CloseRead, Effect
<1>3. ASSUME NEW stage \in {"no_show_commit", "complete_commit"},
             NEW status \in {"NO_SHOW", "COMPLETED"},
             CloseCommit(q, stage, status)
      PROVE  Effect
  <2> DEFINE r == loc[q].target
             row == [reservations[r] EXCEPT !.status = status]
  <2>1. r \in Requests
    BY <1>1, <1>3 DEF CloseCommit, RuntimeTypeOK, FitsStage, TargetLocals
  <2>2. RuntimeTypeOK'
    BY <1>1, <1>3, FinishType DEF CloseCommit
  <2>3. row \in Reservation
    BY <1>1, <2>1 DEF ReservationsTypeOK, Reservation, ReservationStatuses
  <2>4. ReservationStep
    BY <1>3, <2>1, <2>3 DEF CloseCommit, ReservationStep
  <2> QED BY <1>3, <2>2, <2>4, UnchangedTypes DEF CloseCommit, Effect
<1> QED
  BY <1>2, <1>3 DEF MarkNoShowRead, CompleteRead, MarkNoShowCommit, CompleteCommit

\* The same for every operation on reservations.
LEMMA ReservationsEffect == TypeOK /\ ReservationsStep => Effect
BY CreateEffect, CancelEffect, RescheduleEffect, CloseEffect
DEF ReservationsStep

\* The same for the two writes of a manual adjustment.
LEMMA AdjustEffect ==
  ASSUME TypeOK, AdjustStep,
         UNCHANGED <<contractVars, scheduleVars, reservations>>
  PROVE  Effect
<1>1. RuntimeTypeOK BY DEF TypeOK
<1>2. ASSUME NEW q \in Requests, NEW w \in ContractIds, NEW delta \in Deltas,
             AdjustBalance(q, w, delta)
      PROVE  RuntimeTypeOK' /\ CreditStep
  <2>1. delta \in Int BY CreditsAssumption
  <2>2. FitsStage([wallet |-> w, delta |-> delta], "adjust_entry")
    BY <2>1 DEF FitsStage, AdjustLocals
  <2>3. RuntimeTypeOK'
    BY <1>1, <1>2, <2>2, BeginType DEF AdjustBalance, Stages
  <2> QED BY <1>2, <2>1, <2>3 DEF AdjustBalance, CreditStep
<1>3. ASSUME NEW q \in Requests, AdjustEntry(q)
      PROVE  RuntimeTypeOK' /\ CreditStep
  <2>1. loc[q].wallet \in ContractIds /\ loc[q].delta \in Int
    BY <1>1, <1>3 DEF AdjustEntry, RuntimeTypeOK, FitsStage, AdjustLocals
  <2> QED BY <1>1, <1>3, <2>1, FinishType DEF AdjustEntry, CreditStep
<1> QED BY <1>2, <1>3, UnchangedTypes DEF AdjustStep, Effect

\* The same for the administration of contracts and for the expiry job.
LEMMA ContractsEffect ==
  ASSUME TypeOK, ContractsStep, UNCHANGED <<scheduleVars, reservations>>
  PROVE  Effect
<1>1. RuntimeTypeOK /\ ContractsTypeOK BY DEF TypeOK
<1>2. SchedulesTypeOK' /\ ReservationStep BY UnchangedTypes
<1>3. ASSUME NEW c \in ContractIds, NEW terms \in ContractTerms,
             CreateContract(c, terms)
      PROVE  Effect
  <2>1. RuntimeTypeOK' BY <1>3, UnchangedTypes DEF CreateContract, Idle
  <2>2. terms \in [user : Users, endDate : Times, monthlyHours : Nat,
                   cancellationLimit : Nat, cancellationWindowHours : Nat]
    BY ContractsAssumption
  <2>3. ContractsTypeOK'
    BY <1>1, <1>3, <2>2
    DEF CreateContract, ContractsTypeOK, Contract, ContractStatuses
  <2>4. CreditStep BY <1>3, <2>2 DEF CreateContract, CreditStep
  <2> QED BY <1>2, <2>1, <2>3, <2>4 DEF Effect
<1>4. ASSUME NEW c \in ContractIds, NEW p \in Patches, UpdateContract(c, p)
      PROVE  Effect
  <2>1. RuntimeTypeOK' BY <1>4, UnchangedTypes DEF UpdateContract, Idle
  <2>2. p \in PatchFields /\ contracts[c] \in Contract
    BY <1>1, ContractsAssumption DEF ContractsTypeOK
  <2>3. /\ contracts[c].status # "NONE"
        /\ contracts' = [contracts EXCEPT ![c] = Patched(contracts[c], p)]
    BY <1>4 DEF UpdateContract, Exists
  <2>4. Patched(contracts[c], p) \in Contract
    BY <2>2 DEF Patched, PatchFields, Contract, Either
  <2>5. ContractsTypeOK'
    BY <1>1, <1>4, <2>3, <2>4 DEF UpdateContract, ContractsTypeOK
  <2> QED BY <1>2, <1>4, <2>1, <2>5, UnchangedTypes DEF UpdateContract, Effect
<1>5. ASSUME NEW q \in Requests, NEW c \in ContractIds,
             NEW endDate \in RenewalDates, RenewRead(q, c, endDate)
      PROVE  Effect
  <2>1. FitsStage([contract |-> c, endDate |-> endDate,
                   hours |-> contracts[c].monthlyHours], "renew_commit")
    BY <1>1, ContractsAssumption
    DEF FitsStage, RenewLocals, ContractsTypeOK, Contract
  <2>2. RuntimeTypeOK'
    BY <1>1, <1>5, <2>1, BeginType DEF RenewRead, Stages
  <2> QED BY <1>2, <1>5, <2>2, UnchangedTypes DEF RenewRead, Effect
<1>6. ASSUME NEW q \in Requests, RenewCommit(q) PROVE Effect
  <2>1. loc[q] \in RenewLocals
    BY <1>1, <1>6 DEF RenewCommit, RuntimeTypeOK, FitsStage
  <2>2. RuntimeTypeOK' BY <1>1, <1>6, FinishType DEF RenewCommit
  <2>3. ContractsTypeOK'
    BY <1>1, <1>6, <2>1
    DEF RenewCommit, RenewLocals, ContractsTypeOK, Contract, ContractStatuses
  <2>4. CreditStep BY <1>6, <2>1 DEF RenewCommit, RenewLocals, CreditStep
  <2> QED BY <1>2, <2>2, <2>3, <2>4 DEF Effect
<1>7. ASSUME SweepRead \/ SweepAbort PROVE Effect
  <2>1. RuntimeTypeOK'
    BY <1>1, <1>7 DEF SweepRead, SweepAbort, JobList, RuntimeTypeOK
  <2> QED BY <1>2, <1>7, <2>1, UnchangedTypes DEF SweepRead, SweepAbort, Effect
<1>8. ASSUME NEW c \in ContractIds, SweepExpire(c) PROVE Effect
  <2>1. RuntimeTypeOK' BY <1>1, <1>8 DEF SweepExpire, RuntimeTypeOK
  <2>2. ContractsTypeOK'
    BY <1>1, <1>8 DEF SweepExpire, ContractsTypeOK, Contract, ContractStatuses
  <2> QED BY <1>2, <1>8, <2>1, <2>2, UnchangedTypes DEF SweepExpire, Effect
<1> QED BY <1>3, <1>4, <1>5, <1>6, <1>7, <1>8 DEF ContractsStep, ContractsChange

\* The same for the administration of rules, blocked periods and rooms.
LEMMA SchedulesEffect ==
  ASSUME TypeOK, SchedulesStep,
         UNCHANGED <<creditVars, contractVars, reservations>>
  PROVE  Effect
<1>1. RuntimeTypeOK /\ SchedulesTypeOK BY DEF TypeOK
<1>2. CreditStep /\ ContractsTypeOK' /\ ReservationStep BY UnchangedTypes
<1>3. ASSUME NEW i \in RuleIds, NEW r \in RuleChoices, CreateAvailability(i, r)
      PROVE  Effect
  <2>1. SchedulesTypeOK'
    BY <1>1, <1>3, SchedulesAssumption
    DEF CreateAvailability, SchedulesTypeOK
  <2> QED
    BY <1>2, <1>3, <2>1, UnchangedTypes DEF CreateAvailability, Idle, Effect
<1>4. ASSUME NEW i \in RuleIds, NEW q \in Requests, NEW p \in RulePatches,
             UpdateAvailabilityRead(q, i, p)
      PROVE  Effect
  <2>1. FitsStage([rule |-> i, patch |-> p], "rule_commit")
    BY SchedulesAssumption DEF FitsStage, RuleLocals
  <2>2. RuntimeTypeOK'
    BY <1>1, <1>4, <2>1, BeginType DEF UpdateAvailabilityRead, Stages
  <2> QED
    BY <1>2, <1>4, <2>2, UnchangedTypes DEF UpdateAvailabilityRead, Effect
<1>5. ASSUME NEW i \in RuleIds, DeleteAvailability(i) PROVE Effect
  <2>1. SchedulesTypeOK' BY <1>1, <1>5 DEF DeleteAvailability, SchedulesTypeOK
  <2> QED
    BY <1>2, <1>5, <2>1, UnchangedTypes DEF DeleteAvailability, Idle, Effect
<1>6. ASSUME NEW q \in Requests, UpdateAvailabilityCommit(q) PROVE Effect
  <2> DEFINE i == loc[q].rule
             p == loc[q].patch
  <2>1. i \in RuleIds /\ p \in RulePatch
    BY <1>1, <1>6
    DEF UpdateAvailabilityCommit, RuntimeTypeOK, FitsStage, RuleLocals
  <2>2. RuntimeTypeOK' BY <1>1, <1>6, FinishType DEF UpdateAvailabilityCommit
  <2>3. rules[i] # NoRule => PatchedRule(rules[i], p) \in Rule
    BY <1>1, <2>1 DEF SchedulesTypeOK, PatchedRule, RulePatch, Rule, Either
  <2>4. rules' \in [RuleIds -> Rule \cup {NoRule}]
    BY <1>1, <1>6, <2>1, <2>3 DEF UpdateAvailabilityCommit, SchedulesTypeOK
  <2>5. SchedulesTypeOK'
    BY <1>1, <1>6, <2>4 DEF UpdateAvailabilityCommit, SchedulesTypeOK
  <2> QED BY <1>2, <2>2, <2>5 DEF Effect
<1>7. ASSUME NEW b \in BlockChoices,
             CreateBlockedPeriod(b) \/ DeleteBlockedPeriod(b)
      PROVE  Effect
  <2>1. SchedulesTypeOK'
    BY <1>1, <1>7, SchedulesAssumption
    DEF CreateBlockedPeriod, DeleteBlockedPeriod, SchedulesTypeOK
  <2> QED
    BY <1>2, <1>7, <2>1, UnchangedTypes
    DEF CreateBlockedPeriod, DeleteBlockedPeriod, Idle, Effect
<1>8. ASSUME NEW x \in Rooms, NEW status \in StatusChoices,
             SetRoomStatus(x, status)
      PROVE  Effect
  <2>1. SchedulesTypeOK'
    BY <1>1, <1>8, SchedulesAssumption DEF SetRoomStatus, SchedulesTypeOK
  <2> QED BY <1>2, <1>8, <2>1, UnchangedTypes DEF SetRoomStatus, Idle, Effect
<1> QED BY <1>3, <1>4, <1>5, <1>6, <1>7, <1>8 DEF SchedulesStep

\* Every step of the system, stuttering included, has such an effect.
LEMMA NextEffect == TypeOK /\ [Next]_vars => Effect
<1> SUFFICES ASSUME TypeOK, [Next]_vars PROVE Effect
  OBVIOUS
<1>1. ASSUME Tick \/ \E q \in Requests : Abort(q),
             UNCHANGED <<creditVars, contractVars, scheduleVars, reservations>>
      PROVE  Effect
  <2>1. RuntimeTypeOK BY DEF TypeOK
  <2>2. Tick => RuntimeTypeOK'
    BY <2>1, RuntimeAssumption DEF Tick, RuntimeTypeOK, Times
  <2>3. ASSUME NEW q \in Requests, Abort(q) PROVE RuntimeTypeOK'
    BY <2>1, <2>3, FinishType DEF Abort
  <2> QED BY <1>1, <2>2, <2>3, UnchangedTypes DEF Effect
<1>2. CASE UNCHANGED vars
  BY <1>2, UnchangedTypes DEF vars, Effect
<1> QED
  BY <1>1, <1>2, ReservationsEffect, AdjustEffect, ContractsEffect,
     SchedulesEffect
  DEF Next

-----------------------------------------------------------------------------
(* Types *)

\* Posting an entry keeps the ledger totals integers.
LEMMA PostType ==
  ASSUME CreditsTypeOK, NEW w \in ContractIds, NEW t \in EntryTypes,
         NEW n \in Int, Post(w, t, n)
  PROVE  posted' \in [ContractIds -> [EntryTypes -> Int]]
BY DEF Post, CreditsTypeOK

\* No credit operation takes a balance, a total or an entry out of its type.
LEMMA CreditsTypeStep == CreditsTypeOK /\ CreditStep => CreditsTypeOK'
<1> SUFFICES ASSUME CreditsTypeOK, CreditStep PROVE CreditsTypeOK'
  OBVIOUS
<1>0. "CREDIT" \in EntryTypes /\ "DEBIT" \in EntryTypes /\ "REFUND" \in EntryTypes
  BY DEF EntryTypes
<1>1. ASSUME NEW w \in ContractIds, NEW n \in Nat, Grant(w, n)
      PROVE  CreditsTypeOK'
  <2>1. posted' \in [ContractIds -> [EntryTypes -> Int]]
    BY <1>0, <1>1, PostType DEF Grant
  <2>2. wallet' \in [ContractIds -> Wallet]
    <3>1. Granted(wallet[w], n) \in Wallet
      BY DEF Granted, CreditsTypeOK, Wallet
    <3> QED BY <1>1, <3>1 DEF Grant, CreditsTypeOK
  <2> QED BY <1>1, <2>1, <2>2 DEF Grant, CreditsTypeOK
<1>2. ASSUME NEW w \in ContractIds, NEW n \in Nat, NEW r \in Requests,
             Debit(w, n, r)
      PROVE  CreditsTypeOK'
  <2>1. posted' \in [ContractIds -> [EntryTypes -> Int]]
    BY <1>0, <1>2, PostType DEF Debit
  <2>2. wallet' \in [ContractIds -> Wallet]
    <3>1. Debited(wallet[w], n) \in Wallet
      BY DEF Debited, CreditsTypeOK, Wallet
    <3> QED BY <1>2, <3>1 DEF Debit, CreditsTypeOK
  <2>3. charged' \in [Requests -> [ContractIds -> Charge]]
    <3> DEFINE old == charged[r][w]
               entry == [debit |-> old.debit + n, refund |-> old.refund]
    <3>1. charged \in [Requests -> [ContractIds -> Charge]]
      BY DEF CreditsTypeOK
    <3>2. entry \in Charge BY <3>1 DEF Charge
    <3>3. charged' = [charged EXCEPT ![r] = [charged[r] EXCEPT ![w] = entry]]
      BY <1>2, <3>1 DEF Debit, Charge
    <3> HIDE DEF entry
    <3>4. [charged[r] EXCEPT ![w] = entry] \in [ContractIds -> Charge]
      BY <3>1, <3>2
    <3> QED BY <3>1, <3>3, <3>4
  <2> QED BY <1>2, <2>1, <2>2, <2>3 DEF Debit, CreditsTypeOK
<1>3. ASSUME NEW w \in ContractIds, NEW n \in Nat, NEW r \in Requests,
             Refund(w, n, r)
      PROVE  CreditsTypeOK'
  <2>1. posted' \in [ContractIds -> [EntryTypes -> Int]]
    BY <1>0, <1>3, PostType DEF Refund
  <2>2. wallet' \in [ContractIds -> Wallet]
    <3>1. Refunded(wallet[w], n) \in Wallet
      BY DEF Refunded, CreditsTypeOK, Wallet
    <3> QED BY <1>3, <3>1 DEF Refund, CreditsTypeOK
  <2>3. charged' \in [Requests -> [ContractIds -> Charge]]
    <3> DEFINE old == charged[r][w]
               entry == [debit |-> old.debit, refund |-> old.refund + n]
    <3>1. charged \in [Requests -> [ContractIds -> Charge]]
      BY DEF CreditsTypeOK
    <3>2. entry \in Charge BY <3>1 DEF Charge
    <3>3. charged' = [charged EXCEPT ![r] = [charged[r] EXCEPT ![w] = entry]]
      BY <1>3, <3>1 DEF Refund, Charge
    <3> HIDE DEF entry
    <3>4. [charged[r] EXCEPT ![w] = entry] \in [ContractIds -> Charge]
      BY <3>1, <3>2
    <3> QED BY <3>1, <3>3, <3>4
  <2> QED BY <1>3, <2>1, <2>2, <2>3 DEF Refund, CreditsTypeOK
<1>4. ASSUME NEW w \in ContractIds, NEW d \in Int, MoveBalance(w, d)
      PROVE  CreditsTypeOK'
  BY <1>4 DEF MoveBalance, CreditsTypeOK, Wallet
<1>5. ASSUME NEW w \in ContractIds, NEW d \in Int, RecordAdjustment(w, d)
      PROVE  CreditsTypeOK'
  BY <1>5 DEF RecordAdjustment, Post, CreditsTypeOK, EntryTypes
<1>6. CASE UNCHANGED creditVars
  BY <1>6 DEF creditVars, CreditsTypeOK
<1> QED BY <1>1, <1>2, <1>3, <1>4, <1>5, <1>6 DEF CreditStep

\* A write of the reservations table keeps the type of its rows.
LEMMA ReservationsTypeStep ==
  ReservationsTypeOK /\ ReservationStep => ReservationsTypeOK'
BY DEF ReservationsTypeOK, ReservationStep, Write

\* The empty tables have their types.
LEMMA InitTypes == Init => TypeOK
<1> SUFFICES ASSUME Init PROVE TypeOK
  OBVIOUS
<1>1. RuntimeTypeOK
  BY RuntimeAssumption
  DEF Init, RuntimeInit, RuntimeTypeOK, Times, Stages, FitsStage
<1>2. CreditsTypeOK
  BY DEF Init, CreditsInit, CreditsTypeOK, Wallet, Charge
<1>3. ContractsTypeOK
  BY RuntimeAssumption
  DEF Init, ContractsInit, ContractsTypeOK, Contract, NoContract, Times
<1>4. SchedulesTypeOK
  BY SchedulesAssumption
  DEF Init, SchedulesInit, SchedulesTypeOK, RoomStatuses
<1>5. ReservationsTypeOK
  BY DEF Init, ReservationsInit, ReservationsTypeOK, Reservation, NoReservation
<1> QED BY <1>1, <1>2, <1>3, <1>4, <1>5 DEF TypeOK

\* Every step keeps every type.
LEMMA NextTypes == TypeOK /\ [Next]_vars => TypeOK'
BY NextEffect, CreditsTypeStep, ReservationsTypeStep DEF TypeOK, Effect

\* Every variable keeps its type, and every request holds exactly the local
\* variables its handler has set at the stage it has reached.
THEOREM TypeCorrect == Spec => []TypeOK
BY InitTypes, NextTypes, PTL DEF Spec

-----------------------------------------------------------------------------
(* Rooms *)

\* One admitted write keeps the table free of overlaps, whichever row it
\* writes and whatever the other requests have read.
LEMMA AdmittedWrite ==
  TypeOK /\ NoDoubleBooking /\ ReservationStep => NoDoubleBooking'
<1> SUFFICES ASSUME TypeOK, NoDoubleBooking, ReservationStep,
                    NEW r \in Requests, NEW s \in Requests, r # s,
                    reservations'[r].status \in ConstraintStatuses,
                    reservations'[s].status \in ConstraintStatuses
             PROVE  ~Overlap(reservations'[r], reservations'[s])
  BY DEF NoDoubleBooking
<1>1. CASE UNCHANGED reservations
  BY <1>1 DEF NoDoubleBooking
<1>2. ASSUME NEW t \in Requests, NEW row \in Reservation,
             Admits(t, row), Write(t, row)
      PROVE  ~Overlap(reservations'[r], reservations'[s])
  <2>1. \A p \in Requests :
          reservations'[p] = IF p = t THEN row ELSE reservations[p]
    BY <1>2 DEF Write, TypeOK, ReservationsTypeOK
  <2>2. CASE t = r
    BY <1>2, <2>1, <2>2 DEF Admits
  <2>3. CASE t = s
    <3>1. ~Overlap(row, reservations[r])
      BY <1>2, <2>1, <2>3 DEF Admits
    <3> QED BY <2>1, <2>3, <3>1 DEF Overlap
  <2>4. CASE t # r /\ t # s
    BY <2>1, <2>4 DEF NoDoubleBooking
  <2> QED BY <2>2, <2>3, <2>4
<1> QED BY <1>1, <1>2 DEF ReservationStep

\* No two reservations that hold the same room overlap, with any number of
\* requests in flight that read the table at any moment.
THEOREM ExclusiveRooms == Spec => []NoDoubleBooking
<1>1. Init => NoDoubleBooking
  BY DEF Init, ReservationsInit, NoReservation, NoDoubleBooking,
         ConstraintStatuses
<1>2. TypeOK /\ NoDoubleBooking /\ [Next]_vars => NoDoubleBooking'
  BY NextEffect, AdmittedWrite DEF Effect
<1> QED BY <1>1, <1>2, TypeCorrect, PTL DEF Spec

-----------------------------------------------------------------------------
(* Credits *)

\* No wallet is ever overdrawn, with any number of concurrent debits,
\* reschedules and negative adjustments.
THEOREM Solvency == Spec => []NeverOverdrawn
<1>1. Init => NeverOverdrawn
  BY DEF Init, CreditsInit, NeverOverdrawn
<1>2. TypeOK /\ NeverOverdrawn /\ CreditStep => NeverOverdrawn'
  <2> SUFFICES ASSUME TypeOK, NeverOverdrawn, CreditStep, NEW v \in ContractIds
               PROVE  wallet'[v].balance >= 0
    BY DEF NeverOverdrawn
  <2>1. /\ wallet \in [ContractIds -> Wallet]
        /\ \A w \in ContractIds : wallet[w].balance \in Int /\ wallet[w].balance >= 0
    BY DEF TypeOK, CreditsTypeOK, Wallet, NeverOverdrawn
  <2>2. ASSUME NEW w \in ContractIds, NEW n \in Nat, Grant(w, n)
        PROVE  wallet'[v].balance >= 0
    BY <2>1, <2>2 DEF Grant, Granted, Wallet
  <2>3. ASSUME NEW w \in ContractIds, NEW n \in Nat, NEW r \in Requests,
               Debit(w, n, r)
        PROVE  wallet'[v].balance >= 0
    BY <2>1, <2>3 DEF Debit, Debited, Covers, Wallet
  <2>4. ASSUME NEW w \in ContractIds, NEW n \in Nat, NEW r \in Requests,
               Refund(w, n, r)
        PROVE  wallet'[v].balance >= 0
    BY <2>1, <2>4 DEF Refund, Refunded, Wallet
  <2>5. ASSUME NEW w \in ContractIds, NEW d \in Int, MoveBalance(w, d)
        PROVE  wallet'[v].balance >= 0
    BY <2>1, <2>5 DEF MoveBalance, Covers, Wallet
  <2>6. ASSUME UNCHANGED wallet PROVE wallet'[v].balance >= 0
    BY <2>1, <2>6
  <2> QED
    BY <2>2, <2>3, <2>4, <2>5, <2>6 DEF CreditStep, creditVars, RecordAdjustment
<1>3. TypeOK /\ NeverOverdrawn /\ [Next]_vars => NeverOverdrawn'
  BY <1>2, NextEffect DEF Effect
<1> QED BY <1>1, <1>3, TypeCorrect, PTL DEF Spec

\* Balances and aggregates are at all times what the ledger entries account
\* for, a lost adjustment entry excepted.
THEOREM LedgerIntegrity == Spec => []LedgerExplainsWallets
<1>1. Init => LedgerExplainsWallets
  BY DEF Init, CreditsInit, LedgerExplainsWallets, LedgerTotal, EntryTypes
<1>2. TypeOK /\ LedgerExplainsWallets /\ CreditStep => LedgerExplainsWallets'
  <2> DEFINE Explained(v) ==
               /\ wallet[v].balance = LedgerTotal(v) + unposted[v]
               /\ wallet[v].totalGranted = posted[v]["CREDIT"]
               /\ wallet[v].totalUsed = -(posted[v]["DEBIT"] + posted[v]["REFUND"])
  <2> SUFFICES ASSUME TypeOK, LedgerExplainsWallets, CreditStep,
                      NEW v \in ContractIds
               PROVE  Explained(v)'
    BY DEF LedgerExplainsWallets
  <2>1. /\ wallet \in [ContractIds -> Wallet]
        /\ posted \in [ContractIds -> [EntryTypes -> Int]]
        /\ unposted \in [ContractIds -> Int]
        /\ Explained(v)
    BY DEF TypeOK, CreditsTypeOK, LedgerExplainsWallets
  <2>2. ASSUME NEW w \in ContractIds, NEW n \in Nat, Grant(w, n)
        PROVE  Explained(v)'
    BY <2>1, <2>2 DEF Grant, Granted, Post, Wallet, LedgerTotal, EntryTypes
  <2>3. ASSUME NEW w \in ContractIds, NEW n \in Nat, NEW r \in Requests,
               Debit(w, n, r)
        PROVE  Explained(v)'
    BY <2>1, <2>3 DEF Debit, Debited, Post, Wallet, LedgerTotal, EntryTypes
  <2>4. ASSUME NEW w \in ContractIds, NEW n \in Nat, NEW r \in Requests,
               Refund(w, n, r)
        PROVE  Explained(v)'
    BY <2>1, <2>4 DEF Refund, Refunded, Post, Wallet, LedgerTotal, EntryTypes
  <2>5. ASSUME NEW w \in ContractIds, NEW d \in Int, MoveBalance(w, d)
        PROVE  Explained(v)'
    BY <2>1, <2>5 DEF MoveBalance, Wallet, LedgerTotal, EntryTypes
  <2>6. ASSUME NEW w \in ContractIds, NEW d \in Int, RecordAdjustment(w, d)
        PROVE  Explained(v)'
    BY <2>1, <2>6 DEF RecordAdjustment, Post, Wallet, LedgerTotal, EntryTypes
  <2>7. CASE UNCHANGED creditVars
    BY <2>1, <2>7 DEF creditVars, LedgerTotal
  <2> QED BY <2>2, <2>3, <2>4, <2>5, <2>6, <2>7 DEF CreditStep
<1>3. TypeOK /\ LedgerExplainsWallets /\ [Next]_vars => LedgerExplainsWallets'
  BY <1>2, NextEffect DEF Effect
<1> QED BY <1>1, <1>3, TypeCorrect, PTL DEF Spec

-----------------------------------------------------------------------------
(* Sums *)

\* e lists the n members of S, and p are the running sums of d along it, from 0 to t.
Adds(S, d, t, n, e, p) ==
  /\ n \in Nat /\ e \in [1..n -> S] /\ p \in [0..n -> Int]
  /\ \A i, j \in 1..n : e[i] = e[j] => i = j
  /\ \A s \in S : \E i \in 1..n : e[i] = s
  /\ p[0] = 0 /\ p[n] = t
  /\ \A i \in 1..n : p[i] = p[i - 1] + d[e[i]]

\* t is the sum of d over the finite set S.
SumsTo(S, d, t) == \E n, e, p : Adds(S, d, t, n, e, p)

LEMMA SumOfNone == ASSUME NEW d, NEW t PROVE SumsTo({}, d, t) <=> t = 0
<1>1. ASSUME SumsTo({}, d, t) PROVE t = 0
  <2>1. PICK n, e, p : Adds({}, d, t, n, e, p)
    BY <1>1 DEF SumsTo
  <2>2. n \in Nat /\ e \in [1..n -> {}] /\ p[0] = 0 /\ p[n] = t
    BY <2>1 DEF Adds
  <2>3. n = 0
    BY <2>2
  <2> QED BY <2>2, <2>3
<1>2. ASSUME t = 0 PROVE SumsTo({}, d, t)
  <2> DEFINE e == [i \in 1..0 |-> i]
             p == [i \in 0..0 |-> 0]
  <2>1. e \in [1..0 -> {}] /\ p \in [0..0 -> Int] /\ p[0] = 0
    OBVIOUS
  <2> HIDE DEF e, p
  <2>2. \A i, j \in 1..0 : e[i] = e[j] => i = j
    OBVIOUS
  <2>3. \A i \in 1..0 : p[i] = p[i - 1] + d[e[i]]
    OBVIOUS
  <2>4. Adds({}, d, t, 0, e, p)
    BY <1>2, <2>1, <2>2, <2>3 DEF Adds
  <2> QED BY <2>4 DEF SumsTo
<1> QED BY <1>1, <1>2

LEMMA SumOfSame ==
  ASSUME NEW S, NEW d, NEW f, \A s \in S : d[s] = f[s], NEW t, SumsTo(S, d, t)
  PROVE  SumsTo(S, f, t)
<1> PICK n, e, p : Adds(S, d, t, n, e, p)
  BY DEF SumsTo
<1>1. n \in Nat /\ e \in [1..n -> S] /\ \A i \in 1..n : d[e[i]] = f[e[i]]
  BY DEF Adds
<1>2. Adds(S, f, t, n, e, p)
  BY <1>1 DEF Adds
<1> QED BY <1>2 DEF SumsTo

LEMMA SumWithOneMore ==
  ASSUME NEW S, NEW d, NEW f, NEW x, x \notin S, \A s \in S : d[s] = f[s],
         f[x] \in Int, NEW t, SumsTo(S, d, t)
  PROVE  SumsTo(S \cup {x}, f, t + f[x])
<1> PICK n, e, p : Adds(S, d, t, n, e, p)
  BY DEF SumsTo
<1>1. /\ n \in Nat /\ e \in [1..n -> S] /\ p \in [0..n -> Int]
      /\ \A i, j \in 1..n : e[i] = e[j] => i = j
      /\ \A s \in S : \E i \in 1..n : e[i] = s
      /\ p[0] = 0 /\ p[n] = t
      /\ \A i \in 1..n : p[i] = p[i - 1] + d[e[i]]
  BY DEF Adds
<1>2. t \in Int /\ n + 1 \in Nat
      /\ \A i \in 1..(n + 1) : i = n + 1 \/ i \in 1..n
  BY <1>1
<1> DEFINE e1 == [i \in 1..(n + 1) |-> IF i = n + 1 THEN x ELSE e[i]]
           p1 == [i \in 0..(n + 1) |-> IF i = n + 1 THEN t + f[x] ELSE p[i]]
<1>3. e1 \in [1..(n + 1) -> S \cup {x}]
  BY <1>1, <1>2
<1>4. p1 \in [0..(n + 1) -> Int]
  BY <1>1, <1>2
<1>5. /\ e1[n + 1] = x /\ \A i \in 1..n : e1[i] = e[i] /\ e1[i] \in S
      /\ p1[n + 1] = t + f[x] /\ \A i \in 0..n : p1[i] = p[i]
  BY <1>1
<1> HIDE DEF e1, p1
<1>6. ASSUME NEW i \in 1..(n + 1), NEW j \in 1..(n + 1), e1[i] = e1[j] PROVE i = j
  <2>1. (i = n + 1 \/ i \in 1..n) /\ (j = n + 1 \/ j \in 1..n)
    BY <1>2
  <2>2. ASSUME i \in 1..n, j \in 1..n PROVE i = j
    BY <1>1, <1>5, <1>6, <2>2
  <2>3. ASSUME i = n + 1, j \in 1..n PROVE i = j
    BY <1>5, <1>6, <2>3
  <2>4. ASSUME j = n + 1, i \in 1..n PROVE i = j
    BY <1>5, <1>6, <2>4
  <2> QED BY <2>1, <2>2, <2>3, <2>4
<1>7. ASSUME NEW s \in S \cup {x} PROVE \E i \in 1..(n + 1) : e1[i] = s
  <2>1. CASE s = x
    BY <1>1, <1>5, <2>1
  <2>2. CASE s \in S
    <3>1. PICK i \in 1..n : e[i] = s
      BY <1>1, <2>2
    <3>2. i \in 1..(n + 1)
      BY <1>1
    <3> QED BY <1>5, <3>1, <3>2
  <2> QED BY <2>1, <2>2
<1>8. p1[0] = 0 /\ p1[n + 1] = t + f[x]
  BY <1>1, <1>5
<1>9. ASSUME NEW i \in 1..(n + 1) PROVE p1[i] = p1[i - 1] + f[e1[i]]
  <2>1. CASE i = n + 1
    BY <1>1, <1>5, <2>1
  <2>2. CASE i \in 1..n
    <3>1. e[i] \in S /\ d[e[i]] = f[e[i]] /\ i - 1 \in 0..n /\ i \in 0..n
      BY <1>1, <2>2
    <3> QED BY <1>1, <1>5, <2>2, <3>1
  <2> QED BY <1>2, <2>1, <2>2
<1>10. Adds(S \cup {x}, f, t + f[x], n + 1, e1, p1)
  BY <1>2, <1>3, <1>4, <1>6, <1>7, <1>8, <1>9 DEF Adds
<1> QED BY <1>10 DEF SumsTo

LEMMA SumWithOneLess ==
  ASSUME NEW S, NEW d, \A s \in S : d[s] \in Int, NEW x \in S, NEW t, SumsTo(S, d, t)
  PROVE  SumsTo(S \ {x}, d, t - d[x])
<1> PICK n, e, p : Adds(S, d, t, n, e, p)
  BY DEF SumsTo
<1>1. /\ n \in Nat /\ e \in [1..n -> S] /\ p \in [0..n -> Int]
      /\ \A i, j \in 1..n : e[i] = e[j] => i = j
      /\ \A s \in S : \E i \in 1..n : e[i] = s
      /\ p[0] = 0 /\ p[n] = t
      /\ \A i \in 1..n : p[i] = p[i - 1] + d[e[i]]
  BY DEF Adds
<1> PICK k \in 1..n : e[k] = x
  BY <1>1
<1>2. k \in 1..n /\ e[k] = x /\ d[x] \in Int
  OBVIOUS
<1>2a. \A j \in 1..n : j # k => e[j] \in S \ {x}
  BY <1>1, <1>2
<1> DEFINE m == n - 1
           e1 == [i \in 1..m |-> IF i < k THEN e[i] ELSE e[i + 1]]
           p1 == [i \in 0..m |-> IF i < k THEN p[i] ELSE p[i + 1] - d[x]]
<1>3. /\ m \in Nat /\ n = m + 1 /\ k \in Nat /\ k > 0
      /\ \A i \in 1..m : i \in 1..n /\ i + 1 \in 1..n
      /\ \A i \in 0..m : i \in 0..n /\ i + 1 \in 0..n
  BY <1>1, <1>2
<1>4. \A i \in 1..m : e1[i] = IF i < k THEN e[i] ELSE e[i + 1]
  OBVIOUS
<1>5. \A i \in 0..m : p1[i] = IF i < k THEN p[i] ELSE p[i + 1] - d[x]
  OBVIOUS
<1>6. e1 \in [1..m -> S \ {x}]
  <2>1. ASSUME NEW i \in 1..m
        PROVE  (IF i < k THEN e[i] ELSE e[i + 1]) \in S \ {x}
    <3>1. i < k => i # k
      BY <1>3
    <3>2. ~(i < k) => i + 1 # k
      BY <1>3
    <3>3. i \in 1..n /\ i + 1 \in 1..n
      BY <1>3
    <3> QED BY <1>2a, <3>1, <3>2, <3>3
  <2> QED BY <2>1
<1>7. p1 \in [0..m -> Int]
  <2>1. ASSUME NEW i \in 0..m
        PROVE  (IF i < k THEN p[i] ELSE p[i + 1] - d[x]) \in Int
    <3>1. p[i] \in Int /\ p[i + 1] \in Int
      BY <1>1, <1>3
    <3> QED BY <1>2, <3>1
  <2> QED BY <2>1
<1> HIDE DEF e1, p1, m
<1>8. ASSUME NEW i \in 1..m, NEW j \in 1..m, e1[i] = e1[j] PROVE i = j
  <2> DEFINE at(a) == IF a < k THEN a ELSE a + 1
  <2>1. at(i) \in 1..n /\ at(j) \in 1..n
    BY <1>3
  <2>2. e1[i] = e[at(i)] /\ e1[j] = e[at(j)]
    BY <1>4
  <2>3. at(i) = at(j)
    <3> HIDE DEF at
    <3> QED BY <1>1, <1>8, <2>1, <2>2
  <2>4. i \in Nat /\ j \in Nat
    BY <1>3
  <2> QED BY <1>2, <1>3, <2>3, <2>4
<1>9. ASSUME NEW s \in S \ {x} PROVE \E i \in 1..m : e1[i] = s
  <2>1. PICK i \in 1..n : e[i] = s
    BY <1>1
  <2>2. CASE i < k
    <3>1. i \in 1..m
      BY <1>2, <1>3, <2>2
    <3> QED BY <1>4, <2>1, <2>2, <3>1
  <2>3. CASE i > k
    <3>1. i - 1 \in 1..m /\ ~(i - 1 < k) /\ (i - 1) + 1 = i
      BY <1>2, <1>3, <2>3
    <3> QED BY <1>4, <2>1, <3>1
  <2>4. i # k /\ i \in Nat /\ k \in Nat
    BY <1>2, <1>3, <2>1
  <2> QED BY <2>2, <2>3, <2>4
<1>10. p1[0] = 0 /\ p1[m] = t - d[x]
  <2>1. 0 \in 0..m /\ m \in 0..m
    BY <1>3
  <2>2. p1[0] = 0
    BY <1>1, <1>3, <1>5, <2>1
  <2>3. CASE k = n
    <3>1. p[n] = p[n - 1] + d[x] /\ p[n - 1] \in Int /\ n - 1 = m /\ m < k
      BY <1>1, <1>2, <1>3, <2>3
    <3> QED BY <1>1, <1>2, <1>5, <2>1, <2>2, <3>1
  <2>4. CASE k < n
    <3>1. ~(m < k)
      BY <1>2, <1>3, <2>4
    <3> QED BY <1>1, <1>3, <1>5, <2>1, <2>2, <3>1
  <2> QED BY <1>2, <1>3, <2>3, <2>4
<1>11. ASSUME NEW i \in 1..m PROVE p1[i] = p1[i - 1] + d[e1[i]]
  <2>1. i \in 1..n /\ i + 1 \in 1..n /\ i - 1 \in 0..m /\ i \in 0..m /\ i \in Nat
        /\ (i - 1) + 1 = i /\ (i + 1) - 1 = i
    BY <1>3
  <2>2. /\ p[i] = p[i - 1] + d[e[i]] /\ p[i + 1] = p[i] + d[e[i + 1]]
        /\ p[i - 1] \in Int /\ p[i] \in Int /\ p[i + 1] \in Int
        /\ d[e[i]] \in Int /\ d[e[i + 1]] \in Int
    <3>1. i - 1 \in 0..n /\ i \in 0..n /\ i + 1 \in 0..n
      BY <1>3, <2>1
    <3> QED BY <1>1, <2>1, <3>1
  <2>3. CASE i < k
    <3>1. i - 1 < k
      BY <1>3, <2>1, <2>3
    <3> QED BY <1>4, <1>5, <2>1, <2>2, <2>3, <3>1
  <2>4. CASE i = k
    <3>1. i - 1 < k /\ ~(i < k)
      BY <1>3, <2>1, <2>4
    <3> QED BY <1>2, <1>4, <1>5, <2>1, <2>2, <2>4, <3>1
  <2>5. CASE i > k
    <3>1. ~(i - 1 < k) /\ ~(i < k)
      BY <1>3, <2>1, <2>5
    <3> QED BY <1>2, <1>4, <1>5, <2>1, <2>2, <3>1
  <2> QED BY <1>3, <2>1, <2>3, <2>4, <2>5
<1>12. Adds(S \ {x}, d, t - d[x], m, e1, p1)
  BY <1>3, <1>6, <1>7, <1>8, <1>9, <1>10, <1>11 DEF Adds
<1> QED BY <1>12 DEF SumsTo
-----------------------------------------------------------------------------
(* Adjustments under way *)

\* The requests that have moved the balance of wallet w and not entered it yet.
Adjusting(w) == {q \in Requests : pc[q] = "adjust_entry" /\ loc[q].wallet = w}

\* By how much each of them did.
Adjustments == [q \in Requests |-> IF pc[q] = "adjust_entry" THEN loc[q].delta ELSE 0]

\* What the ledger lacks is what is about to be entered.
LedgerLacksAdjustments ==
  \A w \in ContractIds : SumsTo(Adjusting(w), Adjustments, unposted[w])

\* No adjustment starts, ends or is changed.
AdjustmentsKept ==
  /\ UNCHANGED unposted
  /\ \A q \in Requests :
       /\ pc'[q] = "adjust_entry" <=> pc[q] = "adjust_entry"
       /\ pc[q] = "adjust_entry" => loc'[q] = loc[q]

\* A request that is not an adjustment, and does not become one, moves.
LEMMA OthersMove ==
  ASSUME TypeOK, NEW q \in Requests, pc[q] # "adjust_entry",
         NEW stage, stage # "adjust_entry", NEW l, Goto(q, stage, l),
         UNCHANGED unposted
  PROVE  AdjustmentsKept
BY DEF Goto, TypeOK, RuntimeTypeOK, AdjustmentsKept

\* Where no request dies, adjustments are started and ended by the two writes of adjust
\* and by nothing else.
LEMMA NextAdjustments ==
  ASSUME ~Crashes, TypeOK, [Next]_vars
  PROVE  AdjustmentsKept \/ AdjustStep
<1>1. ASSUME NEW q \in Requests, UNCHANGED unposted, NEW stage, NEW l,
             stage # "adjust_entry",
             Begin(q, stage, l) \/ (pc[q] # "adjust_entry" /\ Goto(q, stage, l))
      PROVE  AdjustmentsKept
  BY <1>1, OthersMove DEF Begin, Goto
<1>2. CASE UNCHANGED <<pc, loc, unposted>>
  BY <1>2 DEF AdjustmentsKept
<1>3. CASE ReservationsStep
  <2>1. UNCHANGED unposted
    BY <1>3
    DEF ReservationsStep, CreateRead, CreateSlot, CreateCommit, CancelRead,
        CancelContract, CancelCommit, RescheduleRead, RescheduleContract,
        RescheduleSlot, RescheduleCommit, MarkNoShowRead, CompleteRead,
        MarkNoShowCommit, CompleteCommit, CloseRead, CloseCommit, Settle, Debit,
        Refund, creditVars
  <2>2. \E q \in Requests, stage \in Stages \ {"adjust_entry"} : \E l :
          Begin(q, stage, l) \/ (pc[q] # "adjust_entry" /\ Goto(q, stage, l))
    BY <1>3
    DEF ReservationsStep, CreateRead, CreateSlot, CreateCommit, CancelRead,
        CancelContract, CancelCommit, RescheduleRead, RescheduleContract,
        RescheduleSlot, RescheduleCommit, MarkNoShowRead, CompleteRead,
        MarkNoShowCommit, CompleteCommit, CloseRead, CloseCommit, Finish, Stages
  <2> QED BY <1>1, <2>1, <2>2
<1>4. CASE ContractsStep
  <2>1. UNCHANGED unposted
    BY <1>4
    DEF ContractsStep, ContractsChange, CreateContract, UpdateContract, RenewRead,
        RenewCommit, SweepRead, SweepExpire, SweepAbort, Grant, creditVars
  <2>2. \/ UNCHANGED <<pc, loc>>
        \/ \E q \in Requests, stage \in Stages \ {"adjust_entry"} : \E l :
             Begin(q, stage, l) \/ (pc[q] # "adjust_entry" /\ Goto(q, stage, l))
    BY <1>4
    DEF ContractsStep, ContractsChange, CreateContract, UpdateContract, RenewRead,
        RenewCommit, SweepRead, SweepExpire, SweepAbort, Idle, runtimeVars, Finish,
        Stages
  <2> QED BY <1>1, <1>2, <2>1, <2>2
<1>5. CASE SchedulesStep /\ UNCHANGED creditVars
  <2>1. \/ UNCHANGED <<pc, loc>>
        \/ \E q \in Requests, stage \in Stages \ {"adjust_entry"} : \E l :
             Begin(q, stage, l) \/ (pc[q] # "adjust_entry" /\ Goto(q, stage, l))
    BY <1>5
    DEF SchedulesStep, CreateAvailability, UpdateAvailabilityRead,
        DeleteAvailability, UpdateAvailabilityCommit, CreateBlockedPeriod,
        DeleteBlockedPeriod, SetRoomStatus, Idle, runtimeVars, Finish, Stages
  <2> QED BY <1>1, <1>2, <1>5, <2>1 DEF creditVars
<1>6. CASE Tick /\ UNCHANGED creditVars
  BY <1>2, <1>6 DEF Tick, creditVars
<1>7. \A q \in Requests : ~Abort(q)
  BY DEF Abort
<1>8. CASE UNCHANGED vars
  BY <1>2, <1>8 DEF vars, runtimeVars, creditVars
<1> QED BY <1>3, <1>4, <1>5, <1>6, <1>7, <1>8 DEF Next

LEMMA NextLacks ==
  ASSUME ~Crashes, TypeOK, LedgerLacksAdjustments, [Next]_vars
  PROVE  LedgerLacksAdjustments'
<1> SUFFICES ASSUME NEW w \in ContractIds
             PROVE  SumsTo(Adjusting(w)', Adjustments', unposted'[w])
  BY DEF LedgerLacksAdjustments
<1>1. SumsTo(Adjusting(w), Adjustments, unposted[w])
  BY DEF LedgerLacksAdjustments
<1>2. /\ unposted \in [ContractIds -> Int]
      /\ pc \in [Requests -> Stages] /\ DOMAIN loc = Requests
      /\ \A q \in Requests : pc[q] = "adjust_entry" => loc[q] \in AdjustLocals
  BY DEF TypeOK, CreditsTypeOK, RuntimeTypeOK, FitsStage
<1>3. /\ \A s \in Adjusting(w) : s \in Requests /\ Adjustments[s] = loc[s].delta
      /\ \A s \in Adjusting(w)' : s \in Requests /\ Adjustments'[s] = loc'[s].delta
  BY DEF Adjusting, Adjustments
<1>4. CASE AdjustmentsKept
  <2>1. Adjusting(w)' = Adjusting(w)
    BY <1>4 DEF AdjustmentsKept, Adjusting
  <2>2. \A s \in Adjusting(w) : Adjustments[s] = Adjustments'[s]
    BY <1>3, <1>4, <2>1 DEF AdjustmentsKept, Adjusting
  <2> QED BY <1>1, <1>4, <2>1, <2>2, SumOfSame DEF AdjustmentsKept
<1>5. ASSUME NEW q \in Requests, NEW v \in ContractIds, NEW delta \in Deltas,
             AdjustBalance(q, v, delta)
      PROVE  SumsTo(Adjusting(w)', Adjustments', unposted'[w])
  <2> DEFINE l == [wallet |-> v, delta |-> delta]
  <2>1. /\ pc[q] = "new" /\ pc'[q] = "adjust_entry" /\ loc'[q] = l
        /\ \A p \in Requests \ {q} : pc'[p] = pc[p] /\ loc'[p] = loc[p]
    BY <1>2, <1>5 DEF AdjustBalance, Begin
  <2>2. delta \in Int /\ l.wallet = v /\ l.delta = delta
    BY CreditsAssumption
  <2> HIDE DEF l
  <2>3. unposted' = [unposted EXCEPT ![v] = unposted[v] + delta]
    BY <1>5 DEF AdjustBalance, MoveBalance
  <2>4. \A s \in Adjusting(w) : s # q /\ Adjustments[s] = Adjustments'[s]
    BY <2>1 DEF Adjusting, Adjustments
  <2>5. CASE w = v
    <3>1. Adjusting(w)' = Adjusting(w) \cup {q}
      BY <2>1, <2>2, <2>5 DEF Adjusting
    <3>2. Adjustments'[q] = delta
      BY <2>1, <2>2 DEF Adjustments
    <3>3. unposted'[w] = unposted[w] + delta
      BY <1>2, <2>3, <2>5
    <3>4. q \notin Adjusting(w) /\ Adjustments'[q] \in Int
      BY <2>2, <2>4, <3>2
    <3>5. SumsTo(Adjusting(w) \cup {q}, Adjustments', unposted[w] + Adjustments'[q])
      BY <1>1, <2>4, <3>4, SumWithOneMore
    <3> QED BY <3>1, <3>2, <3>3, <3>5
  <2>6. CASE w # v
    <3>1. Adjusting(w)' = Adjusting(w)
      BY <2>1, <2>2, <2>6 DEF Adjusting
    <3>2. unposted'[w] = unposted[w]
      BY <1>2, <2>3, <2>6
    <3> QED BY <1>1, <2>4, <3>1, <3>2, SumOfSame
  <2> QED BY <2>5, <2>6
<1>6. ASSUME NEW q \in Requests, AdjustEntry(q)
      PROVE  SumsTo(Adjusting(w)', Adjustments', unposted'[w])
  <2> DEFINE v == loc[q].wallet
             delta == loc[q].delta
  <2>1. /\ pc[q] = "adjust_entry" /\ pc'[q] = "done"
        /\ \A p \in Requests \ {q} : pc'[p] = pc[p] /\ loc'[p] = loc[p]
    BY <1>2, <1>6 DEF AdjustEntry, Finish, Goto
  <2>2. v \in ContractIds /\ delta \in Int
    BY <1>2, <2>1, CreditsAssumption DEF AdjustLocals
  <2>3. unposted' = [unposted EXCEPT ![v] = unposted[v] - delta]
    BY <1>6 DEF AdjustEntry, RecordAdjustment
  <2>4. \A s \in Adjusting(w) \ {q} : Adjustments[s] = Adjustments'[s]
    BY <2>1 DEF Adjusting, Adjustments
  <2>5. CASE w = v
    <3>1. q \in Adjusting(w) /\ Adjusting(w)' = Adjusting(w) \ {q}
      BY <2>1, <2>5 DEF Adjusting
    <3>2. Adjustments[q] = delta /\ \A s \in Adjusting(w) : Adjustments[s] \in Int
      BY <1>2, <1>3, <3>1 DEF Adjusting, AdjustLocals
    <3>3. unposted'[w] = unposted[w] - delta
      BY <1>2, <2>3, <2>5
    <3>4. SumsTo(Adjusting(w) \ {q}, Adjustments, unposted[w] - delta)
      BY <1>1, <3>1, <3>2, SumWithOneLess
    <3> QED BY <2>4, <3>1, <3>3, <3>4, SumOfSame
  <2>6. CASE w # v
    <3>1. Adjusting(w)' = Adjusting(w) /\ q \notin Adjusting(w)
      BY <2>1, <2>6 DEF Adjusting
    <3>2. unposted'[w] = unposted[w]
      BY <1>2, <2>2, <2>3, <2>6
    <3>3. \A s \in Adjusting(w) : Adjustments[s] = Adjustments'[s]
      BY <2>4, <3>1
    <3> QED BY <1>1, <3>1, <3>2, <3>3, SumOfSame
  <2> QED BY <2>5, <2>6
<1> QED BY <1>4, <1>5, <1>6, NextAdjustments DEF AdjustStep

\* Where no request dies between the two writes of adjust, what the ledger lacks is what
\* the adjustments in flight will enter, and balances derive from the ledger when none is.
THEOREM AdjustmentsAreEntered ==
  ASSUME ~Crashes
  PROVE  Spec => []BalanceIsLedger
<1>1. Init => LedgerLacksAdjustments
  <2> SUFFICES ASSUME Init, NEW w \in ContractIds
               PROVE  SumsTo(Adjusting(w), Adjustments, unposted[w])
    BY DEF LedgerLacksAdjustments
  <2>1. Adjusting(w) = {} /\ unposted[w] = 0
    BY DEF Init, RuntimeInit, CreditsInit, Adjusting
  <2> QED BY <2>1, SumOfNone
<1>2. ASSUME TypeOK, LedgerExplainsWallets, LedgerLacksAdjustments
      PROVE  BalanceIsLedger
  <2> SUFFICES ASSUME \A q \in Requests : pc[q] # "adjust_entry",
                      NEW w \in ContractIds
               PROVE  wallet[w].balance = LedgerTotal(w)
    BY DEF BalanceIsLedger
  <2>1. Adjusting(w) = {}
    BY DEF Adjusting
  <2>2. SumsTo({}, Adjustments, unposted[w])
    BY <1>2, <2>1 DEF LedgerLacksAdjustments
  <2>3. unposted[w] = 0
    BY <2>2, SumOfNone
  <2>4. LedgerTotal(w) \in Int
    BY <1>2 DEF TypeOK, CreditsTypeOK, LedgerTotal, EntryTypes
  <2> QED BY <1>2, <2>3, <2>4 DEF LedgerExplainsWallets
<1>3. TypeOK /\ LedgerLacksAdjustments /\ [Next]_vars => LedgerLacksAdjustments'
  BY NextLacks
<1> QED BY <1>1, <1>2, <1>3, TypeCorrect, LedgerIntegrity, PTL DEF Spec

-----------------------------------------------------------------------------
(***************************************************************************)
(* Booking implements RoomCalendar, for every choice of its constants: a   *)
(* step that writes a row lets its reservation go of what it held and take *)
(* the instants of the new row, if the new status holds a room, and the    *)
(* exclusion constraint is what makes those instants free.                 *)
(***************************************************************************)

Instants == 0..(Horizon + DayLength)

\* The row holds room x at instant t.
HoldsAt(row, x, t) ==
  /\ row.room = x
  /\ row.status \in ConstraintStatuses
  /\ t \in Span(row.start, row.dur)

LEMMA HoldersAre ==
  /\ RoomHolders = [x \in Rooms |-> [t \in Instants |->
                      {r \in Requests : HoldsAt(reservations[r], x, t)}]]
  /\ RoomHolders' = [x \in Rooms |-> [t \in Instants |->
                      {r \in Requests : HoldsAt(reservations'[r], x, t)}]]
BY DEF RoomHolders, HoldsAt, Instants, Span

\* The two ends of the calendar are instants, and they differ.
LEMMA InstantsExist == 0 \in Instants /\ 1 \in Instants
BY RuntimeAssumption, SchedulesAssumption DEF Instants

\* What a row holds within the calendar is an interval of it, perhaps empty.
LEMMA SpanIsInterval ==
  ASSUME NEW start \in Nat, NEW dur \in Nat
  PROVE  \E first, last \in Instants : Span(start, dur) \cap Instants = first..last
<1>. DEFINE end == Horizon + DayLength
<1>1. end \in Nat /\ end >= 1
  BY RuntimeAssumption, SchedulesAssumption
<1>2. CASE dur = 0 \/ start > end
  <2>1. Span(start, dur) \cap Instants = 1..0
    BY <1>1, <1>2 DEF Span, Instants
  <2>. QED
    BY <2>1, InstantsExist
<1>3. CASE dur > 0 /\ start <= end /\ start + dur - 1 <= end
  <2>1. Span(start, dur) \cap Instants = start..(start + dur - 1)
    BY <1>1, <1>3 DEF Span, Instants
  <2>2. start \in Instants /\ start + dur - 1 \in Instants
    BY <1>1, <1>3 DEF Instants
  <2>. QED
    BY <2>1, <2>2
<1>4. CASE dur > 0 /\ start <= end /\ start + dur - 1 > end
  <2>1. Span(start, dur) \cap Instants = start..end
    BY <1>1, <1>4 DEF Span, Instants
  <2>2. start \in Instants /\ end \in Instants
    BY <1>1, <1>4 DEF Instants
  <2>. QED
    BY <2>1, <2>2
<1>. QED
  BY <1>1, <1>2, <1>3, <1>4

\* Two rows that hold a room at the same instant overlap.
LEMMA SharedInstant ==
  ASSUME NEW row \in Reservation, NEW other \in Reservation, NEW x, NEW t \in Instants,
         HoldsAt(row, x, t), HoldsAt(other, x, t)
  PROVE  Overlap(row, other)
BY RuntimeAssumption, SchedulesAssumption
DEF HoldsAt, Overlap, Span, Instants, Reservation

\* After a write of row r, r holds what the row says and the others what they held.
LEMMA HoldersAfterWrite ==
  ASSUME ReservationsTypeOK, NEW r \in Requests, NEW row, Write(r, row),
         NEW x, NEW t
  PROVE  {p \in Requests : HoldsAt(reservations'[p], x, t)}
           = IF HoldsAt(row, x, t)
             THEN {p \in Requests : HoldsAt(reservations[p], x, t)} \cup {r}
             ELSE {p \in Requests : HoldsAt(reservations[p], x, t)} \ {r}
<1>1. \A p \in Requests : reservations'[p] = IF p = r THEN row ELSE reservations[p]
  BY DEF Write, ReservationsTypeOK
<1>. QED
  BY <1>1

\* An admitted write is a step of the calendar, or changes nobody's interval.
LEMMA WriteIsHold ==
  ASSUME ReservationsTypeOK, NEW r \in Requests, NEW row \in Reservation,
         Admits(r, row), Write(r, row)
  PROVE  Calendar!CalendarNext \/ UNCHANGED RoomHolders
<1>. DEFINE Now(x, t) == {p \in Requests : HoldsAt(reservations[p], x, t)}
            Then(x, t) == {p \in Requests : HoldsAt(reservations'[p], x, t)}
<1>1. \A x, t : Then(x, t) = IF HoldsAt(row, x, t) THEN Now(x, t) \cup {r}
                             ELSE Now(x, t) \ {r}
  BY HoldersAfterWrite
<1>2. /\ RoomHolders = [x \in Rooms |-> [t \in Instants |-> Now(x, t)]]
      /\ RoomHolders' = [x \in Rooms |-> [t \in Instants |-> Then(x, t)]]
  BY HoldersAre
<1>. HIDE DEF Now, Then
<1>3. CASE row.status \in ConstraintStatuses /\ row.room \in Rooms
  <2>. DEFINE x == row.room
              T == Span(row.start, row.dur) \cap Instants
  <2>1. row.start \in Nat /\ row.dur \in Nat
    BY DEF Reservation
  <2>2. PICK first \in Instants, last \in Instants : T = first..last
    BY <2>1, SpanIsInterval
  <2>3. \A y, t : t \in Instants => (HoldsAt(row, y, t) <=> y = x /\ t \in T)
    BY <1>3 DEF HoldsAt
  <2>4. ASSUME NEW t \in T PROVE Now(x, t) \subseteq {r}
    <3>1. ASSUME NEW s \in Now(x, t), s # r PROVE FALSE
      <4>1. s \in Requests /\ HoldsAt(reservations[s], x, t)
        BY <3>1 DEF Now
      <4>2. reservations[s] \in Reservation
        BY <4>1 DEF ReservationsTypeOK
      <4>3. t \in Instants /\ HoldsAt(row, x, t)
        BY <2>3
      <4>4. Overlap(row, reservations[s])
        BY <4>1, <4>2, <4>3, SharedInstant
      <4>. QED
        BY <1>3, <3>1, <4>1, <4>4 DEF Admits, HoldsAt
    <3>. QED
      BY <3>1
  <2>. HIDE DEF T
  <2>5. \A t \in T : RoomHolders[x][t] \subseteq {r}
    <3>1. T \subseteq Instants
      BY DEF T
    <3>. QED
      BY <1>2, <1>3, <2>4, <3>1
  <2>6. RoomHolders' = [y \in Rooms |-> [t \in Instants |->
          IF y = x /\ t \in T THEN {r} ELSE RoomHolders[y][t] \ {r}]]
    <3>1. ASSUME NEW y \in Rooms, NEW t \in Instants
          PROVE  Then(y, t) = IF y = x /\ t \in T THEN {r} ELSE RoomHolders[y][t] \ {r}
      <4>1. RoomHolders[y][t] = Now(y, t)
        BY <1>2
      <4>2. CASE y = x /\ t \in T
        BY <1>1, <2>3, <2>4, <4>2
      <4>3. CASE ~(y = x /\ t \in T)
        BY <1>1, <2>3, <4>1, <4>3
      <4>. QED
        BY <4>2, <4>3
    <3>. QED
      BY <1>2, <3>1
  <2>7. Calendar!Hold(r, x, first..last)
    BY <2>2, <2>5, <2>6 DEF Calendar!Hold, Instants
  <2>. QED
    BY <1>3, <2>7 DEF Calendar!CalendarNext, Instants
<1>4. CASE ~(row.status \in ConstraintStatuses /\ row.room \in Rooms)
  <2>1. \A y \in Rooms : \A t \in Instants : Then(y, t) = Now(y, t) \ {r}
    BY <1>1, <1>4 DEF HoldsAt
  <2>2. CASE Rooms = {}
    BY <1>2, <2>2
  <2>3. ASSUME NEW x \in Rooms PROVE Calendar!CalendarNext
    <3>1. \A t : t \notin 1..0
      OBVIOUS
    <3>2. RoomHolders' = [y \in Rooms |-> [t \in Instants |->
            IF y = x /\ t \in 1..0 THEN {r} ELSE RoomHolders[y][t] \ {r}]]
      BY <1>2, <2>1, <3>1
    <3>3. Calendar!Hold(r, x, 1..0)
      BY <3>1, <3>2 DEF Calendar!Hold, Instants
    <3>. QED
      BY <3>3, InstantsExist DEF Calendar!CalendarNext, Instants
  <2>. QED
    BY <2>2, <2>3
<1>. QED
  BY <1>3, <1>4

\* Nobody holds a room at the start, and then every step of the system, whatever its
\* requests have read, moves at most one reservation, to instants that nobody else has.
THEOREM BookingImplementsCalendar == Spec => ImplementsCalendar
<1>1. Init => Calendar!CalendarInit
  BY DEF Init, ReservationsInit, NoReservation, ConstraintStatuses, RoomHolders,
         Calendar!CalendarInit
<1>2. TypeOK /\ [Next]_vars => [Calendar!CalendarNext]_RoomHolders
  <2>. SUFFICES ASSUME TypeOK, [Next]_vars
                PROVE  Calendar!CalendarNext \/ UNCHANGED RoomHolders
    OBVIOUS
  <2>1. ReservationStep
    BY NextEffect DEF Effect
  <2>2. CASE UNCHANGED reservations
    BY <2>2, HoldersAre
  <2>3. ASSUME NEW r \in Requests, NEW row \in Reservation, Admits(r, row), Write(r, row)
        PROVE  Calendar!CalendarNext \/ UNCHANGED RoomHolders
    BY <2>3, WriteIsHold DEF TypeOK
  <2>. QED
    BY <2>1, <2>2, <2>3 DEF ReservationStep
<1>. QED
  BY <1>1, <1>2, TypeCorrect, PTL DEF Spec, ImplementsCalendar, Calendar!CalendarSpec

-----------------------------------------------------------------------------
(***************************************************************************)
(* Who pays for what, for every choice of Booking's constants: a row and   *)
(* its debit exist together, and a reservation is charged to wallets of    *)
(* its own user only.  Both rest on what requests in flight remember:      *)
(* reservations that exist are never removed and never change hands, nor   *)
(* do contracts, so what a request has read of them stays true.            *)
(***************************************************************************)

\* The contract exists and is the user's.
OwnedBy(c, u) == Exists(c) /\ contracts[c].user = u

CreateStages == {"create_slot", "create_commit"}

SeenStages == {"cancel_contract", "reschedule_contract"}

SettleStages == {"cancel_commit", "reschedule_slot", "reschedule_commit"}

CloseStages == {"no_show_commit", "complete_commit"}

\* What request q relies on: a booking is not there yet and will be paid from a contract
\* of its user; any other request has a reservation, and a contract of its user.
TrailOf(q) ==
  /\ pc[q] \in CreateStages \cup {"new"} => ~Booked(q)
  /\ pc[q] \in CreateStages => OwnedBy(loc[q].contract, loc[q].user)
  /\ pc[q] \in SeenStages \cup SettleStages \cup CloseStages => Booked(loc[q].target)
  /\ pc[q] \in SeenStages => loc[q].seen.user = reservations[loc[q].target].user
  /\ pc[q] \in SettleStages =>
       OwnedBy(loc[q].contract, reservations[loc[q].target].user)

\* The accounts: only what is booked is charged, to its user, and debits only grow.
Accounts ==
  /\ BookedIffDebited
  /\ \A r \in Requests, w \in ContractIds :
       /\ charged[r][w].debit >= 0
       /\ charged[r][w].debit > 0 \/ charged[r][w].refund > 0 =>
            Booked(r) /\ OwnedBy(w, reservations[r].user)

ChargeInv == (\A q \in Requests : TrailOf(q)) /\ Accounts

-----------------------------------------------------------------------------
(* What never changes *)

\* A contract that exists stays its user's.
OwnersKept ==
  \A c \in ContractIds :
    Exists(c) => Exists(c)' /\ contracts'[c].user = contracts[c].user

\* A reservation that exists stays its user's.
RowsKept ==
  \A r \in Requests :
    Booked(r) => Booked(r)' /\ reservations'[r].user = reservations[r].user

\* A step of request q, which may book its own reservation and no other.
TrailStep(q) ==
  /\ \A p \in Requests \ {q} :
       pc'[p] = pc[p] /\ loc'[p] = loc[p] /\ (Booked(p)' => Booked(p))
  /\ RowsKept
  /\ TrailOf(q)'

\* A step that charges nothing and books nothing, a debit of a reservation that is there
\* after the step, or a refund of one that was there before.
AccountStep ==
  \/ UNCHANGED charged /\ \A r \in Requests : Booked(r)' => Booked(r)
  \/ \E r \in Requests, w \in ContractIds, n \in Nat \ {0} :
       /\ Debit(w, n, r)
       /\ Booked(r)' /\ OwnedBy(w, reservations'[r].user)
       /\ \A p \in Requests \ {r} : Booked(p)' => Booked(p)
  \/ \E r \in Requests, w \in ContractIds, n \in Nat :
       /\ Refund(w, n, r)
       /\ Booked(r)' /\ OwnedBy(w, reservations'[r].user)
       /\ \A p \in Requests : Booked(p)' => Booked(p)

\* What a step does, as far as charges are concerned.
ChargeStep ==
  /\ OwnersKept
  /\ AccountStep
  /\ RowsKept
  /\ \/ UNCHANGED <<pc, loc>> /\ \A p \in Requests : Booked(p)' => Booked(p)
     \/ \E q \in Requests : TrailStep(q)

\* Every contract keeps its user: updates, renewals and the job write other columns.
LEMMA OwnersStay == TypeOK /\ [Next]_vars => OwnersKept
<1>. SUFFICES ASSUME TypeOK, [Next]_vars PROVE OwnersKept
  OBVIOUS
<1>1. contracts \in [ContractIds -> Contract]
  BY DEF TypeOK, ContractsTypeOK
<1>2. CASE UNCHANGED contracts
  BY <1>2 DEF OwnersKept, Exists
<1>3. ASSUME NEW c \in ContractIds, NEW row,
             contracts' = [contracts EXCEPT ![c] = row],
             Exists(c) => row.status # "NONE" /\ row.user = contracts[c].user
      PROVE  OwnersKept
  BY <1>1, <1>3 DEF OwnersKept, Exists
<1>4. ASSUME ContractsStep PROVE OwnersKept
  <2>1. ASSUME NEW c \in ContractIds, NEW terms, CreateContract(c, terms)
        PROVE  OwnersKept
    BY <2>1, <1>3 DEF CreateContract
  <2>2. ASSUME NEW c \in ContractIds, NEW p \in Patches, UpdateContract(c, p)
        PROVE  OwnersKept
    <3>1. p.status \in ContractStatuses \cup {Keep}
      BY ContractsAssumption DEF PatchFields
    <3>2. contracts' = [contracts EXCEPT ![c] = Patched(contracts[c], p)]
      BY <2>2, <1>1 DEF UpdateContract
    <3>3. /\ Patched(contracts[c], p).status = Either(p.status, contracts[c].status)
          /\ Patched(contracts[c], p).user = contracts[c].user
      BY <1>1 DEF Patched, Contract
    <3>4. Exists(c) => Patched(contracts[c], p).status # "NONE"
      BY <3>1, <3>3 DEF Either, Exists, ContractStatuses
    <3>. QED
      BY <3>2, <3>3, <3>4, <1>3
  <2>3. ASSUME NEW q \in Requests, RenewCommit(q) PROVE OwnersKept
    <3>. DEFINE c == loc[q].contract
    <3>1. c \in ContractIds
      BY <2>3 DEF RenewCommit, TypeOK, RuntimeTypeOK, FitsStage, RenewLocals
    <3>2. contracts' = [contracts EXCEPT ![c] =
             [contracts[c] EXCEPT !.endDate = loc[q].endDate, !.status = "ACTIVE",
                                  !.cancellationsUsed = 0]]
      BY <2>3, <1>1, <3>1 DEF RenewCommit, Contract
    <3>. QED
      BY <1>1, <1>3, <3>1, <3>2 DEF Contract
  <2>4. ASSUME NEW c \in ContractIds, SweepExpire(c) PROVE OwnersKept
    BY <2>4, <1>1 DEF SweepExpire, Contract, OwnersKept, Exists
  <2>5. CASE SweepRead \/ SweepAbort \/ \E q \in Requests, c \in ContractIds,
             endDate \in RenewalDates : RenewRead(q, c, endDate)
    BY <2>5, <1>2 DEF SweepRead, SweepAbort, RenewRead, contractVars
  <2>. QED
    BY <1>4, <2>1, <2>2, <2>3, <2>4, <2>5 DEF ContractsStep, ContractsChange
<1>5. ASSUME NEW q \in Requests, CancelCommit(q) PROVE OwnersKept
  <2>1. loc[q].contract \in ContractIds
    BY <1>5 DEF CancelCommit, TypeOK, RuntimeTypeOK, FitsStage, CancelLocals
  <2>2. CASE loc[q].late
    BY <1>5, <1>1, <2>1, <2>2 DEF CancelCommit, CountLate, Contract, OwnersKept, Exists
  <2>3. CASE ~loc[q].late
    BY <1>5, <1>2, <2>3 DEF CancelCommit, contractVars
  <2>. QED
    BY <2>2, <2>3
<1>6. ASSUME ReservationsStep PROVE OwnersKept
  BY <1>6, <1>2, <1>5
  DEF ReservationsStep, CreateRead, CreateSlot, CreateCommit, CancelRead, CancelContract,
      RescheduleRead, RescheduleContract, RescheduleSlot, RescheduleCommit,
      MarkNoShowRead, CompleteRead, MarkNoShowCommit, CompleteCommit, CloseRead,
      CloseCommit, contractVars
<1>. QED
  BY <1>2, <1>4, <1>6 DEF Next, vars, contractVars

-----------------------------------------------------------------------------
(* What each action does *)

\* Only request q moves.
LEMMA Moves ==
  ASSUME TypeOK, NEW q \in Requests, NEW stage, NEW l, Goto(q, stage, l)
  PROVE  /\ pc'[q] = stage /\ loc'[q] = l
         /\ \A p \in Requests \ {q} : pc'[p] = pc[p] /\ loc'[p] = loc[p]
BY DEF Goto, TypeOK, RuntimeTypeOK

\* A request that ends, or is of another service, relies on nothing here.
LEMMA FreeTrail ==
  ASSUME NEW q \in Requests,
         pc'[q] \in {"done", "adjust_entry", "renew_commit", "rule_commit"}
  PROVE  TrailOf(q)'
BY DEF TrailOf, CreateStages, SeenStages, SettleStages, CloseStages

\* The table as it was.
LEMMA SameRows ==
  ASSUME UNCHANGED reservations
  PROVE  RowsKept /\ \A p \in Requests : Booked(p)' => Booked(p)
BY DEF RowsKept, Booked

\* A row is written that books r, for the user it had.
LEMMA RowWritten ==
  ASSUME TypeOK, NEW r \in Requests, NEW row, Write(r, row), row.status # "NONE",
         Booked(r) => row.user = reservations[r].user
  PROVE  /\ RowsKept
         /\ Booked(r)' /\ reservations'[r].user = row.user
         /\ \A p \in Requests \ {r} : Booked(p)' => Booked(p)
BY DEF Write, RowsKept, Booked, TypeOK, ReservationsTypeOK

\* A contract that a handler finds active is its user's.
LEMMA ActiveIsOwned ==
  ASSUME NEW c \in ContractIds, NEW u, IsActiveContract(c, u)
  PROVE  OwnedBy(c, u)
BY DEF IsActiveContract, Usable, OwnedBy, Exists

\* A handler reads, and goes on with a trail, or ends.
LEMMA ReadStep ==
  ASSUME TypeOK, NEW q \in Requests, NEW stage, NEW l, Goto(q, stage, l),
         UNCHANGED <<reservations, charged>>,
         pc'[q] = stage /\ loc'[q] = l => TrailOf(q)'
  PROVE  TrailStep(q) /\ AccountStep
BY Moves, SameRows DEF TrailStep, AccountStep

\* POST /reservations: what was checked of the contract holds when it is charged.
LEMMA CreateCharges ==
  ASSUME TypeOK, ChargeInv, NEW q \in Requests,
         \/ \E u \in Users, x \in Rooms, start \in Times, dur \in Durations :
              CreateRead(q, u, x, start, dur)
         \/ CreateSlot(q)
         \/ CreateCommit(q)
  PROVE  TrailStep(q) /\ AccountStep
<1>1. TrailOf(q)
  BY DEF ChargeInv
<1>2. ASSUME NEW u \in Users, NEW x \in Rooms, NEW start \in Times,
             NEW dur \in Durations, CreateRead(q, u, x, start, dur)
      PROVE  TrailStep(q) /\ AccountStep
  <2>1. PICK c \in ContractIds :
          /\ Begin(q, "create_slot", [user |-> u, room |-> x, start |-> start,
                                      dur |-> dur, contract |-> c])
          /\ IsActiveContract(c, u)
    BY <1>2 DEF CreateRead
  <2>. DEFINE l == [user |-> u, room |-> x, start |-> start, dur |-> dur, contract |-> c]
  <2>2. l.user = u /\ l.contract = c
    OBVIOUS
  <2>. HIDE DEF l
  <2>3. Goto(q, "create_slot", l) /\ pc[q] = "new"
    BY <2>1 DEF Begin, Goto, l
  <2>4. UNCHANGED <<contracts, reservations, charged>>
    BY <1>2 DEF CreateRead, contractVars, creditVars
  <2>5. ~Booked(q) /\ OwnedBy(c, u)
    BY <1>1, <2>1, <2>3, ActiveIsOwned DEF TrailOf
  <2>6. pc'[q] = "create_slot" /\ loc'[q] = l => TrailOf(q)'
    BY <2>2, <2>4, <2>5
    DEF TrailOf, CreateStages, SeenStages, SettleStages, CloseStages, Booked, OwnedBy, Exists
  <2>. QED
    BY <2>3, <2>4, <2>6, ReadStep
<1>3. ASSUME CreateSlot(q) PROVE TrailStep(q) /\ AccountStep
  <2>1. UNCHANGED <<contracts, reservations, charged>> /\ pc[q] = "create_slot"
    BY <1>3 DEF CreateSlot, contractVars, creditVars
  <2>2. ASSUME Goto(q, "create_commit", loc[q]) PROVE TrailStep(q) /\ AccountStep
    <3>1. pc'[q] = "create_commit" /\ loc'[q] = loc[q] => TrailOf(q)'
      BY <1>1, <2>1
      DEF TrailOf, CreateStages, SeenStages, SettleStages, CloseStages, Booked, OwnedBy, Exists
    <3>. QED
      BY <2>1, <2>2, <3>1, ReadStep
  <2>3. ASSUME Goto(q, "done", NoLocals) PROVE TrailStep(q) /\ AccountStep
    BY <2>1, <2>3, FreeTrail, ReadStep
  <2>. QED
    BY <1>3, <2>2, <2>3 DEF CreateSlot, Finish
<1>4. ASSUME CreateCommit(q) PROVE TrailStep(q) /\ AccountStep
  <2>. DEFINE b == loc[q]
              row == NewReservation(b)
  <2>1. Goto(q, "done", NoLocals) /\ pc[q] = "create_commit"
    BY <1>4 DEF CreateCommit, Finish
  <2>2. b.contract \in ContractIds /\ b.dur \in Nat \ {0}
    BY <2>1, ReservationsAssumption DEF TypeOK, RuntimeTypeOK, FitsStage, BookingLocals
  <2>3. ~Booked(q) /\ OwnedBy(b.contract, b.user)
    BY <1>1, <2>1 DEF TrailOf, CreateStages
  <2>4. CASE Write(q, row) /\ Debit(b.contract, b.dur, q)
    <3>1. row.status # "NONE" /\ row.user = b.user
      BY DEF NewReservation
    <3>2. /\ RowsKept
          /\ Booked(q)' /\ reservations'[q].user = row.user
          /\ \A p \in Requests \ {q} : Booked(p)' => Booked(p)
      BY <2>3, <2>4, <3>1, RowWritten
    <3>3. TrailStep(q)
      BY <2>1, <3>2, Moves, FreeTrail DEF TrailStep
    <3>4. AccountStep
      BY <2>2, <2>3, <2>4, <3>1, <3>2 DEF AccountStep
    <3>. QED
      BY <3>3, <3>4
  <2>5. CASE UNCHANGED <<reservations, creditVars>>
    <3>1. UNCHANGED charged
      BY <2>5 DEF creditVars
    <3>. QED
      BY <2>1, <2>5, <3>1, FreeTrail, ReadStep
  <2>. QED
    BY <1>4, <2>4, <2>5 DEF CreateCommit
<1>. QED
  BY <1>2, <1>3, <1>4

\* A reservation that was found is still there, with its user: what cancel and
\* reschedule read of it before they look for a contract.
LEMMA SeenCharges ==
  ASSUME TypeOK, ChargeInv, NEW q \in Requests, NEW r \in Requests, Booked(r),
         NEW stage \in SeenStages, NEW l, l.target = r, l.seen = reservations[r],
         Goto(q, stage, l), UNCHANGED <<contracts, reservations, charged>>
  PROVE  TrailStep(q) /\ AccountStep
<1>1. pc'[q] = stage /\ loc'[q] = l => TrailOf(q)'
  BY DEF TrailOf, CreateStages, SeenStages, SettleStages, CloseStages, Booked
<1>. QED
  BY <1>1, ReadStep

\* They find the user's contract, or end.
LEMMA ContractFound ==
  ASSUME TypeOK, ChargeInv, NEW q \in Requests, pc[q] \in SeenStages,
         NEW c \in ContractIds, IsActiveContract(c, loc[q].seen.user),
         NEW stage \in SettleStages, NEW l, l.target = loc[q].target, l.contract = c,
         Goto(q, stage, l), UNCHANGED <<contracts, reservations, charged>>
  PROVE  TrailStep(q) /\ AccountStep
<1>1. /\ Booked(loc[q].target)
      /\ loc[q].seen.user = reservations[loc[q].target].user
  BY DEF ChargeInv, TrailOf
<1>2. OwnedBy(c, loc[q].seen.user)
  BY ActiveIsOwned
<1>3. pc'[q] = stage /\ loc'[q] = l => TrailOf(q)'
  BY <1>1, <1>2
  DEF TrailOf, CreateStages, SeenStages, SettleStages, CloseStages, Booked, OwnedBy, Exists
<1>. QED
  BY <1>3, ReadStep

\* The request ends and nothing was written.
LEMMA EndCharges ==
  ASSUME TypeOK, NEW q \in Requests, Finish(q), UNCHANGED <<reservations, charged>>
  PROVE  TrailStep(q) /\ AccountStep
BY FreeTrail, ReadStep DEF Finish

\* The request ends with a new version of its reservation, still booked and its user's.
LEMMA RowEnds ==
  ASSUME TypeOK, NEW q \in Requests, NEW r \in Requests, Booked(r), Finish(q),
         NEW row, Write(r, row), row.status # "NONE", row.user = reservations[r].user
  PROVE  /\ TrailStep(q)
         /\ Booked(r)' /\ reservations'[r].user = reservations[r].user
         /\ \A p \in Requests : Booked(p)' => Booked(p)
<1>1. /\ RowsKept
      /\ Booked(r)' /\ reservations'[r].user = row.user
      /\ \A p \in Requests : Booked(p)' => Booked(p)
  BY RowWritten
<1>2. Goto(q, "done", NoLocals)
  BY DEF Finish
<1>3. TrailOf(q)'
  BY <1>2, Moves, FreeTrail
<1>. QED
  BY <1>1, <1>2, <1>3, Moves DEF TrailStep

\* A debit, or a refund, of a reservation that is there and stays its user's.
LEMMA DebitCharges ==
  ASSUME NEW r \in Requests, NEW w \in ContractIds, NEW n \in Nat \ {0}, Debit(w, n, r),
         Booked(r)', OwnedBy(w, reservations[r].user),
         reservations'[r].user = reservations[r].user,
         \A p \in Requests : Booked(p)' => Booked(p)
  PROVE  AccountStep
<1>1. OwnedBy(w, reservations'[r].user)
  BY DEF OwnedBy
<1>. QED
  BY <1>1 DEF AccountStep

LEMMA RefundCharges ==
  ASSUME NEW r \in Requests, NEW w \in ContractIds, NEW n \in Nat, Refund(w, n, r),
         Booked(r)', OwnedBy(w, reservations[r].user),
         reservations'[r].user = reservations[r].user,
         \A p \in Requests : Booked(p)' => Booked(p)
  PROVE  AccountStep
<1>1. OwnedBy(w, reservations'[r].user)
  BY DEF OwnedBy
<1>. QED
  BY <1>1 DEF AccountStep

\* PATCH /reservations/:id/cancel: the refund is of a reservation that is there, to a
\* contract of its user.
LEMMA CancelCharges ==
  ASSUME TypeOK, ChargeInv, NEW q \in Requests,
         \/ \E r \in Requests : CancelRead(q, r)
         \/ CancelContract(q)
         \/ CancelCommit(q)
  PROVE  TrailStep(q) /\ AccountStep
<1>1. ASSUME NEW r \in Requests, CancelRead(q, r) PROVE TrailStep(q) /\ AccountStep
  <2>1. Booked(r)
    BY <1>1 DEF CancelRead, Cancellable, Booked
  <2>2. UNCHANGED <<contracts, reservations, charged>>
    BY <1>1 DEF CancelRead, contractVars, creditVars
  <2>3. Goto(q, "cancel_contract", [target |-> r, seen |-> reservations[r]])
    BY <1>1 DEF CancelRead, Begin, Goto
  <2>. QED
    BY <2>1, <2>2, <2>3, SeenCharges DEF SeenStages
<1>2. ASSUME CancelContract(q) PROVE TrailStep(q) /\ AccountStep
  <2>. DEFINE r == loc[q].seen
              l(c) == [target |-> loc[q].target, contract |-> c, credits |-> r.dur,
                       refund |-> Refunds(c, r.start), late |-> Late(c, r.start)]
  <2>1. pc[q] \in SeenStages /\ UNCHANGED <<contracts, reservations, charged>>
    BY <1>2 DEF CancelContract, SeenStages, contractVars, creditVars
  <2>2. ASSUME NEW c \in ContractIds, IsActiveContract(c, r.user),
               Goto(q, "cancel_commit", l(c))
        PROVE  TrailStep(q) /\ AccountStep
    <3>1. l(c).target = loc[q].target /\ l(c).contract = c
      OBVIOUS
    <3>. HIDE DEF l
    <3>. QED
      BY <2>1, <2>2, <3>1, ContractFound DEF SettleStages
  <2>3. ASSUME Finish(q) PROVE TrailStep(q) /\ AccountStep
    BY <2>1, <2>3, EndCharges
  <2>. QED
    BY <1>2, <2>2, <2>3 DEF CancelContract
<1>3. ASSUME CancelCommit(q) PROVE TrailStep(q) /\ AccountStep
  <2>. DEFINE d == loc[q]
  <2>1. d \in CancelLocals /\ pc[q] \in SettleStages
    BY <1>3 DEF CancelCommit, TypeOK, RuntimeTypeOK, FitsStage, SettleStages
  <2>2. d.target \in Requests /\ d.contract \in ContractIds /\ d.credits \in Nat
    BY <2>1 DEF CancelLocals
  <2>. PICK r \in Requests : r = d.target
    BY <2>2
  <2>3. Booked(r) /\ OwnedBy(d.contract, reservations[r].user)
    BY <2>1 DEF ChargeInv, TrailOf
  <2>4. /\ Cancelled(reservations[r]).status # "NONE"
        /\ Cancelled(reservations[r]).user = reservations[r].user
    BY <2>2 DEF Cancelled, TypeOK, ReservationsTypeOK, Reservation
  <2>5. /\ TrailStep(q)
        /\ Booked(r)' /\ reservations'[r].user = reservations[r].user
        /\ \A p \in Requests : Booked(p)' => Booked(p)
    <3>1. Finish(q) /\ Write(r, Cancelled(reservations[r]))
      BY <1>3 DEF CancelCommit
    <3>. QED
      BY <2>2, <2>3, <2>4, <3>1, RowEnds
  <2>6. CASE Refund(d.contract, d.credits, r)
    BY <2>2, <2>3, <2>5, <2>6, RefundCharges
  <2>7. CASE UNCHANGED creditVars
    BY <2>5, <2>7 DEF AccountStep, creditVars
  <2>. QED
    BY <1>3, <2>5, <2>6, <2>7 DEF CancelCommit
<1>. QED
  BY <1>1, <1>2, <1>3

\* PATCH /reservations/:id/reschedule: the difference is charged to, or refunded from,
\* a contract of the reservation's user.
LEMMA RescheduleCharges ==
  ASSUME TypeOK, ChargeInv, NEW q \in Requests,
         \/ \E r \in Requests, start \in Times, dur \in Durations :
              RescheduleRead(q, r, start, dur)
         \/ RescheduleContract(q)
         \/ RescheduleSlot(q)
         \/ RescheduleCommit(q)
  PROVE  TrailStep(q) /\ AccountStep
<1>1. ASSUME NEW r \in Requests, NEW start \in Times, NEW dur \in Durations,
             RescheduleRead(q, r, start, dur)
      PROVE  TrailStep(q) /\ AccountStep
  <2>1. Booked(r)
    BY <1>1 DEF RescheduleRead, CanReschedule, Booked
  <2>2. UNCHANGED <<contracts, reservations, charged>>
    BY <1>1 DEF RescheduleRead, contractVars, creditVars
  <2>3. Goto(q, "reschedule_contract",
             [target |-> r, seen |-> reservations[r], start |-> start, dur |-> dur])
    BY <1>1 DEF RescheduleRead, Begin, Goto
  <2>. QED
    BY <2>1, <2>2, <2>3, SeenCharges DEF SeenStages
<1>2. ASSUME RescheduleContract(q) PROVE TrailStep(q) /\ AccountStep
  <2>. DEFINE m == loc[q]
              l(c) == [target |-> m.target, room |-> m.seen.room, start |-> m.start,
                       dur |-> m.dur, contract |-> c, delta |-> m.dur - m.seen.dur]
  <2>1. pc[q] \in SeenStages /\ UNCHANGED <<contracts, reservations, charged>>
    BY <1>2 DEF RescheduleContract, SeenStages, contractVars, creditVars
  <2>2. ASSUME NEW c \in ContractIds, IsActiveContract(c, m.seen.user),
               Goto(q, "reschedule_slot", l(c))
        PROVE  TrailStep(q) /\ AccountStep
    <3>1. l(c).target = loc[q].target /\ l(c).contract = c
      OBVIOUS
    <3>. HIDE DEF l
    <3>. QED
      BY <2>1, <2>2, <3>1, ContractFound DEF SettleStages
  <2>3. ASSUME Finish(q) PROVE TrailStep(q) /\ AccountStep
    BY <2>1, <2>3, EndCharges
  <2>. QED
    BY <1>2, <2>2, <2>3 DEF RescheduleContract
<1>3. ASSUME RescheduleSlot(q) PROVE TrailStep(q) /\ AccountStep
  <2>1. pc[q] = "reschedule_slot" /\ UNCHANGED <<contracts, reservations, charged>>
    BY <1>3 DEF RescheduleSlot, contractVars, creditVars
  <2>2. ASSUME Goto(q, "reschedule_commit", loc[q]) PROVE TrailStep(q) /\ AccountStep
    <3>1. pc'[q] = "reschedule_commit" /\ loc'[q] = loc[q] => TrailOf(q)'
      BY <2>1
      DEF ChargeInv, TrailOf, CreateStages, SeenStages, SettleStages, CloseStages, Booked,
          OwnedBy, Exists
    <3>. QED
      BY <2>1, <2>2, <3>1, ReadStep
  <2>3. ASSUME Finish(q) PROVE TrailStep(q) /\ AccountStep
    BY <2>1, <2>3, EndCharges
  <2>. QED
    BY <1>3, <2>2, <2>3 DEF RescheduleSlot
<1>4. ASSUME RescheduleCommit(q) PROVE TrailStep(q) /\ AccountStep
  <2>. DEFINE m == loc[q]
  <2>1. m \in MoveLocals /\ pc[q] \in SettleStages
    BY <1>4 DEF RescheduleCommit, TypeOK, RuntimeTypeOK, FitsStage, SettleStages
  <2>2. m.target \in Requests /\ m.contract \in ContractIds /\ m.delta \in Int
    BY <2>1 DEF MoveLocals
  <2>. PICK r \in Requests : r = m.target
    BY <2>2
  <2>3. Booked(r) /\ OwnedBy(m.contract, reservations[r].user)
    BY <2>1 DEF ChargeInv, TrailOf
  <2>4. CASE UNCHANGED <<reservations, creditVars>>
    BY <1>4, <2>4, EndCharges DEF RescheduleCommit, creditVars
  <2>5. CASE Settle(m) /\ Write(r, Moved(reservations[r], m))
    <3>1. /\ Moved(reservations[r], m).status = reservations[r].status
          /\ Moved(reservations[r], m).user = reservations[r].user
      BY <2>2 DEF Moved, TypeOK, ReservationsTypeOK, Reservation
    <3>2. /\ TrailStep(q)
          /\ Booked(r)' /\ reservations'[r].user = reservations[r].user
          /\ \A p \in Requests : Booked(p)' => Booked(p)
      <4>1. Finish(q) /\ Moved(reservations[r], m).status # "NONE"
        BY <1>4, <2>3, <3>1 DEF RescheduleCommit, Booked
      <4>. QED
        BY <2>2, <2>3, <2>5, <3>1, <4>1, RowEnds
    <3>3. CASE m.delta > 0 /\ Debit(m.contract, m.delta, r)
      <4>1. m.delta \in Nat \ {0}
        BY <2>2, <3>3
      <4>. QED
        BY <2>2, <2>3, <3>2, <3>3, <4>1, DebitCharges
    <3>4. CASE m.delta < 0 /\ Refund(m.contract, -m.delta, r)
      <4>1. -m.delta \in Nat
        BY <2>2, <3>4
      <4>. QED
        BY <2>2, <2>3, <3>2, <3>4, <4>1, RefundCharges
    <3>5. CASE UNCHANGED creditVars
      BY <3>2, <3>5 DEF AccountStep, creditVars
    <3>. QED
      BY <2>5, <3>2, <3>3, <3>4, <3>5 DEF Settle
  <2>. QED
    BY <1>4, <2>4, <2>5 DEF RescheduleCommit
<1>. QED
  BY <1>1, <1>2, <1>3, <1>4

\* No-show and complete charge nothing.
LEMMA CloseCharges ==
  ASSUME TypeOK, ChargeInv, NEW q \in Requests,
         \/ \E r \in Requests : MarkNoShowRead(q, r) \/ CompleteRead(q, r)
         \/ MarkNoShowCommit(q)
         \/ CompleteCommit(q)
  PROVE  TrailStep(q) /\ AccountStep
<1>1. ASSUME NEW r \in Requests, NEW stage \in CloseStages, CloseRead(q, r, stage)
      PROVE  TrailStep(q) /\ AccountStep
  <2>1. Booked(r) /\ Goto(q, stage, [target |-> r])
    BY <1>1 DEF CloseRead, Booked, Begin, Goto
  <2>2. UNCHANGED <<reservations, charged>>
    BY <1>1 DEF CloseRead, creditVars
  <2>3. pc'[q] = stage /\ loc'[q] = [target |-> r] => TrailOf(q)'
    BY <2>1, <2>2
    DEF TrailOf, CreateStages, SeenStages, SettleStages, CloseStages, Booked
  <2>. QED
    BY <2>1, <2>2, <2>3, ReadStep
<1>2. ASSUME NEW stage \in CloseStages, NEW status \in {"NO_SHOW", "COMPLETED"},
             CloseCommit(q, stage, status)
      PROVE  TrailStep(q) /\ AccountStep
  <2>. DEFINE r == loc[q].target
              row == [reservations[r] EXCEPT !.status = status]
  <2>1. r \in Requests
    BY <1>2 DEF CloseCommit, CloseStages, TypeOK, RuntimeTypeOK, FitsStage, TargetLocals
  <2>2. Booked(r)
    BY <1>2 DEF CloseCommit, ChargeInv, TrailOf
  <2>3. UNCHANGED charged /\ Finish(q)
    BY <1>2 DEF CloseCommit, creditVars
  <2>4. CASE UNCHANGED reservations
    BY <2>3, <2>4, EndCharges
  <2>5. CASE Write(r, row)
    <3>1. row.status # "NONE" /\ row.user = reservations[r].user
      BY <2>1 DEF TypeOK, ReservationsTypeOK, Reservation
    <3>. QED
      BY <2>1, <2>2, <2>3, <2>5, <3>1, RowEnds DEF AccountStep
  <2>. QED
    BY <1>2, <2>4, <2>5 DEF CloseCommit
<1>. QED
  BY <1>1, <1>2
  DEF CloseStages, MarkNoShowRead, CompleteRead, MarkNoShowCommit, CompleteCommit

\* Adjustments, renewals and rules write no reservation and post no charge.
LEMMA OtherRequestCharges ==
  ASSUME TypeOK, NEW q \in Requests, NEW l,
         NEW stage \in {"done", "adjust_entry", "renew_commit", "rule_commit"},
         Goto(q, stage, l), UNCHANGED <<reservations, charged>>
  PROVE  TrailStep(q) /\ AccountStep
BY FreeTrail, ReadStep

\* Every step is of one of these kinds.
LEMMA NextCharges ==
  ASSUME TypeOK, ChargeInv, [Next]_vars
  PROVE  ChargeStep
<1>1. OwnersKept
  BY OwnersStay
<1>2. ASSUME NEW q \in Requests, TrailStep(q), AccountStep PROVE ChargeStep
  BY <1>1, <1>2 DEF ChargeStep, TrailStep
<1>3. ASSUME UNCHANGED <<pc, loc, reservations, charged>> PROVE ChargeStep
  BY <1>1, <1>3, SameRows DEF ChargeStep, AccountStep
<1>4. CASE ReservationsStep
  BY <1>2, <1>4, CreateCharges, CancelCharges, RescheduleCharges, CloseCharges
  DEF ReservationsStep
<1>5. CASE AdjustStep /\ UNCHANGED reservations
  <2>1. ASSUME NEW q \in Requests, NEW w, NEW delta, AdjustBalance(q, w, delta)
        PROVE  ChargeStep
    BY <1>2, <1>5, <2>1, OtherRequestCharges DEF AdjustBalance, MoveBalance, Begin, Goto
  <2>2. ASSUME NEW q \in Requests, AdjustEntry(q) PROVE ChargeStep
    BY <1>2, <1>5, <2>2, EndCharges DEF AdjustEntry, RecordAdjustment
  <2>. QED
    BY <1>5, <2>1, <2>2 DEF AdjustStep
<1>6. CASE ContractsStep /\ UNCHANGED reservations
  <2>1. ASSUME NEW c, NEW terms, NEW p,
               CreateContract(c, terms) \/ UpdateContract(c, p) \/ SweepExpire(c)
        PROVE  ChargeStep
    BY <1>3, <1>6, <2>1
    DEF CreateContract, UpdateContract, SweepExpire, Idle, Grant, runtimeVars, creditVars
  <2>2. ASSUME NEW q \in Requests, NEW c, NEW endDate, RenewRead(q, c, endDate)
        PROVE  ChargeStep
    BY <1>2, <1>6, <2>2, OtherRequestCharges DEF RenewRead, Begin, Goto, creditVars
  <2>3. ASSUME NEW q \in Requests, RenewCommit(q) PROVE ChargeStep
    BY <1>2, <1>6, <2>3, EndCharges DEF RenewCommit, Grant
  <2>4. CASE SweepRead \/ SweepAbort
    BY <1>3, <1>6, <2>4 DEF SweepRead, SweepAbort, creditVars
  <2>. QED
    BY <1>6, <2>1, <2>2, <2>3, <2>4 DEF ContractsStep, ContractsChange
<1>7. CASE SchedulesStep /\ UNCHANGED <<creditVars, reservations>>
  <2>1. UNCHANGED charged
    BY <1>7 DEF creditVars
  <2>2. ASSUME NEW q \in Requests, NEW i, NEW p, UpdateAvailabilityRead(q, i, p)
        PROVE  ChargeStep
    BY <1>2, <1>7, <2>1, <2>2, OtherRequestCharges DEF UpdateAvailabilityRead, Begin, Goto
  <2>3. ASSUME NEW q \in Requests, UpdateAvailabilityCommit(q) PROVE ChargeStep
    BY <1>2, <1>7, <2>1, <2>3, EndCharges DEF UpdateAvailabilityCommit
  <2>4. CASE UNCHANGED runtimeVars
    BY <1>3, <1>7, <2>1, <2>4 DEF runtimeVars
  <2>. QED
    BY <1>7, <2>2, <2>3, <2>4
    DEF SchedulesStep, CreateAvailability, DeleteAvailability, CreateBlockedPeriod,
        DeleteBlockedPeriod, SetRoomStatus, Idle
<1>8. CASE /\ Tick \/ \E q \in Requests : Abort(q)
           /\ UNCHANGED <<creditVars, reservations>>
  <2>1. UNCHANGED charged
    BY <1>8 DEF creditVars
  <2>. QED
    BY <1>2, <1>3, <1>8, <2>1, EndCharges DEF Tick, Abort
<1>9. CASE UNCHANGED vars
  BY <1>3, <1>9 DEF vars, runtimeVars, creditVars
<1>. QED
  BY <1>4, <1>5, <1>6, <1>7, <1>8, <1>9 DEF Next

-----------------------------------------------------------------------------
(* The invariant *)

\* What a request relies on stays true while others act.
LEMMA TrailKept ==
  ASSUME TypeOK, OwnersKept, RowsKept, NEW p \in Requests, TrailOf(p),
         UNCHANGED <<pc[p], loc[p]>>, Booked(p)' => Booked(p)
  PROVE  TrailOf(p)'
<1>. DEFINE l == loc[p]
<1>1. /\ pc[p] \in CreateStages => l.contract \in ContractIds
      /\ pc[p] \in SeenStages \cup SettleStages \cup CloseStages => l.target \in Requests
      /\ pc[p] \in SettleStages => l.contract \in ContractIds
  <2>1. FitsStage(l, pc[p])
    BY DEF TypeOK, RuntimeTypeOK
  <2>2. pc[p] \in CreateStages => l.contract \in ContractIds
    BY <2>1 DEF FitsStage, CreateStages, BookingLocals
  <2>3. pc[p] \in SeenStages => l.target \in Requests
    BY <2>1 DEF FitsStage, SeenStages, SeenLocals, MoveSeenLocals
  <2>4. pc[p] \in SettleStages => l.target \in Requests /\ l.contract \in ContractIds
    BY <2>1 DEF FitsStage, SettleStages, CancelLocals, MoveLocals
  <2>5. pc[p] \in CloseStages => l.target \in Requests
    BY <2>1 DEF FitsStage, CloseStages, TargetLocals
  <2>. QED
    BY <2>2, <2>3, <2>4, <2>5
<1>2. ASSUME NEW c \in ContractIds, NEW u, OwnedBy(c, u)
      PROVE  Exists(c)' /\ contracts'[c].user = u
  BY <1>2 DEF OwnersKept, OwnedBy
<1>3. ASSUME NEW r \in Requests, Booked(r)
      PROVE  Booked(r)' /\ reservations'[r].user = reservations[r].user
  BY <1>3 DEF RowsKept
<1>4. pc[p] \in CreateStages => OwnedBy(loc[p].contract, loc[p].user)'
  BY <1>1, <1>2 DEF TrailOf, OwnedBy, Exists
<1>5. pc[p] \in SeenStages \cup SettleStages \cup CloseStages =>
        /\ Booked(loc[p].target)'
        /\ reservations'[loc'[p].target].user = reservations[loc[p].target].user
  BY <1>1, <1>3 DEF TrailOf, Booked
<1>6. pc[p] \in SettleStages =>
        OwnedBy(loc[p].contract, reservations[loc[p].target].user)'
  BY <1>1, <1>2, <1>5 DEF TrailOf, OwnedBy, Exists
<1>. QED
  BY <1>4, <1>5, <1>6 DEF TrailOf

LEMMA TrailsKept ==
  ASSUME TypeOK, ChargeInv, ChargeStep, NEW p \in Requests
  PROVE  TrailOf(p)'
<1>1. OwnersKept /\ RowsKept /\ TrailOf(p)
  BY DEF ChargeInv, ChargeStep
<1>2. CASE UNCHANGED <<pc, loc>> /\ \A r \in Requests : Booked(r)' => Booked(r)
  BY <1>1, <1>2, TrailKept
<1>3. ASSUME NEW q \in Requests, TrailStep(q) PROVE TrailOf(p)'
  <2>1. CASE p = q
    BY <1>3, <2>1 DEF TrailStep
  <2>2. CASE p # q
    BY <1>1, <1>3, <2>2, TrailKept DEF TrailStep
  <2>. QED
    BY <2>1, <2>2
<1>. QED
  BY <1>2, <1>3 DEF ChargeStep

\* What the accounts say of one reservation.
AccountOf(r) ==
  /\ Booked(r) <=> \E w \in ContractIds : charged[r][w].debit > 0
  /\ \A w \in ContractIds :
       /\ charged[r][w].debit >= 0
       /\ charged[r][w].debit > 0 \/ charged[r][w].refund > 0 =>
            Booked(r) /\ OwnedBy(w, reservations[r].user)

LEMMA AccountsAreEach ==
  /\ Accounts <=> \A r \in Requests : AccountOf(r)
  /\ Accounts' <=> \A r \in Requests : AccountOf(r)'
BY DEF Accounts, AccountOf, BookedIffDebited

\* The charges of a reservation stay, and so does the reservation.
LEMMA AccountKept ==
  ASSUME OwnersKept, RowsKept, NEW r \in Requests, AccountOf(r),
         charged'[r] = charged[r], Booked(r)' => Booked(r)
  PROVE  AccountOf(r)'
<1>1. Booked(r)' <=> Booked(r)
  BY DEF RowsKept
<1>2. ASSUME NEW w \in ContractIds, Booked(r), OwnedBy(w, reservations[r].user)
      PROVE  OwnedBy(w, reservations[r].user)'
  BY <1>2 DEF OwnersKept, RowsKept, OwnedBy, Exists
<1>. QED
  BY <1>1, <1>2 DEF AccountOf

LEMMA DebitOf ==
  ASSUME TypeOK, NEW r \in Requests, NEW w \in ContractIds, NEW n \in Nat, Debit(w, n, r)
  PROVE  /\ \A p \in Requests \ {r} : charged'[p] = charged[p]
         /\ \A v \in ContractIds \ {w} : charged'[r][v] = charged[r][v]
         /\ charged'[r][w].debit = charged[r][w].debit + n
         /\ charged[r][w].debit \in Int
<1>1. charged \in [Requests -> [ContractIds -> Charge]]
  BY DEF TypeOK, CreditsTypeOK
<1>. DEFINE entry == [debit |-> charged[r][w].debit + n, refund |-> charged[r][w].refund]
<1>2. charged' = [charged EXCEPT ![r] = [charged[r] EXCEPT ![w] = entry]]
  BY <1>1 DEF Debit, Charge
<1>3. charged[r][w].debit \in Int
  BY <1>1 DEF Charge
<1>. HIDE DEF entry
<1>4. /\ \A p \in Requests \ {r} : charged'[p] = charged[p]
      /\ \A v \in ContractIds \ {w} : charged'[r][v] = charged[r][v]
      /\ charged'[r][w] = entry
  BY <1>1, <1>2
<1>. QED
  BY <1>3, <1>4 DEF entry

LEMMA RefundOf ==
  ASSUME TypeOK, NEW r \in Requests, NEW w \in ContractIds, NEW n \in Nat, Refund(w, n, r)
  PROVE  /\ \A p \in Requests \ {r} : charged'[p] = charged[p]
         /\ \A v \in ContractIds \ {w} : charged'[r][v] = charged[r][v]
         /\ charged'[r][w].debit = charged[r][w].debit
<1>1. charged \in [Requests -> [ContractIds -> Charge]]
  BY DEF TypeOK, CreditsTypeOK
<1>. DEFINE entry == [debit |-> charged[r][w].debit, refund |-> charged[r][w].refund + n]
<1>2. charged' = [charged EXCEPT ![r] = [charged[r] EXCEPT ![w] = entry]]
  BY <1>1 DEF Refund, Charge
<1>. HIDE DEF entry
<1>3. /\ \A p \in Requests \ {r} : charged'[p] = charged[p]
      /\ \A v \in ContractIds \ {w} : charged'[r][v] = charged[r][v]
      /\ charged'[r][w] = entry
  BY <1>1, <1>2
<1>. QED
  BY <1>3 DEF entry

\* A charge to w of a reservation that is there after the step, and its user's.
LEMMA AccountCharged ==
  ASSUME OwnersKept, RowsKept, NEW r \in Requests, NEW w \in ContractIds, AccountOf(r),
         \A v \in ContractIds \ {w} : charged'[r][v] = charged[r][v],
         charged'[r][w].debit >= 0, charged'[r][w].debit >= charged[r][w].debit,
         Booked(r)', OwnedBy(w, reservations'[r].user),
         charged[r][w].debit \in Int, charged'[r][w].debit \in Int,
         Booked(r) \/ charged'[r][w].debit > 0
  PROVE  AccountOf(r)'
<1>1. \E v \in ContractIds : charged'[r][v].debit > 0
  BY DEF AccountOf
<1>2. OwnedBy(w, reservations[r].user)'
  BY DEF OwnersKept, OwnedBy, Exists
<1>3. ASSUME NEW v \in ContractIds \ {w},
             charged'[r][v].debit > 0 \/ charged'[r][v].refund > 0
      PROVE  OwnedBy(v, reservations[r].user)'
  BY <1>3 DEF AccountOf, OwnersKept, RowsKept, OwnedBy, Exists
<1>4. \A v \in ContractIds : charged'[r][v].debit >= 0
  BY DEF AccountOf
<1>. QED
  BY <1>1, <1>2, <1>3, <1>4 DEF AccountOf

LEMMA AccountsKept ==
  ASSUME TypeOK, ChargeInv, ChargeStep
  PROVE  Accounts'
<1>1. OwnersKept /\ RowsKept /\ \A p \in Requests : AccountOf(p)
  BY AccountsAreEach DEF ChargeInv, ChargeStep
<1>2. CASE UNCHANGED charged /\ \A p \in Requests : Booked(p)' => Booked(p)
  <2>1. \A p \in Requests : AccountOf(p)'
    BY <1>1, <1>2, AccountKept
  <2>. QED
    BY <2>1, AccountsAreEach
<1>3. ASSUME NEW r \in Requests, NEW w \in ContractIds, NEW n \in Nat \ {0},
             Debit(w, n, r), Booked(r)', OwnedBy(w, reservations'[r].user),
             \A p \in Requests \ {r} : Booked(p)' => Booked(p)
      PROVE  Accounts'
  <2>1. /\ \A p \in Requests \ {r} : charged'[p] = charged[p]
        /\ \A v \in ContractIds \ {w} : charged'[r][v] = charged[r][v]
        /\ charged'[r][w].debit = charged[r][w].debit + n
        /\ charged[r][w].debit \in Int
    BY <1>3, DebitOf
  <2>2. charged[r][w].debit >= 0
    BY <1>1 DEF AccountOf
  <2>3. AccountOf(r)'
    BY <1>1, <1>3, <2>1, <2>2, AccountCharged
  <2>4. \A p \in Requests \ {r} : AccountOf(p)'
    BY <1>1, <1>3, <2>1, AccountKept
  <2>. QED
    BY <2>3, <2>4, AccountsAreEach
<1>4. ASSUME NEW r \in Requests, NEW w \in ContractIds, NEW n \in Nat,
             Refund(w, n, r), Booked(r)', OwnedBy(w, reservations'[r].user),
             \A p \in Requests : Booked(p)' => Booked(p)
      PROVE  Accounts'
  <2>1. /\ \A p \in Requests \ {r} : charged'[p] = charged[p]
        /\ \A v \in ContractIds \ {w} : charged'[r][v] = charged[r][v]
        /\ charged'[r][w].debit = charged[r][w].debit
    BY <1>4, RefundOf
  <2>2. charged[r][w].debit >= 0 /\ charged[r][w].debit \in Int
    BY <1>1 DEF AccountOf, TypeOK, CreditsTypeOK, Charge
  <2>3. AccountOf(r)'
    BY <1>1, <1>4, <2>1, <2>2, AccountCharged
  <2>4. \A p \in Requests \ {r} : AccountOf(p)'
    BY <1>1, <1>4, <2>1, AccountKept
  <2>. QED
    BY <2>3, <2>4, AccountsAreEach
<1>. QED
  BY <1>2, <1>3, <1>4 DEF ChargeStep, AccountStep

LEMMA InitCharges ==
  ASSUME Init
  PROVE  ChargeInv
<1>1. \A q \in Requests : pc[q] = "new" /\ ~Booked(q)
  BY DEF Init, RuntimeInit, ReservationsInit, NoReservation, Booked
<1>2. \A q \in Requests : TrailOf(q)
  BY <1>1 DEF TrailOf, CreateStages, SeenStages, SettleStages, CloseStages
<1>3. \A r \in Requests, w \in ContractIds :
        charged[r][w].debit = 0 /\ charged[r][w].refund = 0
  BY DEF Init, CreditsInit
<1>. QED
  BY <1>1, <1>2, <1>3 DEF ChargeInv, Accounts, BookedIffDebited

LEMMA ChargesInvariant == Spec => []ChargeInv
<1>1. Init => ChargeInv
  BY InitCharges
<1>2. TypeOK /\ ChargeInv /\ [Next]_vars => ChargeInv'
  BY NextCharges, TrailsKept, AccountsKept DEF ChargeInv
<1>. QED
  BY <1>1, <1>2, TypeCorrect, PTL DEF Spec

-----------------------------------------------------------------------------

\* No reservation without a debit and no debit without a reservation, with any number
\* of requests in flight, dying between any two of their database calls.
THEOREM BookedAndDebited == Spec => []BookedIffDebited
<1>1. ChargeInv => BookedIffDebited
  BY DEF ChargeInv, Accounts
<1>. QED
  BY <1>1, ChargesInvariant, PTL

\* Reservations are charged to, and refunded from, contracts of their own user, although
\* every handler looks the contract up long before it charges it.
THEOREM OwnersPay == Spec => []ChargedToOwner
<1>1. ChargeInv => ChargedToOwner
  BY DEF ChargeInv, Accounts, ChargedToOwner, OwnedBy
<1>. QED
  BY <1>1, ChargesInvariant, PTL

=============================================================================
