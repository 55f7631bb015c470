-------------------------- MODULE SequentialProofs --------------------------
(***************************************************************************)
(* What Booking promises one request at a time, for every choice of its    *)
(* other constants.  The argument is that of two-phase handlers run alone: *)
(* while a request is in flight nobody else writes a table it has read, so *)
(* what it remembers still holds when it commits, and each handler acts as *)
(* if it were one atomic operation (AtomicStep).                           *)
(***************************************************************************)
EXTENDS BookingProofs, FiniteSetTheorems

\* At most one request is in flight, and none while a job runs.
Solo ==
  /\ \A p \in InFlight, q \in InFlight : p = q
  /\ job = {} \/ InFlight = {}

\* What request q has read is still so.
Remembers(q) ==
  /\ pc[q] = "create_commit" =>
       SlotIsFree(loc[q].room, loc[q].start, loc[q].dur, q)
  /\ pc[q] = "cancel_contract" =>
       /\ loc[q].seen = reservations[loc[q].target]
       /\ Cancellable(reservations[loc[q].target])
  /\ pc[q] = "cancel_commit" =>
       /\ Cancellable(reservations[loc[q].target])
       /\ loc[q].credits = reservations[loc[q].target].dur
       /\ loc[q].late /\ loc[q].refund => WithinAllowance(loc[q].contract)
  /\ pc[q] = "reschedule_contract" =>
       /\ loc[q].seen = reservations[loc[q].target]
       /\ reservations[loc[q].target].status = "CONFIRMED"
  /\ pc[q] \in {"reschedule_slot", "reschedule_commit"} =>
       /\ reservations[loc[q].target].status = "CONFIRMED"
       /\ loc[q].room = reservations[loc[q].target].room
       /\ loc[q].delta = loc[q].dur - reservations[loc[q].target].dur
  /\ pc[q] = "reschedule_commit" =>
       SlotIsFree(loc[q].room, loc[q].start, loc[q].dur, loc[q].target)
  /\ pc[q] \in CloseStages => reservations[loc[q].target].status = "CONFIRMED"

Sequential == TypeOK /\ ChargeInv /\ Solo /\ \A q \in Requests : Remembers(q)

-----------------------------------------------------------------------------
(* Nobody else *)

\* Where at most one is in flight, a request, a job or a statement that may
\* start finds none.
LEMMA StartsAlone ==
  ASSUME Concurrency = 1, IsFiniteSet(Requests), CanStart
  PROVE  InFlight = {} /\ job = {}
<1>1. IsFiniteSet(InFlight)
  BY FS_Subset DEF InFlight
<1>2. Cardinality(InFlight) \in Nat
  BY <1>1, FS_CardinalityType
<1>3. Cardinality(InFlight) = 0 /\ job = {}
  BY <1>2 DEF CanStart
<1> QED BY <1>1, <1>3, FS_EmptySet

tables == <<creditVars, contractVars, scheduleVars, reservations>>

\* Slots are as free as they were.
LEMMA SlotsKept ==
  ASSUME UNCHANGED <<scheduleVars, reservations>>, NEW x, NEW start, NEW dur, NEW r,
         SlotIsFree(x, start, dur, r)
  PROVE  SlotIsFree(x, start, dur, r)'
BY DEF SlotIsFree, FreeInstants, OpenInstants, BlockedInstants, TakenInstants,
       ActiveRules, Span, DayOf, Weekday, scheduleVars

\* At these stages a request relies on nothing it has read.
LEMMA NothingToRemember ==
  ASSUME NEW q \in Requests,
         pc'[q] \in {"new", "done", "create_slot", "adjust_entry", "renew_commit",
                     "rule_commit"}
  PROVE  Remembers(q)'
BY DEF Remembers, CloseStages

\* Nobody wrote what it has read.
LEMMA RememberedStill ==
  ASSUME UNCHANGED <<pc, loc, tables>>, NEW q \in Requests, Remembers(q)
  PROVE  Remembers(q)'
<1>1. \A x, start, dur, r :
        SlotIsFree(x, start, dur, r) => SlotIsFree(x, start, dur, r)'
  BY SlotsKept DEF tables
<1> QED BY <1>1 DEF Remembers, Cancellable, WithinAllowance, tables, contractVars

\* A handler that goes on and writes no table remembers what it checked.
LEMMA CreateRemembers ==
  ASSUME TypeOK, NEW q \in Requests,
         \/ \E u \in Users, x \in Rooms, start \in Times, dur \in Durations :
              CreateRead(q, u, x, start, dur)
         \/ CreateSlot(q)
         \/ CreateCommit(q)
  PROVE  Remembers(q)'
<1>1. CASE CreateSlot(q) /\ SlotIsFree(loc[q].room, loc[q].start, loc[q].dur, q)
  <2>1. pc'[q] = "create_commit" /\ loc'[q] = loc[q]
    BY <1>1, Moves DEF CreateSlot
  <2>2. SlotIsFree(loc[q].room, loc[q].start, loc[q].dur, q)'
    BY <1>1, <2>1, SlotsKept DEF CreateSlot
  <2> QED BY <2>1, <2>2 DEF Remembers, CloseStages
<1>2. CASE ~(CreateSlot(q) /\ SlotIsFree(loc[q].room, loc[q].start, loc[q].dur, q))
  <2>1. pc'[q] \in {"done", "create_slot"}
    BY <1>2, Moves DEF CreateRead, CreateSlot, CreateCommit, Begin, Finish, Goto
  <2> QED BY <2>1, NothingToRemember
<1> QED BY <1>1, <1>2

LEMMA CancelRemembers ==
  ASSUME TypeOK, NEW q \in Requests, Remembers(q),
         \/ \E r \in Requests : CancelRead(q, r)
         \/ CancelContract(q)
         \/ CancelCommit(q)
  PROVE  Remembers(q)'
<1>1. ASSUME NEW r \in Requests, CancelRead(q, r) PROVE Remembers(q)'
  <2> DEFINE l == [target |-> r, seen |-> reservations[r]]
  <2>1. pc'[q] = "cancel_contract" /\ loc'[q] = l
    BY <1>1, Moves DEF CancelRead, Begin, Goto
  <2>2. Cancellable(reservations[r]) /\ UNCHANGED reservations
    BY <1>1 DEF CancelRead
  <2> QED BY <2>1, <2>2 DEF Remembers, CloseStages, Cancellable
<1>2. ASSUME CancelContract(q) PROVE Remembers(q)'
  <2> DEFINE r == loc[q].seen
  <2>1. CASE Finish(q)
    BY <2>1, Moves, NothingToRemember DEF Finish
  <2>2. ASSUME NEW c \in ContractIds,
               Goto(q, "cancel_commit",
                    [target |-> loc[q].target, contract |-> c,
                     credits |-> r.dur, refund |-> Refunds(c, r.start),
                     late |-> Late(c, r.start)])
        PROVE  Remembers(q)'
    <3> DEFINE l == [target |-> loc[q].target, contract |-> c,
                     credits |-> r.dur, refund |-> Refunds(c, r.start),
                     late |-> Late(c, r.start)]
    <3>1. pc'[q] = "cancel_commit" /\ loc'[q] = l
      BY <2>2, Moves
    <3>2. /\ l.target = loc[q].target /\ l.contract = c /\ l.credits = r.dur
          /\ l.late /\ l.refund => WithinAllowance(c)
      BY DEF Refunds
    <3>3. r = reservations[loc[q].target] /\ Cancellable(reservations[loc[q].target])
      BY <1>2 DEF CancelContract, Remembers
    <3>4. UNCHANGED <<reservations, contracts>>
      BY <1>2 DEF CancelContract, contractVars
    <3> HIDE DEF l
    <3> QED BY <3>1, <3>2, <3>3, <3>4
            DEF Remembers, CloseStages, Cancellable, WithinAllowance
  <2> QED BY <1>2, <2>1, <2>2 DEF CancelContract
<1>3. ASSUME CancelCommit(q) PROVE Remembers(q)'
  BY <1>3, Moves, NothingToRemember DEF CancelCommit, Finish
<1> QED BY <1>1, <1>2, <1>3

LEMMA RescheduleRemembers ==
  ASSUME TypeOK, NEW q \in Requests, Remembers(q),
         \/ \E r \in Requests, start \in Times, dur \in Durations :
              RescheduleRead(q, r, start, dur)
         \/ RescheduleContract(q)
         \/ RescheduleSlot(q)
         \/ RescheduleCommit(q)
  PROVE  Remembers(q)'
<1>1. ASSUME NEW r \in Requests, NEW start \in Times, NEW dur \in Durations,
             RescheduleRead(q, r, start, dur)
      PROVE  Remembers(q)'
  <2>1. /\ pc'[q] = "reschedule_contract"
        /\ loc'[q] = [target |-> r, seen |-> reservations[r], start |-> start,
                      dur |-> dur]
    BY <1>1, Moves DEF RescheduleRead, Begin, Goto
  <2>2. reservations[r].status = "CONFIRMED" /\ UNCHANGED reservations
    BY <1>1 DEF RescheduleRead, CanReschedule
  <2> QED BY <2>1, <2>2 DEF Remembers, CloseStages
<1>2. ASSUME RescheduleContract(q) PROVE Remembers(q)'
  <2> DEFINE m == loc[q]
  <2>1. CASE Finish(q)
    BY <2>1, Moves, NothingToRemember DEF Finish
  <2>2. ASSUME NEW c \in ContractIds,
               Goto(q, "reschedule_slot",
                    [target |-> m.target, room |-> m.seen.room,
                     start |-> m.start, dur |-> m.dur, contract |-> c,
                     delta |-> m.dur - m.seen.dur])
        PROVE  Remembers(q)'
    <3>1. /\ pc'[q] = "reschedule_slot"
          /\ loc'[q] = [target |-> m.target, room |-> m.seen.room,
                        start |-> m.start, dur |-> m.dur, contract |-> c,
                        delta |-> m.dur - m.seen.dur]
      BY <2>2, Moves
    <3>2. m.seen = reservations[m.target] /\ reservations[m.target].status = "CONFIRMED"
      BY <1>2 DEF RescheduleContract, Remembers
    <3>3. UNCHANGED reservations
      BY <1>2 DEF RescheduleContract
    <3> QED BY <3>1, <3>2, <3>3 DEF Remembers, CloseStages
  <2> QED BY <1>2, <2>1, <2>2 DEF RescheduleContract
<1>3. ASSUME RescheduleSlot(q) PROVE Remembers(q)'
  <2> DEFINE m == loc[q]
  <2>1. CASE SlotIsFree(m.room, m.start, m.dur, m.target)
    <3>1. pc'[q] = "reschedule_commit" /\ loc'[q] = m
      BY <1>3, <2>1, Moves DEF RescheduleSlot
    <3>2. SlotIsFree(m.room, m.start, m.dur, m.target)' /\ UNCHANGED reservations
      BY <1>3, <2>1, <3>1, SlotsKept DEF RescheduleSlot
    <3>3. pc[q] = "reschedule_slot"
      BY <1>3 DEF RescheduleSlot
    <3> QED BY <3>1, <3>2, <3>3 DEF Remembers, CloseStages
  <2>2. CASE ~SlotIsFree(m.room, m.start, m.dur, m.target)
    BY <1>3, <2>2, Moves, NothingToRemember DEF RescheduleSlot, Finish
  <2> QED BY <2>1, <2>2
<1>4. ASSUME RescheduleCommit(q) PROVE Remembers(q)'
  BY <1>4, Moves, NothingToRemember DEF RescheduleCommit, Finish
<1> QED BY <1>1, <1>2, <1>3, <1>4

LEMMA CloseRemembers ==
  ASSUME TypeOK, NEW q \in Requests,
         \/ \E r \in Requests : MarkNoShowRead(q, r) \/ CompleteRead(q, r)
         \/ MarkNoShowCommit(q)
         \/ CompleteCommit(q)
  PROVE  Remembers(q)'
<1>1. ASSUME NEW r \in Requests, NEW stage \in CloseStages, CloseRead(q, r, stage)
      PROVE  Remembers(q)'
  <2>1. pc'[q] = stage /\ loc'[q] = [target |-> r]
    BY <1>1, Moves DEF CloseRead, Begin, Goto
  <2>2. reservations[r].status = "CONFIRMED" /\ UNCHANGED reservations
    BY <1>1 DEF CloseRead
  <2> QED BY <2>1, <2>2 DEF Remembers, CloseStages
<1>2. CASE MarkNoShowCommit(q) \/ CompleteCommit(q)
  BY <1>2, Moves, NothingToRemember
  DEF MarkNoShowCommit, CompleteCommit, CloseCommit, Finish
<1> QED BY <1>1, <1>2 DEF MarkNoShowRead, CompleteRead, CloseStages

\* A request moves: the one in flight, or one that starts when there is none;
\* and it remembers what is so.
MovesAlone(q) ==
  /\ InFlight = {} \/ q \in InFlight
  /\ job = {} /\ UNCHANGED job
  /\ \E stage, l : Goto(q, stage, l)
  /\ Remembers(q)'

\* The steps of a system that serves one request at a time.
SoloStep ==
  \/ InFlight = {} /\ UNCHANGED <<pc, loc>>
  \/ UNCHANGED <<pc, loc, job, tables>>
  \/ \E q \in Requests : MovesAlone(q)

LEMMA BeginsAlone ==
  ASSUME Concurrency = 1, IsFiniteSet(Requests), NEW q \in Requests,
         NEW stage, NEW l, Begin(q, stage, l), Remembers(q)'
  PROVE  MovesAlone(q)
BY StartsAlone DEF Begin, Goto, MovesAlone

LEMMA GoesOnAlone ==
  ASSUME Solo, NEW q \in Requests, pc[q] \notin {"new", "done"},
         NEW stage, NEW l, Goto(q, stage, l), Remembers(q)'
  PROVE  MovesAlone(q)
BY DEF Solo, InFlight, Goto, MovesAlone

LEMMA NextSolo ==
  ASSUME Concurrency = 1, IsFiniteSet(Requests), Sequential, [Next]_vars
  PROVE  SoloStep
<1> USE DEF Sequential
<1>1. CanStart => InFlight = {} /\ job = {}
  BY StartsAlone
<1>2. ASSUME NEW q \in Requests, Remembers(q)',
             \/ \E stage, l : Begin(q, stage, l)
             \/ pc[q] \notin {"new", "done"} /\ \E stage, l : Goto(q, stage, l)
      PROVE  SoloStep
  BY <1>2, BeginsAlone, GoesOnAlone DEF SoloStep
<1>3. ASSUME NEW q \in Requests,
             \/ \E stage \in {"adjust_entry", "renew_commit", "rule_commit"} : \E l :
                  Begin(q, stage, l)
             \/ pc[q] \notin {"new", "done"} /\ Goto(q, "done", NoLocals)
      PROVE  SoloStep
  <2>1. pc'[q] \in {"done", "adjust_entry", "renew_commit", "rule_commit"}
    BY <1>3, Moves DEF Begin, Goto
  <2> QED BY <1>2, <1>3, <2>1, NothingToRemember
<1>4. CASE ReservationsStep
  <2>1. PICK q \in Requests :
          \/ \E u \in Users, x \in Rooms, start \in Times, dur \in Durations :
               CreateRead(q, u, x, start, dur)
          \/ CreateSlot(q) \/ CreateCommit(q)
          \/ \E r \in Requests : CancelRead(q, r)
          \/ CancelContract(q) \/ CancelCommit(q)
          \/ \E r \in Requests, start \in Times, dur \in Durations :
               RescheduleRead(q, r, start, dur)
          \/ RescheduleContract(q) \/ RescheduleSlot(q) \/ RescheduleCommit(q)
          \/ \E r \in Requests : MarkNoShowRead(q, r) \/ CompleteRead(q, r)
          \/ MarkNoShowCommit(q) \/ CompleteCommit(q)
    BY <1>4 DEF ReservationsStep
  <2>2. \/ \E stage, l : Begin(q, stage, l)
        \/ pc[q] \notin {"new", "done"} /\ \E stage, l : Goto(q, stage, l)
    BY <2>1
    DEF CreateRead, CreateSlot, CreateCommit, CancelRead, CancelContract,
        CancelCommit, RescheduleRead, RescheduleContract, RescheduleSlot,
        RescheduleCommit, MarkNoShowRead, CompleteRead, MarkNoShowCommit,
        CompleteCommit, CloseRead, CloseCommit, Finish
  <2>3. Remembers(q)'
    BY <2>1, CreateRemembers, CancelRemembers, RescheduleRemembers, CloseRemembers
  <2> QED BY <1>2, <2>2, <2>3
<1>5. CASE AdjustStep
  BY <1>3, <1>5 DEF AdjustStep, AdjustBalance, AdjustEntry, Finish
<1>6. CASE ContractsStep
  <2>1. ASSUME NEW c \in ContractIds, SweepExpire(c) PROVE SoloStep
    BY <2>1 DEF SweepExpire, Solo, SoloStep
  <2>2. CASE SweepRead \/ SweepAbort
    BY <1>1, <2>2 DEF SweepRead, SweepAbort, Solo, SoloStep
  <2>3. ASSUME NEW c \in ContractIds, NEW p,
               CreateContract(c, p) \/ UpdateContract(c, p)
        PROVE  SoloStep
    BY <1>1, <2>3 DEF CreateContract, UpdateContract, Idle, runtimeVars, SoloStep
  <2> QED BY <1>3, <1>6, <2>1, <2>2, <2>3
          DEF ContractsStep, ContractsChange, RenewRead, RenewCommit, Finish
<1>7. CASE SchedulesStep
  BY <1>1, <1>3, <1>7
  DEF SchedulesStep, CreateAvailability, UpdateAvailabilityRead,
      DeleteAvailability, UpdateAvailabilityCommit, CreateBlockedPeriod,
      DeleteBlockedPeriod, SetRoomStatus, Idle, runtimeVars, Finish, SoloStep
<1>8. CASE Tick /\ UNCHANGED tables
  BY <1>8 DEF Tick, tables, SoloStep
<1>9. ASSUME NEW q \in Requests, Abort(q) PROVE SoloStep
  BY <1>3, <1>9 DEF Abort, Finish, InFlight
<1>10. CASE UNCHANGED vars
  BY <1>10 DEF vars, runtimeVars, tables, SoloStep
<1> QED BY <1>4, <1>5, <1>6, <1>7, <1>8, <1>9, <1>10 DEF Next, tables

\* One request at a time stays one request at a time, and remembers.
LEMMA SoloKept ==
  ASSUME Concurrency = 1, IsFiniteSet(Requests), Sequential, [Next]_vars
  PROVE  Solo' /\ \A p \in Requests : Remembers(p)'
<1> USE DEF Sequential
<1>1. CASE UNCHANGED <<pc, loc, job, tables>>
  BY <1>1, RememberedStill DEF Solo, InFlight
<1>2. CASE InFlight = {} /\ UNCHANGED <<pc, loc>>
  <2>1. \A p \in Requests : pc'[p] \in {"new", "done"}
    BY <1>2 DEF InFlight
  <2> QED BY <2>1, NothingToRemember DEF Solo, InFlight
<1>3. ASSUME NEW q \in Requests, MovesAlone(q)
      PROVE  Solo' /\ \A p \in Requests : Remembers(p)'
  <2>1. \A p \in Requests \ {q} : pc'[p] = pc[p] /\ pc[p] \in {"new", "done"}
    BY <1>3, Moves DEF MovesAlone, Solo, InFlight
  <2>2. Solo'
    BY <1>3, <2>1 DEF MovesAlone, Solo, InFlight
  <2> QED BY <1>3, <2>1, <2>2, NothingToRemember DEF MovesAlone
<1> QED BY <1>1, <1>2, <1>3, NextSolo DEF SoloStep

LEMMA SequentialInvariant ==
  ASSUME Concurrency = 1, IsFiniteSet(Requests)
  PROVE  Spec => []Sequential
<1>1. Init => Sequential
  <2> SUFFICES ASSUME Init PROVE Sequential
    OBVIOUS
  <2>1. job = {} /\ \A q \in Requests : pc[q] = "new"
    BY DEF Init, RuntimeInit
  <2>2. Solo /\ \A q \in Requests : Remembers(q)
    BY <2>1 DEF Solo, InFlight, Remembers, CloseStages
  <2> QED BY <2>2, InitTypes, InitCharges DEF Sequential
<1>2. Sequential /\ [Next]_vars => Sequential'
  BY SoloKept, NextTypes, NextCharges, TrailsKept, AccountsKept
  DEF Sequential, ChargeInv
<1> QED BY <1>1, <1>2, PTL DEF Spec

-----------------------------------------------------------------------------
(* The table *)

\* Nothing happens to reservations and to what they cost, or one of the four
\* operations happens, on a reservation that is then in a status for it.
AtomicStep ==
  \/ UNCHANGED <<reservations, charged, spent>>
  \/ \E r \in Requests, c \in ContractIds, row \in Reservation :
       /\ ~Booked(r)
       /\ row.status = "CONFIRMED" /\ row.dur \in Durations
       /\ SlotIsFree(row.room, row.start, row.dur, r)
       /\ Write(r, row) /\ Debit(c, row.dur, r)
  \/ \E r \in Requests, c \in ContractIds :
       /\ Cancellable(reservations[r])
       /\ Write(r, Cancelled(reservations[r]))
       /\ Refund(c, reservations[r].dur, r) \/ UNCHANGED creditVars
  \/ \E r \in Requests, m \in MoveLocals :
       /\ reservations[r].status = "CONFIRMED"
       /\ m.target = r /\ m.delta = m.dur - reservations[r].dur
       /\ SlotIsFree(reservations[r].room, m.start, m.dur, r)
       /\ Write(r, Moved(reservations[r], m)) /\ Settle(m)
  \/ \E r \in Requests, status \in {"NO_SHOW", "COMPLETED"} :
       /\ reservations[r].status = "CONFIRMED"
       /\ Write(r, [reservations[r] EXCEPT !.status = status])
       /\ UNCHANGED creditVars

LEMMA CommitsAtomically ==
  ASSUME Sequential, NEW q \in Requests,
         \/ CreateCommit(q) \/ CancelCommit(q) \/ RescheduleCommit(q)
         \/ MarkNoShowCommit(q) \/ CompleteCommit(q)
  PROVE  AtomicStep
<1>1. TypeOK /\ TrailOf(q) /\ Remembers(q)
  BY DEF Sequential, ChargeInv
<1>2. FitsStage(loc[q], pc[q])
  BY <1>1 DEF TypeOK, RuntimeTypeOK
<1>3. CASE UNCHANGED <<reservations, creditVars>>
  BY <1>3 DEF creditVars, AtomicStep
<1>4. ASSUME CreateCommit(q) PROVE AtomicStep
  <2> DEFINE b == loc[q]
             row == NewReservation(b)
  <2>1. b \in BookingLocals /\ pc[q] = "create_commit"
    BY <1>2, <1>4 DEF CreateCommit, FitsStage
  <2>2. /\ row \in Reservation /\ row.status = "CONFIRMED"
        /\ row.room = b.room /\ row.start = b.start /\ row.dur = b.dur
    BY <2>1, ReservationsAssumption
    DEF NewReservation, Reservation, BookingLocals, ReservationStatuses
  <2>3. b.dur \in Durations /\ b.contract \in ContractIds
    BY <2>1 DEF BookingLocals
  <2>4. ~Booked(q) /\ SlotIsFree(b.room, b.start, b.dur, q)
    BY <1>1, <2>1 DEF TrailOf, CreateStages, Remembers
  <2>5. CASE Write(q, row) /\ Debit(b.contract, b.dur, q)
    <3> HIDE DEF row
    <3> QED BY <2>2, <2>3, <2>4, <2>5 DEF AtomicStep
  <2> QED BY <1>3, <1>4, <2>5 DEF CreateCommit
<1>5. ASSUME CancelCommit(q) PROVE AtomicStep
  <2> DEFINE d == loc[q]
  <2>1. d \in CancelLocals /\ pc[q] = "cancel_commit"
    BY <1>2, <1>5 DEF CancelCommit, FitsStage
  <2>2. /\ d.target \in Requests /\ d.contract \in ContractIds
        /\ Cancellable(reservations[d.target])
        /\ d.credits = reservations[d.target].dur
    BY <1>1, <2>1 DEF CancelLocals, Remembers
  <2> QED BY <1>5, <2>2 DEF CancelCommit, AtomicStep
<1>6. ASSUME RescheduleCommit(q) PROVE AtomicStep
  <2> DEFINE m == loc[q]
  <2>1. m \in MoveLocals /\ pc[q] = "reschedule_commit"
    BY <1>2, <1>6 DEF RescheduleCommit, FitsStage
  <2>2. /\ m.target \in Requests
        /\ reservations[m.target].status = "CONFIRMED"
        /\ m.delta = m.dur - reservations[m.target].dur
        /\ SlotIsFree(reservations[m.target].room, m.start, m.dur, m.target)
    BY <1>1, <2>1 DEF MoveLocals, Remembers
  <2>3. CASE Write(m.target, Moved(reservations[m.target], m)) /\ Settle(m)
    BY <2>1, <2>2, <2>3 DEF AtomicStep
  <2> QED BY <1>3, <1>6, <2>3 DEF RescheduleCommit
<1>7. ASSUME NEW stage \in CloseStages, NEW status \in {"NO_SHOW", "COMPLETED"},
             CloseCommit(q, stage, status)
      PROVE  AtomicStep
  <2> DEFINE r == loc[q].target
  <2>1. loc[q] \in TargetLocals /\ pc[q] = stage
    BY <1>2, <1>7 DEF CloseCommit, FitsStage, CloseStages
  <2>2. r \in Requests /\ reservations[r].status = "CONFIRMED"
    BY <1>1, <2>1 DEF TargetLocals, Remembers
  <2>3. CASE Write(r, [reservations[r] EXCEPT !.status = status])
             /\ UNCHANGED creditVars
    BY <2>2, <2>3 DEF AtomicStep
  <2> QED BY <1>3, <1>7, <2>3 DEF CloseCommit
<1> QED BY <1>4, <1>5, <1>6, <1>7 DEF MarkNoShowCommit, CompleteCommit, CloseStages

\* Every handler acts as one atomic operation: no other step writes the table.
LEMMA NextAtomic == Sequential /\ [Next]_vars => AtomicStep
<1> SUFFICES ASSUME Sequential, [Next]_vars PROVE AtomicStep
  OBVIOUS
<1>1. CASE UNCHANGED <<reservations, creditVars>>
  BY <1>1 DEF creditVars, AtomicStep
<1>2. CASE ReservationsStep
  BY <1>1, <1>2, CommitsAtomically
  DEF ReservationsStep, CreateRead, CreateSlot, CancelRead, CancelContract,
      RescheduleRead, RescheduleContract, RescheduleSlot, MarkNoShowRead,
      CompleteRead, CloseRead
<1>3. CASE AdjustStep /\ UNCHANGED reservations
  BY <1>3 DEF AdjustStep, AdjustBalance, AdjustEntry, MoveBalance,
              RecordAdjustment, AtomicStep
<1>4. CASE ContractsStep /\ UNCHANGED reservations
  BY <1>1, <1>4 DEF ContractsStep, ContractsChange, CreateContract,
                    UpdateContract, RenewRead, RenewCommit, SweepRead,
                    SweepExpire, SweepAbort, Grant, AtomicStep
<1> QED BY <1>1, <1>2, <1>3, <1>4 DEF Next, vars

\* An operation leaves closed reservations alone.
THEOREM SequentialClosedStaysClosed ==
  ASSUME Concurrency = 1, IsFiniteSet(Requests)
  PROVE  Spec => ClosedStaysClosed
<1>1. ASSUME Sequential, [Next]_vars, NEW r \in Requests,
             reservations[r].status \in {"CANCELLED", "COMPLETED", "NO_SHOW"}
      PROVE  reservations'[r] = reservations[r]
  <2>1. AtomicStep /\ reservations \in [Requests -> Reservation]
    BY <1>1, NextAtomic DEF Sequential, TypeOK, ReservationsTypeOK
  <2> QED BY <1>1, <2>1 DEF AtomicStep, Write, Booked, Cancellable
<1>2. Sequential /\ [Next]_vars =>
        [\A r \in Requests :
           reservations[r].status \in {"CANCELLED", "COMPLETED", "NO_SHOW"} =>
             reservations'[r] = reservations[r]]_vars
  BY <1>1
<1> QED BY <1>2, SequentialInvariant, PTL DEF Spec, ClosedStaysClosed

\* What the slot check finds free is open and not blocked.
LEMMA FreeIsOpen ==
  ASSUME NEW x, NEW start, NEW dur, NEW r, SlotIsFree(x, start, dur, r)
  PROVE  Span(start, dur) \subseteq FreeInstants(x, DayOf(start), {})
BY DEF SlotIsFree, FreeInstants

\* A reservation is only placed where the room is open when it is written:
\* nobody changes the schedule between the slot check and the commit.
THEOREM SequentialPlacedInOpenHours ==
  ASSUME Concurrency = 1, IsFiniteSet(Requests)
  PROVE  Spec => PlacedInOpenHours
<1> DEFINE Placed(r) ==
      LET row == reservations'[r] IN
      <<row.start, row.dur>> # <<reservations[r].start, reservations[r].dur>> =>
        Span(row.start, row.dur) \subseteq
          FreeInstants(row.room, DayOf(row.start), {})
<1>1. ASSUME Sequential, [Next]_vars, NEW r \in Requests
      PROVE  Placed(r)
  <2>1. AtomicStep /\ reservations \in [Requests -> Reservation]
    BY <1>1, NextAtomic DEF Sequential, TypeOK, ReservationsTypeOK
  <2>2. CASE reservations'[r].start = reservations[r].start
             /\ reservations'[r].dur = reservations[r].dur
    BY <2>2
  <2>3. ASSUME NEW p \in Requests, NEW row \in Reservation, Write(p, row),
               SlotIsFree(row.room, row.start, row.dur, p)
        PROVE  Placed(r)
    <3>1. CASE p = r
      BY <2>1, <2>3, <3>1, FreeIsOpen DEF Write
    <3>2. CASE p # r
      BY <2>1, <2>2, <2>3, <3>2 DEF Write
    <3> QED BY <3>1, <3>2
  <2>4. ASSUME NEW p \in Requests, NEW m \in MoveLocals,
               SlotIsFree(reservations[p].room, m.start, m.dur, p),
               Write(p, Moved(reservations[p], m))
        PROVE  Placed(r)
    <3>1. /\ Moved(reservations[p], m) \in Reservation
          /\ Moved(reservations[p], m).room = reservations[p].room
          /\ Moved(reservations[p], m).start = m.start
          /\ Moved(reservations[p], m).dur = m.dur
      BY <2>1, ReservationsAssumption DEF Moved, MoveLocals, Reservation
    <3> QED BY <2>3, <2>4, <3>1
  <2>5. ASSUME NEW p \in Requests, NEW status,
               Write(p, [reservations[p] EXCEPT !.status = status])
        PROVE  Placed(r)
    BY <2>1, <2>2, <2>5 DEF Write, Reservation
  <2> QED BY <2>1, <2>2, <2>3, <2>4, <2>5 DEF AtomicStep, Cancelled
<1>2. Sequential /\ [Next]_vars => [\A r \in Requests : Placed(r)]_vars
  BY <1>1
<1> QED BY <1>2, SequentialInvariant, PTL DEF Spec, PlacedInOpenHours

\* Each reservation takes an hour at least.
RowsLast == \A r \in Requests : Booked(r) => reservations[r].dur > 0

LEMMA NextRowsLast == Sequential /\ RowsLast /\ [Next]_vars => RowsLast'
<1> SUFFICES ASSUME Sequential, RowsLast, [Next]_vars, NEW r \in Requests
             PROVE  (Booked(r) => reservations[r].dur > 0)'
  BY DEF RowsLast
<1>1. AtomicStep /\ reservations \in [Requests -> Reservation]
  BY NextAtomic DEF Sequential, TypeOK, ReservationsTypeOK
<1>2. Booked(r) => reservations[r].dur > 0
  BY DEF RowsLast
<1>3. \A n \in Durations : n \in Nat /\ n > 0
  BY ReservationsAssumption
<1>4. ASSUME NEW p \in Requests, NEW row \in Reservation, Write(p, row), row.dur > 0
      PROVE  (Booked(r) => reservations[r].dur > 0)'
  BY <1>1, <1>2, <1>4 DEF Write, Booked
<1>5. ASSUME NEW p \in Requests, NEW m \in MoveLocals,
             Write(p, Moved(reservations[p], m))
      PROVE  (Booked(r) => reservations[r].dur > 0)'
  <2>1. m.start \in Nat /\ m.dur \in Durations /\ m.dur \in Nat
    BY <1>3 DEF MoveLocals
  <2>2. /\ Moved(reservations[p], m) \in Reservation
        /\ Moved(reservations[p], m).dur = m.dur
    BY <1>1, <2>1 DEF Moved, Reservation
  <2> QED BY <1>3, <1>4, <1>5, <2>1, <2>2
<1>6. ASSUME NEW p \in Requests, NEW status, Booked(p),
             Write(p, [reservations[p] EXCEPT !.status = status])
      PROVE  (Booked(r) => reservations[r].dur > 0)'
  BY <1>1, <1>2, <1>6 DEF Write, Booked, Reservation
<1>7. CASE UNCHANGED <<reservations, charged, spent>>
  BY <1>2, <1>7 DEF Booked
<1>8. CASE \E p \in Requests, row \in Reservation :
             row.dur \in Durations /\ Write(p, row)
  BY <1>3, <1>4, <1>8
<1>9. CASE \E p \in Requests : Cancellable(reservations[p])
                               /\ Write(p, Cancelled(reservations[p]))
  BY <1>6, <1>9 DEF Cancellable, Cancelled, Booked
<1>10. CASE \E p \in Requests, m \in MoveLocals :
              Write(p, Moved(reservations[p], m))
  BY <1>5, <1>10
<1>11. CASE \E p \in Requests, status \in {"NO_SHOW", "COMPLETED"} :
              /\ reservations[p].status = "CONFIRMED"
              /\ Write(p, [reservations[p] EXCEPT !.status = status])
  BY <1>6, <1>11 DEF Booked
<1> QED BY <1>1, <1>7, <1>8, <1>9, <1>10, <1>11 DEF AtomicStep

\* What the slot check finds free meets no reservation that holds the room.
LEMMA FreeIsAdmitted ==
  ASSUME TypeOK, RowsLast, NEW r \in Requests, NEW row \in Reservation,
         row.dur > 0, SlotIsFree(row.room, row.start, row.dur, r)
  PROVE  Admits(r, row)
<1> SUFFICES ASSUME NEW s \in Requests \ {r},
                    reservations[s].status \in ConstraintStatuses,
                    Overlap(row, reservations[s])
             PROVE  FALSE
  BY DEF Admits
<1> DEFINE other == reservations[s]
<1>1. other \in Reservation /\ other.room = row.room /\ other.dur > 0
  BY DEF TypeOK, ReservationsTypeOK, RowsLast, Booked, ConstraintStatuses, Overlap
<1>2. /\ row.start \in Nat /\ row.dur \in Nat
      /\ other.start \in Nat /\ other.dur \in Nat
  BY <1>1 DEF Reservation
<1>3. \E t : t \in Span(row.start, row.dur) /\ t \in Span(other.start, other.dur)
  <2>1. row.start < other.start + other.dur /\ other.start < row.start + row.dur
    BY DEF Overlap
  <2> DEFINE t == IF row.start < other.start THEN other.start ELSE row.start
  <2>2. t \in Span(row.start, row.dur) /\ t \in Span(other.start, other.dur)
    BY <1>1, <1>2, <2>1 DEF Span
  <2> QED BY <2>2
<1>4. Span(other.start, other.dur) \subseteq TakenInstants(row.room, r)
  BY <1>1 DEF TakenInstants, OccupyingStatuses, ConstraintStatuses
<1>5. \A t \in Span(row.start, row.dur) : t \notin TakenInstants(row.room, r)
  BY DEF SlotIsFree, FreeInstants
<1> QED BY <1>3, <1>4, <1>5

\* The exclusion constraint never refuses what passed the slot check.
THEOREM SequentialSlotCheckSuffices ==
  ASSUME Concurrency = 1, IsFiniteSet(Requests)
  PROVE  Spec => []SlotCheckSuffices
<1>1. Init => RowsLast
  BY DEF Init, ReservationsInit, NoReservation, RowsLast, Booked
<1>2. ASSUME Sequential, RowsLast PROVE SlotCheckSuffices
  <2> SUFFICES ASSUME NEW q \in Requests
               PROVE  /\ pc[q] = "create_commit" => Admits(q, NewReservation(loc[q]))
                      /\ pc[q] = "reschedule_commit" =>
                           Admits(loc[q].target,
                                  Moved(reservations[loc[q].target], loc[q]))
    BY DEF SlotCheckSuffices
  <2>1. TypeOK /\ Remembers(q) /\ FitsStage(loc[q], pc[q])
    BY <1>2 DEF Sequential, TypeOK, RuntimeTypeOK
  <2>2. \A n \in Durations : n \in Nat /\ n > 0
    BY ReservationsAssumption
  <2>3. ASSUME pc[q] = "create_commit" PROVE Admits(q, NewReservation(loc[q]))
    <3> DEFINE b == loc[q]
               row == NewReservation(b)
    <3>1. b \in BookingLocals /\ SlotIsFree(b.room, b.start, b.dur, q)
      BY <2>1, <2>3 DEF FitsStage, Remembers
    <3>2. /\ row \in Reservation
          /\ row.room = b.room /\ row.start = b.start /\ row.dur = b.dur
          /\ b.dur \in Durations
      BY <3>1, <2>2 DEF NewReservation, Reservation, BookingLocals, ReservationStatuses
    <3> HIDE DEF row
    <3>3. Admits(q, row)
      BY <1>2, <2>1, <2>2, <3>1, <3>2, FreeIsAdmitted
    <3> QED BY <3>3 DEF row
  <2>4. ASSUME pc[q] = "reschedule_commit"
        PROVE  Admits(loc[q].target, Moved(reservations[loc[q].target], loc[q]))
    <3> DEFINE m == loc[q]
               old == reservations[m.target]
               row == Moved(old, m)
    <3>1. /\ m \in MoveLocals /\ m.room = old.room
          /\ SlotIsFree(m.room, m.start, m.dur, m.target)
      BY <2>1, <2>4 DEF FitsStage, Remembers
    <3>2. m.target \in Requests /\ old \in Reservation
      BY <2>1, <3>1 DEF MoveLocals, TypeOK, ReservationsTypeOK
    <3>3. /\ row \in Reservation
          /\ row.room = old.room /\ row.start = m.start /\ row.dur = m.dur
          /\ m.dur \in Durations
      BY <3>1, <3>2, <2>2 DEF Moved, MoveLocals, Reservation
    <3> HIDE DEF row
    <3>4. Admits(m.target, row)
      BY <1>2, <2>1, <2>2, <3>1, <3>2, <3>3, FreeIsAdmitted
    <3> QED BY <3>4 DEF row
  <2> QED BY <2>3, <2>4
<1> QED BY <1>1, <1>2, SequentialInvariant, NextRowsLast, PTL DEF Spec

-----------------------------------------------------------------------------
(* What reservations cost *)

\* Nothing is spent on what is not booked, the hours of what holds a room, and all or
\* nothing of them on what is cancelled.
Paid ==
  \A r \in Requests :
    /\ spent[r] >= 0
    /\ ~Booked(r) => spent[r] = 0
    /\ reservations[r].status \in ConstraintStatuses => spent[r] = reservations[r].dur
    /\ reservations[r].status = "CANCELLED" => spent[r] \in {0, reservations[r].dur}

\* A write of one row, paid for, keeps the rest.
LEMMA RowPaid ==
  ASSUME TypeOK, Paid, NEW r \in Requests,
         \A p \in Requests \ {r} :
           reservations'[p] = reservations[p] /\ spent'[p] = spent[p],
         Booked(r)', spent'[r] >= 0,
         reservations'[r].status \in ConstraintStatuses =>
           spent'[r] = reservations'[r].dur,
         reservations'[r].status = "CANCELLED" =>
           spent'[r] \in {0, reservations'[r].dur}
  PROVE  Paid'
BY DEF Paid, Booked

LEMMA NextPaid == Sequential /\ Paid /\ [Next]_vars => Paid'
<1> SUFFICES ASSUME Sequential, Paid, [Next]_vars PROVE Paid'
  OBVIOUS
<1>1. /\ AtomicStep /\ TypeOK
      /\ reservations \in [Requests -> Reservation] /\ spent \in [Requests -> Int]
  BY NextAtomic DEF Sequential, TypeOK, ReservationsTypeOK, CreditsTypeOK
<1>2. ASSUME NEW r \in Requests,
             reservations[r].status \in ConstraintStatuses
      PROVE  spent[r] = reservations[r].dur /\ spent[r] \in Nat
  BY <1>1, <1>2 DEF Paid, Reservation
<1>3. CASE UNCHANGED <<reservations, charged, spent>>
  BY <1>3 DEF Paid, Booked
<1>4. ASSUME NEW r \in Requests, NEW c \in ContractIds, NEW row \in Reservation,
             ~Booked(r), row.status = "CONFIRMED", Write(r, row), Debit(c, row.dur, r)
      PROVE  Paid'
  <2>1. spent[r] = 0 /\ row.dur \in Nat
    BY <1>4 DEF Paid, Reservation
  <2>2. spent'[r] = row.dur /\ \A p \in Requests \ {r} : spent'[p] = spent[p]
    BY <1>1, <1>4, <2>1 DEF Debit
  <2>3. reservations'[r] = row
        /\ \A p \in Requests \ {r} : reservations'[p] = reservations[p]
    BY <1>1, <1>4 DEF Write
  <2>4. Booked(r)'
    BY <1>4, <2>3 DEF Booked
  <2> QED BY <1>1, <1>4, <2>1, <2>2, <2>3, <2>4, RowPaid
<1>5. ASSUME NEW r \in Requests, NEW c \in ContractIds, Cancellable(reservations[r]),
             Write(r, Cancelled(reservations[r])),
             Refund(c, reservations[r].dur, r) \/ UNCHANGED creditVars
      PROVE  Paid'
  <2>1. spent[r] = reservations[r].dur /\ spent[r] \in Nat
    BY <1>2, <1>5 DEF Cancellable, ConstraintStatuses
  <2>2. spent'[r] \in {0, spent[r]} /\ \A p \in Requests \ {r} : spent'[p] = spent[p]
    BY <1>1, <1>5, <2>1 DEF Refund, creditVars
  <2>3. /\ reservations'[r].status = "CANCELLED"
        /\ reservations'[r].dur = reservations[r].dur
        /\ \A p \in Requests \ {r} : reservations'[p] = reservations[p]
    BY <1>1, <1>5 DEF Write, Cancelled, Reservation
  <2>4. Booked(r)' /\ reservations'[r].status \notin ConstraintStatuses
    BY <2>3 DEF Booked, ConstraintStatuses
  <2> QED BY <1>1, <2>1, <2>2, <2>3, <2>4, RowPaid
<1>6. ASSUME NEW r \in Requests, NEW m \in MoveLocals,
             reservations[r].status = "CONFIRMED",
             m.target = r, m.delta = m.dur - reservations[r].dur,
             Write(r, Moved(reservations[r], m)), Settle(m)
      PROVE  Paid'
  <2>1. spent[r] = reservations[r].dur /\ spent[r] \in Nat
    BY <1>2, <1>6 DEF ConstraintStatuses
  <2>2. m.dur \in Nat /\ m.delta = m.dur - spent[r] /\ m.target = r
    BY <1>6, <2>1, ReservationsAssumption DEF MoveLocals
  <2>3. spent'[r] = m.dur /\ \A p \in Requests \ {r} : spent'[p] = spent[p]
    BY <1>1, <1>6, <2>1, <2>2 DEF Settle, Debit, Refund, creditVars
  <2>4. /\ reservations'[r].status = "CONFIRMED"
        /\ reservations'[r].dur = m.dur
        /\ \A p \in Requests \ {r} : reservations'[p] = reservations[p]
    BY <1>1, <1>6 DEF Write, Moved, Reservation
  <2>5. Booked(r)'
    BY <2>4 DEF Booked
  <2> QED BY <1>1, <2>2, <2>3, <2>4, <2>5, RowPaid
<1>7. ASSUME NEW r \in Requests, NEW status \in {"NO_SHOW", "COMPLETED"},
             reservations[r].status = "CONFIRMED",
             Write(r, [reservations[r] EXCEPT !.status = status]),
             UNCHANGED creditVars
      PROVE  Paid'
  <2>1. spent[r] = reservations[r].dur /\ spent[r] \in Nat /\ UNCHANGED spent
    BY <1>2, <1>7 DEF ConstraintStatuses, creditVars
  <2>2. /\ reservations'[r].status = status
        /\ reservations'[r].dur = reservations[r].dur
        /\ \A p \in Requests \ {r} : reservations'[p] = reservations[p]
    BY <1>1, <1>7 DEF Write, Reservation
  <2>3. Booked(r)'
    BY <2>2 DEF Booked
  <2> QED BY <1>1, <2>1, <2>2, <2>3, RowPaid
<1> QED BY <1>1, <1>3, <1>4, <1>5, <1>6, <1>7 DEF AtomicStep

LEMMA PaidInvariant ==
  ASSUME Concurrency = 1, IsFiniteSet(Requests)
  PROVE  Spec => []Paid
<1>1. Init => Paid
  BY DEF Init, ReservationsInit, CreditsInit, NoReservation, Paid, Booked,
         ConstraintStatuses
<1> QED BY <1>1, SequentialInvariant, NextPaid, PTL DEF Spec

\* What a client has paid for a reservation is its hours while it stands, all
\* or nothing of them once it is cancelled.
THEOREM SequentialPaidForWhatIsHeld ==
  ASSUME Concurrency = 1, IsFiniteSet(Requests)
  PROVE  Spec => []PaidForWhatIsHeld
<1>1. Paid => PaidForWhatIsHeld
  BY DEF Paid, PaidForWhatIsHeld
<1> QED BY <1>1, PaidInvariant, PTL

-----------------------------------------------------------------------------
(* The allowance of late cancellations *)

\* No patch lowers a contract's limit.
LimitsNeverLowered ==
  [][\A c \in ContractIds :
       contracts'[c].cancellationLimit >= contracts[c].cancellationLimit]_vars

\* Every late refund was counted, and no contract starts with one.
LateRefundsCounted ==
  \A c \in ContractIds :
    /\ lateRefunds[c] <= contracts[c].cancellationsUsed
    /\ lateRefunds[c] <= contracts[c].cancellationLimit
    /\ ~Exists(c) => lateRefunds[c] = 0

\* What a step does to the late refunds of contract c: nothing, a renewal, or one more
\* that is within the allowance.
LateStep(c) ==
  \/ /\ lateRefunds'[c] = lateRefunds[c]
     /\ Exists(c) =>
          contracts'[c].cancellationsUsed >= contracts[c].cancellationsUsed
  \/ lateRefunds'[c] = 0
  \/ /\ Exists(c) /\ WithinAllowance(c)
     /\ lateRefunds'[c] = lateRefunds[c] + 1
     /\ contracts'[c].cancellationsUsed = contracts[c].cancellationsUsed + 1
     /\ contracts'[c].cancellationLimit = contracts[c].cancellationLimit

LEMMA NextLateStep ==
  ASSUME Sequential, [Next]_vars, NEW c \in ContractIds
  PROVE  LateStep(c)
<1>1. /\ contracts \in [ContractIds -> Contract] /\ lateRefunds \in [ContractIds -> Nat]
      /\ contracts[c].cancellationsUsed \in Nat
  BY DEF Sequential, TypeOK, ContractsTypeOK, Contract
<1>2. CASE UNCHANGED contractVars
  BY <1>1, <1>2 DEF LateStep, contractVars
<1>3. ASSUME NEW d \in ContractIds, NEW row, UNCHANGED lateRefunds,
             contracts' = [contracts EXCEPT ![d] = row],
             Exists(d) => row.cancellationsUsed = contracts[d].cancellationsUsed
      PROVE  LateStep(c)
  BY <1>1, <1>3 DEF LateStep
<1>4. CASE ContractsStep
  <2>1. ASSUME NEW d \in ContractIds, NEW terms, CreateContract(d, terms)
        PROVE  LateStep(c)
    BY <2>1, <1>3 DEF CreateContract
  <2>2. ASSUME NEW d \in ContractIds, NEW p \in Patches, UpdateContract(d, p)
        PROVE  LateStep(c)
    <3>1. Patched(contracts[d], p).cancellationsUsed = contracts[d].cancellationsUsed
      BY <1>1 DEF Patched, Contract
    <3>2. contracts' = [contracts EXCEPT ![d] = Patched(contracts[d], p)]
          /\ UNCHANGED lateRefunds
      BY <1>1, <2>2 DEF UpdateContract
    <3> QED BY <1>3, <3>1, <3>2
  <2>3. ASSUME NEW q \in Requests, RenewCommit(q) PROVE LateStep(c)
    <3>1. CASE c = loc[q].contract
      BY <1>1, <2>3, <3>1 DEF RenewCommit, LateStep
    <3>2. CASE c # loc[q].contract
      <4>1. contracts'[c] = contracts[c] /\ lateRefunds'[c] = lateRefunds[c]
        BY <1>1, <2>3, <3>2 DEF RenewCommit
      <4> QED BY <1>1, <4>1 DEF LateStep
    <3> QED BY <3>1, <3>2
  <2>4. ASSUME NEW d \in ContractIds, SweepExpire(d) PROVE LateStep(c)
    <3> DEFINE row == [contracts[d] EXCEPT !.status = "EXPIRED"]
    <3>1. row.cancellationsUsed = contracts[d].cancellationsUsed
      BY <1>1 DEF Contract
    <3>2. contracts' = [contracts EXCEPT ![d] = row] /\ UNCHANGED lateRefunds
      BY <1>1, <2>4 DEF SweepExpire
    <3> HIDE DEF row
    <3> QED BY <1>3, <3>1, <3>2
  <2>5. CASE SweepRead \/ SweepAbort \/ \E q \in Requests, d \in ContractIds,
             endDate \in RenewalDates : RenewRead(q, d, endDate)
    BY <2>5, <1>2 DEF SweepRead, SweepAbort, RenewRead
  <2> QED BY <1>4, <2>1, <2>2, <2>3, <2>4, <2>5 DEF ContractsStep, ContractsChange
<1>5. ASSUME NEW q \in Requests, CancelCommit(q) PROVE LateStep(c)
  <2> DEFINE d == loc[q]
  <2>1. /\ d \in CancelLocals /\ pc[q] = "cancel_commit"
        /\ TrailOf(q) /\ Remembers(q)
    BY <1>5 DEF CancelCommit, Sequential, ChargeInv, TypeOK, RuntimeTypeOK, FitsStage
  <2>2. /\ d.contract \in ContractIds /\ Exists(d.contract)
        /\ d.late /\ d.refund => WithinAllowance(d.contract)
    BY <2>1 DEF CancelLocals, TrailOf, SettleStages, OwnedBy, Remembers
  <2>3. CASE ~d.late
    BY <1>2, <1>5, <2>3 DEF CancelCommit
  <2>4. CASE d.late /\ c # d.contract
    <3>1. contracts'[c] = contracts[c] /\ lateRefunds'[c] = lateRefunds[c]
      BY <1>1, <1>5, <2>4 DEF CancelCommit, CountLate
    <3> QED BY <1>1, <3>1 DEF LateStep
  <2>5. CASE d.late /\ c = d.contract
    <3>1. CountLate(c, d.refund)
      BY <1>5, <2>5 DEF CancelCommit
    <3>2. /\ contracts'[c].cancellationsUsed = contracts[c].cancellationsUsed + 1
          /\ contracts'[c].cancellationLimit = contracts[c].cancellationLimit
      BY <1>1, <3>1 DEF CountLate, Contract
    <3>3. lateRefunds'[c] = IF d.refund THEN lateRefunds[c] + 1 ELSE lateRefunds[c] + 0
      BY <1>1, <3>1 DEF CountLate
    <3>4. lateRefunds[c] + 0 = lateRefunds[c]
      BY <1>1
    <3>5. CASE d.refund
      BY <2>2, <2>5, <3>2, <3>3, <3>5 DEF LateStep
    <3>6. CASE ~d.refund
      BY <1>1, <3>2, <3>3, <3>4, <3>6 DEF LateStep
    <3> QED BY <3>5, <3>6
  <2> QED BY <2>3, <2>4, <2>5
<1>6. CASE ReservationsStep
  BY <1>2, <1>5, <1>6
  DEF ReservationsStep, CreateRead, CreateSlot, CreateCommit, CancelRead,
      CancelContract, RescheduleRead, RescheduleContract, RescheduleSlot,
      RescheduleCommit, MarkNoShowRead, CompleteRead, MarkNoShowCommit,
      CompleteCommit, CloseRead, CloseCommit
<1> QED BY <1>2, <1>4, <1>6 DEF Next, vars

\* A contract's late cancellations are refunded at most cancellationLimit times
\* between two renewals, as long as no administrator lowers the limit.
THEOREM SequentialLateRefundsWithinLimit ==
  ASSUME Concurrency = 1, IsFiniteSet(Requests)
  PROVE  Spec /\ LimitsNeverLowered => []LateRefundsWithinLimit
<1>1. Init => LateRefundsCounted
  BY DEF Init, ContractsInit, NoContract, LateRefundsCounted
<1>2. LateRefundsCounted => LateRefundsWithinLimit
  BY DEF LateRefundsCounted, LateRefundsWithinLimit
<1> DEFINE Raised == \A c \in ContractIds :
             contracts'[c].cancellationLimit >= contracts[c].cancellationLimit
<1>3. ASSUME Sequential, Sequential', LateRefundsCounted, [Next]_vars, [Raised]_vars
      PROVE  LateRefundsCounted'
  <2>1. SUFFICES ASSUME NEW c \in ContractIds
                 PROVE  /\ lateRefunds'[c] <= contracts'[c].cancellationsUsed
                        /\ lateRefunds'[c] <= contracts'[c].cancellationLimit
                        /\ ~Exists(c)' => lateRefunds'[c] = 0
    BY DEF LateRefundsCounted, Exists
  <2>2. /\ contracts[c].cancellationsUsed \in Nat
        /\ contracts[c].cancellationLimit \in Nat
        /\ contracts'[c].cancellationsUsed \in Nat
        /\ contracts'[c].cancellationLimit \in Nat
        /\ lateRefunds[c] \in Nat /\ lateRefunds'[c] \in Nat
    BY <1>3 DEF Sequential, TypeOK, ContractsTypeOK, Contract
  <2>3. contracts'[c].cancellationLimit >= contracts[c].cancellationLimit
    BY <1>3, <2>2 DEF vars, contractVars
  <2>4. /\ lateRefunds[c] <= contracts[c].cancellationsUsed
        /\ lateRefunds[c] <= contracts[c].cancellationLimit
        /\ ~Exists(c) => lateRefunds[c] = 0
    BY <1>3 DEF LateRefundsCounted
  <2>5. Exists(c) => Exists(c)'
    BY <1>3, NextCharges DEF Sequential, ChargeStep, OwnersKept
  <2>6. LateStep(c)
    BY <1>3, NextLateStep
  <2> QED BY <2>2, <2>3, <2>4, <2>5, <2>6 DEF LateStep, WithinAllowance
<1>4. LimitsNeverLowered => [][Raised]_vars
  BY PTL DEF LimitsNeverLowered
<1> QED BY <1>1, <1>2, <1>3, <1>4, SequentialInvariant, PTL DEF Spec

=============================================================================
