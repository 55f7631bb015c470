---------------------------- MODULE Reservations ----------------------------
(***************************************************************************)
(* Reservations (ReservationsService, ReservationPolicyService) over the   *)
(* reservations table and its exclusion constraint.  Every handler reads   *)
(* what it needs call by call, decides, and then commits one transaction   *)
(* or one update by id; a commit does not look again at what was read.     *)
(* A transaction is one step here: at READ COMMITTED each statement sees   *)
(* the latest committed row, and the rows it wrote stay locked until it    *)
(* commits.                                                                *)
(*                                                                         *)
(* Access rights are left out: some requester may always make the request. *)
(***************************************************************************)
EXTENDS Contracts, Schedules

CONSTANTS
  Durations,  \* bound: the durations clients ask for, in hours
  NoRoom      \* the room of a reservation that does not exist

ASSUME ReservationsAssumption ==
  /\ Durations \subseteq Nat \ {0}
  /\ NoRoom \notin Rooms

VARIABLE
  reservations  \* the row that request r inserted; status "NONE" when none

ReservationStatuses ==
  {"PENDING", "CONFIRMED", "COMPLETED", "CANCELLED", "NO_SHOW", "REJECTED"}

Reservation ==
  [user : Users \cup {NoUser}, room : Rooms \cup {NoRoom}, start : Nat,
   dur : Nat, status : ReservationStatuses \cup {"NONE"}]

ReservationsTypeOK == reservations \in [Requests -> Reservation]

NoReservation ==
  [user |-> NoUser, room |-> NoRoom, start |-> 0, dur |-> 0,
   status |-> "NONE"]

ReservationsInit == reservations = [r \in Requests |-> NoReservation]

Booked(r) == reservations[r].status # "NONE"

-----------------------------------------------------------------------------
(* The table: reservations_no_overlap, and the statuses the slots leave out *)

ConstraintStatuses == {"PENDING", "CONFIRMED", "COMPLETED", "NO_SHOW"}

\* Slip: the slot of a client who did not show up is offered again.
OccupyingWithoutNoShow == {"PENDING", "CONFIRMED", "COMPLETED"}

OccupyingStatuses == {"PENDING", "CONFIRMED", "COMPLETED", "NO_SHOW"}

\* tsrange(startAt, endAt, '[)') && tsrange(...)
Overlap(x, y) ==
  /\ x.room = y.room
  /\ x.start < y.start + y.dur
  /\ y.start < x.start + x.dur

\* Slip: the constraint forgets reservations that are over.
AdmitsOverClosed(r, row) ==
  row.status \in ConstraintStatuses =>
    \A s \in Requests \ {r} :
      reservations[s].status \in {"PENDING", "CONFIRMED"} =>
        ~Overlap(row, reservations[s])

\* The exclusion constraint accepts row as the new version of r.
Admits(r, row) ==
  row.status \in ConstraintStatuses =>
    \A s \in Requests \ {r} :
      reservations[s].status \in ConstraintStatuses =>
        ~Overlap(row, reservations[s])

Write(r, row) == reservations' = [reservations EXCEPT ![r] = row]

\* Instants of the room taken by reservations other than r.
TakenInstants(room, r) ==
  UNION {Span(reservations[s].start, reservations[s].dur) :
           s \in {t \in Requests \ {r} :
                    /\ reservations[t].room = room
                    /\ reservations[t].status \in OccupyingStatuses}}

\* Slip: only the start is looked up in the slots.
SlotHasStart(room, start, dur, r) ==
  start \in FreeInstants(room, DayOf(start), TakenInstants(room, r))

\* assertSlotIsFree: one of the day's slots contains the whole interval.
SlotIsFree(room, start, dur, r) ==
  Span(start, dur) \subseteq
    FreeInstants(room, DayOf(start), TakenInstants(room, r))

-----------------------------------------------------------------------------
(* POST /reservations *)

BookingLocals ==
  [user : Users, room : Rooms, start : Nat, dur : Durations,
   contract : ContractIds]

\* The interval ends on the day it starts, or at that day's midnight.
SameDay(start, dur) == start + dur <= (DayOf(start) + 1) * DayLength

\* Validation, then the reads of the room, the contract and its wallet.
CreateRead(q, u, x, start, dur) ==
  \E c \in ContractIds :
    /\ Begin(q, "create_slot", [user |-> u, room |-> x, start |-> start,
                                dur |-> dur, contract |-> c])
    /\ start > now
    /\ SameDay(start, dur)
    /\ roomStatus[x] = "AVAILABLE"
    /\ IsActiveContract(c, u)
    /\ UNCHANGED <<creditVars, contractVars, scheduleVars, reservations>>

CreateSlot(q) ==
  LET b == loc[q] IN
  /\ pc[q] = "create_slot"
  /\ IF SlotIsFree(b.room, b.start, b.dur, q)
     THEN Goto(q, "create_commit", b)
     ELSE Finish(q)
  /\ UNCHANGED <<creditVars, contractVars, scheduleVars, reservations>>

NewReservation(b) ==
  [user |-> b.user, room |-> b.room, start |-> b.start, dur |-> b.dur,
   status |-> "CONFIRMED"]

\* Slip: the row is inserted outside the transaction of the debit.
CreateCommitApart(q) ==
  LET row == NewReservation(loc[q])
  IN /\ pc[q] = "create_commit"
     /\ IF Admits(q, row) THEN Write(q, row) ELSE UNCHANGED reservations
     /\ \/ Admits(q, row) /\ Debit(loc[q].contract, loc[q].dur, q)
        \/ /\ ~(Admits(q, row) /\ Covers(loc[q].contract, loc[q].dur))
           /\ UNCHANGED creditVars
     /\ Finish(q)
     /\ UNCHANGED <<contractVars, scheduleVars>>

\* The transaction: the row and its debit, or neither.
CreateCommit(q) ==
  LET row == NewReservation(loc[q])
  IN /\ pc[q] = "create_commit"
     /\ \/ /\ Admits(q, row)
           /\ Write(q, row)
           /\ Debit(loc[q].contract, loc[q].dur, q)
        \/ /\ ~(Admits(q, row) /\ Covers(loc[q].contract, loc[q].dur))
           /\ UNCHANGED <<reservations, creditVars>>
     /\ Finish(q)
     /\ UNCHANGED <<contractVars, scheduleVars>>

-----------------------------------------------------------------------------
(* PATCH /reservations/:id/cancel *)

Late(c, start) == start - now < contracts[c].cancellationWindowHours

\* Slip: one refund too many.
WithinAllowanceInclusive(c) ==
  contracts[c].cancellationsUsed <= contracts[c].cancellationLimit

\* evaluateCancellation
WithinAllowance(c) ==
  contracts[c].cancellationsUsed < contracts[c].cancellationLimit

Refunds(c, start) == ~Late(c, start) \/ WithinAllowance(c)

Cancellable(row) == row.status \in {"PENDING", "CONFIRMED"}

CancelRead(q, r) ==
  /\ Begin(q, "cancel_contract", [target |-> r, seen |-> reservations[r]])
  /\ Cancellable(reservations[r])
  /\ UNCHANGED <<creditVars, contractVars, scheduleVars, reservations>>

SeenLocals == [target : Requests, seen : Reservation]

CancelLocals ==
  [target : Requests, contract : ContractIds, credits : Nat,
   refund : BOOLEAN, late : BOOLEAN]

\* The owner's active contract of now, which need not be the one charged.
CancelContract(q) ==
  LET r == loc[q].seen IN
  /\ pc[q] = "cancel_contract"
  /\ \/ \E c \in ContractIds :
          /\ IsActiveContract(c, r.user)
          /\ Goto(q, "cancel_commit",
                  [target |-> loc[q].target, contract |-> c,
                   credits |-> r.dur, refund |-> Refunds(c, r.start),
                   late |-> Late(c, r.start)])
     \/ Usable(r.user) = {} /\ Finish(q)
  /\ UNCHANGED <<creditVars, contractVars, scheduleVars, reservations>>

\* Slip: another spelling of the status.
CancelledMisspelt(row) == [row EXCEPT !.status = "CANCELED"]

Cancelled(row) == [row EXCEPT !.status = "CANCELLED"]

CountLate(c, refunded) ==
  /\ contracts' = [contracts EXCEPT ![c].cancellationsUsed = @ + 1]
  /\ lateRefunds' = [lateRefunds EXCEPT ![c] = @ + IF refunded THEN 1 ELSE 0]

\* The transaction: by id, whatever the status has become.
CancelCommit(q) ==
  LET d == loc[q] IN
  /\ pc[q] = "cancel_commit"
  /\ Write(d.target, Cancelled(reservations[d.target]))
  /\ IF d.refund THEN Refund(d.contract, d.credits, d.target)
     ELSE UNCHANGED creditVars
  /\ IF d.late THEN CountLate(d.contract, d.refund) ELSE UNCHANGED contractVars
  /\ Finish(q)
  /\ UNCHANGED scheduleVars

-----------------------------------------------------------------------------
(* PATCH /reservations/:id/reschedule *)

\* Slip: the status is not looked at.
CanRescheduleAnything(row) == row.status # "NONE" /\ row.start > now

CanReschedule(row) == row.status = "CONFIRMED" /\ row.start > now

\* The new start is not compared with the clock.
RescheduleRead(q, r, start, dur) ==
  /\ Begin(q, "reschedule_contract",
           [target |-> r, seen |-> reservations[r], start |-> start,
            dur |-> dur])
  /\ CanReschedule(reservations[r])
  /\ UNCHANGED <<creditVars, contractVars, scheduleVars, reservations>>

MoveSeenLocals ==
  [target : Requests, seen : Reservation, start : Nat, dur : Durations]

MoveLocals ==
  [target : Requests, room : Rooms \cup {NoRoom}, start : Nat,
   dur : Durations, contract : ContractIds, delta : Int]

RescheduleContract(q) ==
  LET m == loc[q] IN
  /\ pc[q] = "reschedule_contract"
  /\ \/ \E c \in ContractIds :
          /\ IsActiveContract(c, m.seen.user)
          /\ Goto(q, "reschedule_slot",
                  [target |-> m.target, room |-> m.seen.room,
                   start |-> m.start, dur |-> m.dur, contract |-> c,
                   delta |-> m.dur - m.seen.dur])
     \/ Usable(m.seen.user) = {} /\ Finish(q)
  /\ UNCHANGED <<creditVars, contractVars, scheduleVars, reservations>>

RescheduleSlot(q) ==
  LET m == loc[q] IN
  /\ pc[q] = "reschedule_slot"
  /\ IF SlotIsFree(m.room, m.start, m.dur, m.target)
     THEN Goto(q, "reschedule_commit", m)
     ELSE Finish(q)
  /\ UNCHANGED <<creditVars, contractVars, scheduleVars, reservations>>

Moved(row, m) == [row EXCEPT !.start = m.start, !.dur = m.dur]

\* Slip: a shorter reservation is not paid back.
SettleLongerOnly(m) ==
  IF m.delta > 0 THEN Debit(m.contract, m.delta, m.target) ELSE UNCHANGED creditVars

\* Debit or refund of the difference with the duration read before.
Settle(m) ==
  \/ m.delta > 0 /\ Debit(m.contract, m.delta, m.target)
  \/ m.delta < 0 /\ Refund(m.contract, -m.delta, m.target)
  \/ m.delta = 0 /\ UNCHANGED creditVars

CanSettle(m) == m.delta > 0 => Covers(m.contract, m.delta)

\* The transaction: by id, whatever the status has become.
RescheduleCommit(q) ==
  LET m == loc[q]
      row == Moved(reservations[m.target], m)
  IN /\ pc[q] = "reschedule_commit"
     /\ \/ /\ Admits(m.target, row)
           /\ Settle(m)
           /\ Write(m.target, row)
        \/ /\ ~(Admits(m.target, row) /\ CanSettle(m))
           /\ UNCHANGED <<reservations, creditVars>>
     /\ Finish(q)
     /\ UNCHANGED <<contractVars, scheduleVars>>

-----------------------------------------------------------------------------
(* PATCH /reservations/:id/no-show and /reservations/:id/complete *)

TargetLocals == [target : Requests]

CloseRead(q, r, stage) ==
  /\ Begin(q, stage, [target |-> r])
  /\ reservations[r].status = "CONFIRMED"
  /\ UNCHANGED <<creditVars, contractVars, scheduleVars, reservations>>

\* One UPDATE by id; the constraint may refuse the row's new status.
CloseCommit(q, stage, status) ==
  LET r == loc[q].target
      row == [reservations[r] EXCEPT !.status = status]
  IN /\ pc[q] = stage
     /\ IF Admits(r, row) THEN Write(r, row) ELSE UNCHANGED reservations
     /\ Finish(q)
     /\ UNCHANGED <<creditVars, contractVars, scheduleVars>>

MarkNoShowRead(q, r) == CloseRead(q, r, "no_show_commit")
MarkNoShowCommit(q) == CloseCommit(q, "no_show_commit", "NO_SHOW")
CompleteRead(q, r) == CloseRead(q, r, "complete_commit")
CompleteCommit(q) == CloseCommit(q, "complete_commit", "COMPLETED")

-----------------------------------------------------------------------------

ReservationsStep ==
  \E q \in Requests :
    \/ \E u \in Users, x \in Rooms, start \in Times, dur \in Durations :
         CreateRead(q, u, x, start, dur)
    \/ CreateSlot(q)
    \/ CreateCommit(q)
    \/ \E r \in Requests : CancelRead(q, r)
    \/ CancelContract(q)
    \/ CancelCommit(q)
    \/ \E r \in Requests, start \in Times, dur \in Durations :
         RescheduleRead(q, r, start, dur)
    \/ RescheduleContract(q)
    \/ RescheduleSlot(q)
    \/ RescheduleCommit(q)
    \/ \E r \in Requests : MarkNoShowRead(q, r) \/ CompleteRead(q, r)
    \/ MarkNoShowCommit(q)
    \/ CompleteCommit(q)

=============================================================================
