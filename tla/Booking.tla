------------------------------- MODULE Booking -------------------------------
(***************************************************************************)
(* The booking system: reservations, credits, contracts and schedules on   *)
(* one database, served by concurrent requests and one background worker.  *)
(* The API is the composition of the handlers of its services; what a step *)
(* of one service leaves alone is stated here.                             *)
(***************************************************************************)
EXTENDS Reservations

vars ==
  <<runtimeVars, creditVars, contractVars, scheduleVars, reservations>>

Stages ==
  {"new", "done",
   "create_slot", "create_commit",
   "cancel_contract", "cancel_commit",
   "reschedule_contract", "reschedule_slot", "reschedule_commit",
   "no_show_commit", "complete_commit",
   "adjust_entry", "renew_commit", "rule_commit"}

\* What a request holds in its local variables at each stage.
FitsStage(l, stage) ==
  /\ stage \in {"new", "done"} => l = NoLocals
  /\ stage \in {"create_slot", "create_commit"} => l \in BookingLocals
  /\ stage = "cancel_contract" => l \in SeenLocals
  /\ stage = "cancel_commit" => l \in CancelLocals
  /\ stage = "reschedule_contract" => l \in MoveSeenLocals
  /\ stage \in {"reschedule_slot", "reschedule_commit"} => l \in MoveLocals
  /\ stage \in {"no_show_commit", "complete_commit"} => l \in TargetLocals
  /\ stage = "adjust_entry" => l \in AdjustLocals
  /\ stage = "renew_commit" => l \in RenewLocals
  /\ stage = "rule_commit" => l \in RuleLocals

RuntimeTypeOK ==
  /\ now \in Times
  /\ pc \in [Requests -> Stages]
  /\ DOMAIN loc = Requests
  /\ \A q \in Requests : FitsStage(loc[q], pc[q])
  /\ job \subseteq ContractIds

TypeOK ==
  /\ RuntimeTypeOK
  /\ CreditsTypeOK
  /\ ContractsTypeOK
  /\ SchedulesTypeOK
  /\ ReservationsTypeOK

Init ==
  /\ RuntimeInit
  /\ CreditsInit
  /\ ContractsInit
  /\ SchedulesInit
  /\ ReservationsInit

AdjustStep ==
  \E q \in Requests :
    \/ \E w \in ContractIds, delta \in Deltas :
         Exists(w) /\ AdjustBalance(q, w, delta)
    \/ AdjustEntry(q)

Next ==
  \/ ReservationsStep
  \/ AdjustStep /\ UNCHANGED <<contractVars, scheduleVars, reservations>>
  \/ ContractsStep /\ UNCHANGED <<scheduleVars, reservations>>
  \/ /\ SchedulesStep
     /\ UNCHANGED <<creditVars, contractVars, reservations>>
  \/ /\ Tick \/ \E q \in Requests : Abort(q)
     /\ UNCHANGED <<creditVars, contractVars, scheduleVars, reservations>>

Spec == Init /\ [][Next]_vars

-----------------------------------------------------------------------------
(* Safety, whatever is in flight *)

\* Two reservations that hold a room never overlap, whatever handlers race:
\* every write of a row is admitted by the exclusion constraint, also the one
\* that brings a row back to an occupying status.
NoDoubleBooking ==
  \A r, s \in Requests :
    (/\ r # s
     /\ reservations[r].status \in ConstraintStatuses
     /\ reservations[s].status \in ConstraintStatuses)
      => ~Overlap(reservations[r], reservations[s])

\* Concurrent bookings, reschedules and adjustments never take a wallet below
\* zero: every decrement carries its own balance condition.
NeverOverdrawn == \A w \in ContractIds : wallet[w].balance >= 0

\* Balance and aggregates of a wallet are what its ledger entries add up to,
\* but for the adjustments that moved the balance and lack their entry yet.
LedgerExplainsWallets ==
  \A w \in ContractIds :
    /\ wallet[w].balance = LedgerTotal(w) + unposted[w]
    /\ wallet[w].totalGranted = posted[w]["CREDIT"]
    /\ wallet[w].totalUsed = -(posted[w]["DEBIT"] + posted[w]["REFUND"])

\* With no adjustment in flight, balances derive from the ledger alone.
BalanceIsLedger ==
  (\A q \in Requests : pc[q] # "adjust_entry") =>
    \A w \in ContractIds : wallet[w].balance = LedgerTotal(w)

\* No reservation without its debit and no debit without a reservation: the
\* insert and the debit commit together or not at all.
BookedIffDebited ==
  \A r \in Requests :
    Booked(r) <=> \E w \in ContractIds : charged[r][w].debit > 0

\* A reservation is charged to, and refunded from, wallets of its own user,
\* even when an administrator acts on it or contracts change hands meanwhile.
ChargedToOwner ==
  \A r \in Requests, w \in ContractIds :
    charged[r][w].debit > 0 \/ charged[r][w].refund > 0 =>
      contracts[w].user = reservations[r].user

\* Who holds each room at each instant, as far as the calendar goes.
RoomHolders ==
  [x \in Rooms |-> [t \in 0..(Horizon + DayLength) |->
     {r \in Requests :
        /\ reservations[r].room = x
        /\ reservations[r].status \in ConstraintStatuses
        /\ t \in Span(reservations[r].start, reservations[r].dur)}]]

Calendar ==
  INSTANCE RoomCalendar WITH
    Instants <- 0..(Horizon + DayLength),
    Holders <- Requests,
    holders <- RoomHolders

\* Each step lets one reservation take, move or give up an interval that no
\* other holds.
ImplementsCalendar == Calendar!CalendarSpec

-----------------------------------------------------------------------------
(* Properties of one request at a time *)

\* What a client has paid for a reservation is what the reservation is worth:
\* its hours while it stands, all or nothing of them once it is cancelled.
PaidForWhatIsHeld ==
  \A r \in Requests :
    LET row == reservations[r] IN
    /\ row.status \in ConstraintStatuses => spent[r] = row.dur
    /\ row.status = "CANCELLED" => spent[r] \in {0, row.dur}

\* A contract's late cancellations are refunded at most cancellationLimit
\* times between two renewals.
LateRefundsWithinLimit ==
  \A c \in ContractIds : lateRefunds[c] <= contracts[c].cancellationLimit

\* A cancelled, completed or missed reservation is never touched again.
ClosedStaysClosed ==
  [][\A r \in Requests :
       reservations[r].status \in {"CANCELLED", "COMPLETED", "NO_SHOW"} =>
         reservations'[r] = reservations[r]]_vars

\* Whatever passed the slot check is admitted by the exclusion constraint.
SlotCheckSuffices ==
  \A q \in Requests :
    /\ pc[q] = "create_commit" => Admits(q, NewReservation(loc[q]))
    /\ pc[q] = "reschedule_commit" =>
         Admits(loc[q].target, Moved(reservations[loc[q].target], loc[q]))

\* A reservation is only ever placed inside the room's open hours, outside
\* every blocked period, while the room is available.
PlacedInOpenHours ==
  [][\A r \in Requests :
       LET row == reservations'[r] IN
       <<row.start, row.dur>> # <<reservations[r].start, reservations[r].dur>> =>
         Span(row.start, row.dur) \subseteq
           FreeInstants(row.room, DayOf(row.start), {})]_vars

-----------------------------------------------------------------------------
(* What a comment promises, and a newer contract breaks *)

\* A refund goes back to the wallet that was debited: credits.service.ts refunds
\* "previously debited" credits.
RefundedWhereDebited ==
  \A r \in Requests, w \in ContractIds :
    charged[r][w].refund <= charged[r][w].debit

=============================================================================
