----------------------------- MODULE MCBooking -----------------------------
(* Small instances of Booking for TLC. *)
EXTENDS Booking, TLC

CONSTANTS u1, u2, x1, x2, i1, i2, q1, q2, q3, q4, q5

Open(weekday, from, to) ==
  [room |-> x1, weekday |-> weekday, from |-> from, to |-> to, active |-> TRUE]

\* Days of four hours, the last of which no rule can open ("23:59").
OpenAllDay == [i \in RuleIds |-> Open(0, 0, DayLength - 1)]

\* Two days a week; the first is open, and the second may be opened.
OpenMonday == [i \in RuleIds |-> IF i = i1 THEN Open(0, 0, 3) ELSE NoRule]
OpenTuesday == {Open(1, 0, 3)}

KeepRule == [room |-> Keep, weekday |-> Keep, from |-> Keep, to |-> Keep,
             active |-> Keep]
ShorterDay ==
  {[KeepRule EXCEPT !.from = 1], [KeepRule EXCEPT !.to = 1],
   [KeepRule EXCEPT !.active = FALSE]}

Maintenance == {[room |-> EveryRoom, from |-> 2, to |-> 3]}

Terms(u, endDate, hours, limit, window) ==
  [user |-> u, endDate |-> endDate, monthlyHours |-> hours,
   cancellationLimit |-> limit, cancellationWindowHours |-> window]

\* Two hours, one late refund, valid until 2, cancellable 2 hours ahead.
ShortContract == {Terms(u1, 2, 2, 1, 2)}
LongContract == {Terms(u1, Horizon, 2, 1, 1)}
TwoClients == {Terms(u, 2, 2, 1, 1) : u \in Users}

StatusPatch(status) ==
  [status |-> status, endDate |-> Keep, monthlyHours |-> Keep,
   cancellationLimit |-> Keep, cancellationWindowHours |-> Keep]

ToggleContract == {StatusPatch("EXPIRED"), StatusPatch("ACTIVE")}
CloseContract == {StatusPatch("EXPIRED")}

Corrections == {-2, 1}

RequestSymmetry == Permutations(Requests)
=============================================================================
