---------------------------- MODULE RoomCalendar ----------------------------
(***************************************************************************)
(* What the reservation system promises about rooms, with no table, no     *)
(* status and no request: a holder holds one interval of one room or       *)
(* nothing, and a step lets one holder give up its interval for another    *)
(* one that nobody else holds, so that no instant has two holders.         *)
(* An interval whose last instant is before its first is empty.            *)
(***************************************************************************)
EXTENDS Integers

CONSTANTS Rooms, Instants, Holders

VARIABLE holders  \* holders[x][t]: who holds room x at instant t

CalendarInit == holders = [x \in Rooms |-> [t \in Instants |-> {}]]

\* h lets go of what it holds and takes the instants T of room x.
Hold(h, x, T) ==
  /\ \A t \in T : holders[x][t] \subseteq {h}
  /\ holders' = [y \in Rooms |-> [t \in Instants |->
                   IF y = x /\ t \in T THEN {h} ELSE holders[y][t] \ {h}]]

CalendarNext ==
  \E h \in Holders, x \in Rooms, first, last \in Instants : Hold(h, x, first..last)

CalendarSpec == CalendarInit /\ [][CalendarNext]_holders

=============================================================================
