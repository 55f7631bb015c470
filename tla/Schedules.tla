----------------------------- MODULE Schedules -----------------------------
(***************************************************************************)
(* When a room can be booked (SchedulesService): weekly availability rules *)
(* minus one-off blocked periods, for rooms whose status is AVAILABLE.     *)
(* Time is a set of unit instants, so an interval [from, to) is the set of *)
(* the instants in it; module TimeIntervals shows that the interval        *)
(* arithmetic of the code computes these sets, maximal slot by maximal     *)
(* slot, so that a request fits a slot exactly when its instants are free. *)
(***************************************************************************)
EXTENDS Runtime

CONSTANTS
  Rooms,
  EveryRoom,       \* the null roomId of a blocked period
  DayLength,       \* instants in a day
  WeekLength,      \* days in a week
  RuleIds,         \* bound: identifiers of availability rules
  NoRule,          \* what a free identifier holds
  InitialRules,    \* the availability rules at the start
  RuleChoices,     \* bound: the rules an administrator may add
  RulePatches,     \* bound: the partial updates of a rule
  BlockChoices,    \* bound: the periods an administrator may block
  StatusChoices    \* bound: the statuses an administrator may give a room

RoomStatuses == {"AVAILABLE", "MAINTENANCE", "INACTIVE"}

Weekdays == 0..(WeekLength - 1)
DayTimes == 0..(DayLength - 1)   \* "00:00" to "23:59": there is no "24:00"

Rule == [room : Rooms, weekday : Weekdays, from : DayTimes, to : DayTimes,
         active : BOOLEAN]
RulePatch == [room : Rooms \cup {Keep}, weekday : Weekdays \cup {Keep},
              from : DayTimes \cup {Keep}, to : DayTimes \cup {Keep},
              active : BOOLEAN \cup {Keep}]
Block == [room : Rooms \cup {EveryRoom}, from : Times, to : Times]

ASSUME SchedulesAssumption ==
  /\ DayLength \in Nat \ {0}
  /\ WeekLength \in Nat \ {0}
  /\ EveryRoom \notin Rooms
  /\ NoRule \notin Rule
  /\ InitialRules \in [RuleIds -> Rule \cup {NoRule}]
  /\ RuleChoices \subseteq Rule
  /\ RulePatches \subseteq RulePatch
  /\ BlockChoices \subseteq Block
  /\ StatusChoices \subseteq RoomStatuses

VARIABLES
  roomStatus,  \* the status column of each room
  rules,       \* the availability rules
  blocks       \* the blocked periods

scheduleVars == <<roomStatus, rules, blocks>>

SchedulesTypeOK ==
  /\ roomStatus \in [Rooms -> RoomStatuses]
  /\ rules \in [RuleIds -> Rule \cup {NoRule}]
  /\ blocks \subseteq Block

SchedulesInit ==
  /\ roomStatus = [x \in Rooms |-> "AVAILABLE"]
  /\ rules = InitialRules
  /\ blocks = {}

-----------------------------------------------------------------------------
(* The slot engine: getAvailableSlots *)

DayOf(t) == t \div DayLength
Weekday(day) == day % WeekLength

\* The instants of [start, start + dur).
Span(start, dur) == start..(start + dur - 1)

ActiveRules(room, day) ==
  {i \in RuleIds : /\ rules[i] # NoRule
                   /\ rules[i].room = room
                   /\ rules[i].weekday = Weekday(day)
                   /\ rules[i].active}

OpenInstants(room, day) ==
  UNION {{day * DayLength + m : m \in rules[i].from..(rules[i].to - 1)} :
           i \in ActiveRules(room, day)}

BlockedInstants(room) ==
  UNION {b.from..(b.to - 1) : b \in {p \in blocks : p.room \in {room, EveryRoom}}}

\* The free instants of a day, given those taken by reservations.
FreeInstants(room, day, taken) ==
  IF roomStatus[room] = "AVAILABLE"
  THEN OpenInstants(room, day) \ (BlockedInstants(room) \cup taken)
  ELSE {}

-----------------------------------------------------------------------------
(* Administration *)

ValidRange(from, to) == from < to

\* POST /availabilities
CreateAvailability(i, r) ==
  /\ Idle
  /\ rules[i] = NoRule
  /\ ValidRange(r.from, r.to)
  /\ rules' = [rules EXCEPT ![i] = r]
  /\ UNCHANGED <<roomStatus, blocks>>

KeepsRange(r, p) ==
  ValidRange(Either(p.from, r.from), Either(p.to, r.to))

\* PATCH /availabilities/:id: reads the rule and checks the merged range...
UpdateAvailabilityRead(q, i, p) ==
  /\ Begin(q, "rule_commit", [rule |-> i, patch |-> p])
  /\ rules[i] # NoRule
  /\ KeepsRange(rules[i], p)
  /\ UNCHANGED scheduleVars

RuleLocals == [rule : RuleIds, patch : RulePatch]

PatchedRule(r, p) ==
  [r EXCEPT !.room = Either(p.room, @), !.weekday = Either(p.weekday, @),
            !.from = Either(p.from, @), !.to = Either(p.to, @),
            !.active = Either(p.active, @)]

\* ...then writes the fields of the body, if the rule is still there.
UpdateAvailabilityCommit(q) ==
  LET i == loc[q].rule IN
  /\ pc[q] = "rule_commit"
  /\ rules' = IF rules[i] = NoRule THEN rules
              ELSE [rules EXCEPT ![i] = PatchedRule(@, loc[q].patch)]
  /\ Finish(q)
  /\ UNCHANGED <<roomStatus, blocks>>

\* DELETE /availabilities/:id
DeleteAvailability(i) ==
  /\ Idle
  /\ rules[i] # NoRule
  /\ rules' = [rules EXCEPT ![i] = NoRule]
  /\ UNCHANGED <<roomStatus, blocks>>

\* POST /blocked-periods: existing reservations are not looked at.
CreateBlockedPeriod(b) ==
  /\ Idle
  /\ ValidRange(b.from, b.to)
  /\ blocks' = blocks \cup {b}
  /\ UNCHANGED <<roomStatus, rules>>

\* DELETE /blocked-periods/:id
DeleteBlockedPeriod(b) ==
  /\ Idle
  /\ b \in blocks
  /\ blocks' = blocks \ {b}
  /\ UNCHANGED <<roomStatus, rules>>

\* PATCH /rooms/:id, as far as bookings see it.
SetRoomStatus(x, status) ==
  /\ Idle
  /\ roomStatus' = [roomStatus EXCEPT ![x] = status]
  /\ UNCHANGED <<rules, blocks>>

SchedulesStep ==
  \/ \E i \in RuleIds :
       \/ \E r \in RuleChoices : CreateAvailability(i, r)
       \/ \E q \in Requests, p \in RulePatches : UpdateAvailabilityRead(q, i, p)
       \/ DeleteAvailability(i)
  \/ \E q \in Requests : UpdateAvailabilityCommit(q)
  \/ \E b \in BlockChoices : CreateBlockedPeriod(b) \/ DeleteBlockedPeriod(b)
  \/ \E x \in Rooms, status \in StatusChoices : SetRoomStatus(x, status)

=============================================================================
