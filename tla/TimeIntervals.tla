--------------------------- MODULE TimeIntervals ---------------------------
(***************************************************************************)
(* The interval arithmetic behind the free slots of a day                  *)
(* (time-intervals.util.ts): subtractIntervals takes the busy intervals    *)
(* away one by one and merges what is left; slots then travel as "HH:mm".  *)
(* The loops of subtractIntervals and mergeIntervals are the behaviour of  *)
(* the specification, one interval per step; an interval [start, end)      *)
(* stands for the set of minutes in it.                                    *)
(***************************************************************************)
EXTENDS Integers, Sequences, Functions

CONSTANTS
  LastMinute,   \* bound: intervals lie in 0..LastMinute (24 * 60 in the code)
  MaxIntervals  \* bound: free and busy have at most this many intervals

ASSUME IntervalsAssumption == LastMinute \in Nat /\ MaxIntervals \in Nat

Minutes == 0..LastMinute
Intervals == [start : Minutes, end : Minutes]

Instants(i) == i.start..(i.end - 1)
Covered(s) == UNION {Instants(s[k]) : k \in DOMAIN s}

Smaller(a, b) == IF a <= b THEN a ELSE b
Larger(a, b) == IF a >= b THEN a ELSE b

\* Slip: an interval that ends where it starts is kept.
NotInverted(i) == i.end >= i.start

NonEmpty(i) == i.end > i.start

-----------------------------------------------------------------------------
(* The helpers *)

\* Slip: a block inside the interval takes everything after it.
PiecesBeforeOnly(interval, block) ==
  IF block.end <= interval.start \/ block.start >= interval.end
  THEN <<interval>>
  ELSE IF block.start > interval.start
       THEN <<[start |-> interval.start, end |-> block.start]>>
       ELSE IF block.end < interval.end
            THEN <<[start |-> block.end, end |-> interval.end]>>
            ELSE <<>>

\* What one busy block leaves of one free interval.
Pieces(interval, block) ==
  IF block.end <= interval.start \/ block.start >= interval.end
  THEN <<interval>>
  ELSE (IF block.start > interval.start
        THEN <<[start |-> interval.start,
                end |-> Smaller(block.start, interval.end)]>>
        ELSE <<>>)
       \o
       (IF block.end < interval.end
        THEN <<[start |-> Larger(block.end, interval.start),
                end |-> interval.end]>>
        ELSE <<>>)

\* The intervals s by start, those with one start in the order they had:
\* Array.prototype.sort is stable.  The set has one member.
Before(s, a, b) ==
  s[a].start < s[b].start \/ (s[a].start = s[b].start /\ a < b)

Sorted(s) ==
  {[i \in DOMAIN s |-> s[p[i]]] :
     p \in {p \in Surjection(DOMAIN s, DOMAIN s) :
             \A a, b \in DOMAIN s : a < b => Before(s, p[a], p[b])}}

\* Slip: intervals that only touch stay apart.
TouchesStrictly(last, interval) == interval.start < last.end

Touches(last, interval) == interval.start <= last.end

\* The last interval of merged reaches the end of this one.
Lengthen(merged, interval) ==
  [merged EXCEPT ![Len(merged)].end = Larger(@, interval.end)]

Clamp(m) == Larger(0, Smaller(24 * 60, m))

\* minutesToTime and timeToMinutes, a time of day as <<hours, minutes>>.
MinutesToTime(m) == <<Clamp(m) \div 60, Clamp(m) % 60>>
TimeToMinutes(t) == t[1] * 60 + t[2]

-----------------------------------------------------------------------------
(* subtractIntervals: filter what is empty, take away block after block,   *)
(* sort and merge what is left                                             *)

VARIABLES
  free, busy,  \* the arguments
  stage,       \* the loop that runs: filter, subtract, merge; then returned
  result,      \* the intervals the loop goes through
  j,           \* the next of them
  k,           \* the block being taken away; those before it have been
  built        \* the intervals the loop has made so far: next, then merged

intervalVars == <<free, busy, stage, result, j, k, built>>

Init ==
  /\ \E n \in 0..MaxIntervals : free \in [1..n -> Intervals]
  /\ \E n \in 0..MaxIntervals : busy \in [1..n -> Intervals]
  /\ stage = "filter"
  /\ result = free
  /\ j = 1 /\ k = 1
  /\ built = <<>>

\* One turn of an inner loop.
Turn ==
  /\ j <= Len(result)
  /\ j' = j + 1
  /\ UNCHANGED <<free, busy, stage, result, k>>

\* The end of an inner loop.
Through ==
  /\ j = Len(result) + 1
  /\ j' = 1
  /\ built' = <<>>
  /\ UNCHANGED <<free, busy>>

Filter ==
  /\ stage = "filter"
  /\ Turn
  /\ built' = IF NonEmpty(result[j]) THEN Append(built, result[j]) ELSE built

Filtered ==
  /\ stage = "filter"
  /\ Through
  /\ result' = built
  /\ stage' = "subtract"
  /\ UNCHANGED k

Taking == stage = "subtract" /\ k <= Len(busy)

SkipBlock ==
  /\ Taking
  /\ ~NonEmpty(busy[k])
  /\ k' = k + 1
  /\ UNCHANGED <<free, busy, stage, result, j, built>>

TakeInterval ==
  /\ Taking
  /\ NonEmpty(busy[k])
  /\ Turn
  /\ built' = built \o Pieces(result[j], busy[k])

TakenBlock ==
  /\ Taking
  /\ NonEmpty(busy[k])
  /\ Through
  /\ result' = built
  /\ k' = k + 1
  /\ UNCHANGED stage

Sort ==
  /\ stage = "subtract"
  /\ k = Len(busy) + 1
  /\ result' \in Sorted(result)
  /\ stage' = "merge"
  /\ UNCHANGED <<free, busy, j, k, built>>

Merge ==
  /\ stage = "merge"
  /\ Turn
  /\ built' =
       IF built # <<>> /\ Touches(built[Len(built)], result[j])
       THEN Lengthen(built, result[j])
       ELSE Append(built, result[j])

Return ==
  /\ stage = "merge"
  /\ Through
  /\ result' \in Sorted(built)
  /\ stage' = "returned"
  /\ UNCHANGED k

Next ==
  \/ Filter
  \/ Filtered
  \/ SkipBlock
  \/ TakeInterval
  \/ TakenBlock
  \/ Sort
  \/ Merge
  \/ Return

Spec == Init /\ [][Next]_intervalVars

-----------------------------------------------------------------------------
(* Properties *)

\* At every turn of the loops, and after the merge, the result covers the free
\* minutes that no block taken so far covers: overlapping, nested, touching,
\* empty and inverted intervals included.
SubtractsExactly ==
  Covered(result) =
    Covered(free) \ UNION {Instants(busy[i]) : i \in 1..(k - 1)}

\* A request fits into one of the returned slots exactly when all its minutes
\* are free: slots that touch have become one, so none is refused for lying
\* across two of them.  Module Schedules relies on this.
FitsIffFree ==
  stage = "returned" =>
    \A from, to \in Minutes :
      from < to =>
        ((\E i \in DOMAIN result :
            result[i].start <= from /\ to <= result[i].end)
         <=> from..(to - 1) \subseteq Covered(free) \ Covered(busy))

\* Slots come out in order, apart from each other and not empty.
SlotsInOrder ==
  stage = "returned" =>
    /\ \A i \in DOMAIN result : result[i].start < result[i].end
    /\ \A a, b \in DOMAIN result : a < b => result[a].end < result[b].start

=============================================================================
