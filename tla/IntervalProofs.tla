--------------------------- MODULE IntervalProofs ---------------------------
(***************************************************************************)
(* What module TimeIntervals computes, for lists of any length over any    *)
(* range of minutes.                                                       *)
(***************************************************************************)
EXTENDS TimeIntervals, SequenceTheorems, TLAPS

\* The minutes of the first n intervals of s.
UpTo(s, n) == UNION {Instants(s[i]) : i \in 1..n}

AllNonEmpty(s) == \A i \in DOMAIN s : NonEmpty(s[i])

Rising(s) == \A a, b \in DOMAIN s : a < b => s[a].start <= s[b].start

Apart(s) == \A a, b \in DOMAIN s : a < b => s[a].end < s[b].start

-----------------------------------------------------------------------------
(* The operators *)

\* A time of day that went through "HH:mm" is the same minute again, 24:00
\* included.
THEOREM ClockRoundTrip ==
  ASSUME NEW m \in 0..(24 * 60)
  PROVE  TimeToMinutes(MinutesToTime(m)) = m
<1>1. Clamp(m) = m
  BY DEF Clamp, Smaller, Larger
<1>2. MinutesToTime(m)[1] = m \div 60 /\ MinutesToTime(m)[2] = m % 60
  BY <1>1 DEF MinutesToTime
<1>3. (m \div 60) * 60 + (m % 60) = m
  OBVIOUS
<1> QED
  BY <1>2, <1>3 DEF TimeToMinutes

LEMMA MemberTypes ==
  ASSUME NEW s \in Seq(Intervals), NEW i \in DOMAIN s
  PROVE  /\ s[i] \in Intervals
         /\ s[i].start \in Minutes /\ s[i].end \in Minutes
         /\ s[i].start \in Int /\ s[i].end \in Int
<1>1. s[i] \in Intervals
  OBVIOUS
<1> QED
  BY <1>1, IntervalsAssumption DEF Intervals, Minutes

LEMMA InstantsOf ==
  ASSUME NEW x \in Intervals
  PROVE  \A m : m \in Instants(x) <=> m \in Int /\ x.start <= m /\ m < x.end
<1>1. x.start \in Int /\ x.end \in Int
  BY IntervalsAssumption DEF Intervals, Minutes
<1> QED
  BY <1>1 DEF Instants

\* Appending an interval adds its minutes.
LEMMA CoveredAppend ==
  ASSUME NEW s \in Seq(Intervals), NEW x \in Intervals
  PROVE  /\ Append(s, x) \in Seq(Intervals)
         /\ Covered(Append(s, x)) = Covered(s) \cup Instants(x)
<1> DEFINE t == Append(s, x)
<1>1. /\ t \in Seq(Intervals) /\ Len(t) = Len(s) + 1
      /\ DOMAIN t = 1..(Len(s) + 1) /\ DOMAIN s = 1..Len(s)
      /\ t[Len(s) + 1] = x
      /\ \A i \in 1..Len(s) : t[i] = s[i]
      /\ Len(s) \in Nat
  OBVIOUS
<1> HIDE DEF t
<1>2. Covered(t) \subseteq Covered(s) \cup Instants(x)
  <2> SUFFICES ASSUME NEW m \in Covered(t)
               PROVE  m \in Covered(s) \cup Instants(x)
    OBVIOUS
  <2>1. PICK i \in DOMAIN t : m \in Instants(t[i])
    BY DEF Covered
  <2>2. i = Len(s) + 1 \/ i \in 1..Len(s)
    BY <1>1
  <2> QED
    BY <1>1, <2>1, <2>2 DEF Covered
<1>3. Instants(x) \subseteq Covered(t)
  BY <1>1 DEF Covered
<1>4. Covered(s) \subseteq Covered(t)
  <2> SUFFICES ASSUME NEW m \in Covered(s) PROVE m \in Covered(t)
    OBVIOUS
  <2>1. PICK i \in 1..Len(s) : m \in Instants(s[i])
    BY <1>1 DEF Covered
  <2>2. i \in DOMAIN t /\ t[i] = s[i]
    BY <1>1
  <2> QED
    BY <2>1, <2>2 DEF Covered
<1> QED
  BY <1>1, <1>2, <1>3, <1>4 DEF t

LEMMA CoveredConcat ==
  ASSUME NEW s \in Seq(Intervals), NEW t \in Seq(Intervals)
  PROVE  /\ s \o t \in Seq(Intervals)
         /\ Covered(s \o t) = Covered(s) \cup Covered(t)
         /\ AllNonEmpty(s) /\ AllNonEmpty(t) => AllNonEmpty(s \o t)
<1> DEFINE u == s \o t
<1>1. /\ u \in Seq(Intervals) /\ Len(u) = Len(s) + Len(t)
      /\ DOMAIN u = 1..(Len(s) + Len(t))
      /\ DOMAIN s = 1..Len(s) /\ DOMAIN t = 1..Len(t)
      /\ Len(s) \in Nat /\ Len(t) \in Nat
      /\ \A i \in 1..(Len(s) + Len(t)) :
           u[i] = IF i <= Len(s) THEN s[i] ELSE t[i - Len(s)]
  BY ConcatProperties
<1> HIDE DEF u
<1>2. ASSUME NEW i \in DOMAIN u
      PROVE  \/ i \in DOMAIN s /\ u[i] = s[i]
             \/ i - Len(s) \in DOMAIN t /\ u[i] = t[i - Len(s)]
  BY <1>1
<1>3. ASSUME NEW i \in DOMAIN s PROVE i \in DOMAIN u /\ u[i] = s[i]
  BY <1>1
<1>4. ASSUME NEW i \in DOMAIN t
      PROVE  i + Len(s) \in DOMAIN u /\ u[i + Len(s)] = t[i]
  BY <1>1
<1>5. Covered(u) \subseteq Covered(s) \cup Covered(t)
  BY <1>2 DEF Covered
<1>6. Covered(s) \cup Covered(t) \subseteq Covered(u)
  BY <1>3, <1>4 DEF Covered
<1>7. AllNonEmpty(s) /\ AllNonEmpty(t) => AllNonEmpty(u)
  BY <1>2 DEF AllNonEmpty
<1> QED
  BY <1>1, <1>5, <1>6, <1>7 DEF u

LEMMA CoveredOne ==
  ASSUME NEW x \in Intervals
  PROVE  /\ <<x>> \in Seq(Intervals)
         /\ Covered(<<x>>) = Instants(x)
         /\ NonEmpty(x) => AllNonEmpty(<<x>>)
<1>1. DOMAIN <<x>> = {1} /\ <<x>>[1] = x
  OBVIOUS
<1> QED
  BY <1>1 DEF Covered, AllNonEmpty

LEMMA CoveredNone ==
  /\ <<>> \in Seq(Intervals)
  /\ Covered(<<>>) = {}
  /\ AllNonEmpty(<<>>)
  /\ Apart(<<>>)
BY DEF Covered, AllNonEmpty, Apart

\* What a block leaves of an interval are the minutes the block does not
\* have, as intervals none of which is empty.
THEOREM PiecesAreDifference ==
  ASSUME NEW x \in Intervals, NEW block \in Intervals,
         NonEmpty(x), NonEmpty(block)
  PROVE  /\ Pieces(x, block) \in Seq(Intervals)
         /\ Covered(Pieces(x, block)) = Instants(x) \ Instants(block)
         /\ AllNonEmpty(Pieces(x, block))
<1> DEFINE before == [start |-> x.start, end |-> Smaller(block.start, x.end)]
           after == [start |-> Larger(block.end, x.start), end |-> x.end]
           left == IF block.start > x.start THEN <<before>> ELSE <<>>
           right == IF block.end < x.end THEN <<after>> ELSE <<>>
<1>1. /\ x.start \in Minutes /\ x.end \in Minutes
      /\ block.start \in Minutes /\ block.end \in Minutes
      /\ x.start \in Int /\ x.end \in Int
      /\ block.start \in Int /\ block.end \in Int
      /\ x.start < x.end /\ block.start < block.end
  BY IntervalsAssumption DEF Intervals, Minutes, NonEmpty
<1>a. \A m : m \in Instants(x) <=> m \in Int /\ x.start <= m /\ m < x.end
  BY InstantsOf
<1>b. \A m : m \in Instants(block)
             <=> m \in Int /\ block.start <= m /\ m < block.end
  BY InstantsOf
<1>2. CASE block.end <= x.start \/ block.start >= x.end
  <2>1. Pieces(x, block) = <<x>>
    BY <1>2 DEF Pieces
  <2>2. Instants(x) \ Instants(block) = Instants(x)
    <3>1. \A m \in Instants(x) : m \notin Instants(block)
      BY <1>1, <1>2, <1>a, <1>b
    <3> QED
      BY <3>1
  <2> QED
    BY <2>1, <2>2, CoveredOne
<1>3. CASE ~(block.end <= x.start \/ block.start >= x.end)
  <2>1. Pieces(x, block) = left \o right
    BY <1>3 DEF Pieces
  <2>2. before \in Intervals /\ after \in Intervals
    BY <1>1 DEF Intervals, Smaller, Larger
  <2>3. /\ left \in Seq(Intervals) /\ AllNonEmpty(left)
        /\ Covered(left) = {m \in Instants(x) : m < block.start}
    <3>1. CASE block.start > x.start
      <4>1. NonEmpty(before)
        BY <1>1, <1>3, <3>1 DEF NonEmpty, Smaller
      <4>2. Instants(before) = {m \in Instants(x) : m < block.start}
        BY <1>1, <1>3, <2>2, <3>1, InstantsOf DEF Smaller
      <4> QED
        BY <2>2, <3>1, <4>1, <4>2, CoveredOne
    <3>2. CASE ~(block.start > x.start)
      <4>1. \A m \in Instants(x) : ~(m < block.start)
        BY <1>1, <1>a, <3>2
      <4> QED
        BY <3>2, <4>1, CoveredNone
    <3> QED
      BY <3>1, <3>2
  <2>4. /\ right \in Seq(Intervals) /\ AllNonEmpty(right)
        /\ Covered(right) = {m \in Instants(x) : m >= block.end}
    <3>1. CASE block.end < x.end
      <4>1. NonEmpty(after)
        BY <1>1, <1>3, <3>1 DEF NonEmpty, Larger
      <4>2. Instants(after) = {m \in Instants(x) : m >= block.end}
        BY <1>1, <1>3, <2>2, <3>1, InstantsOf DEF Larger
      <4> QED
        BY <2>2, <3>1, <4>1, <4>2, CoveredOne
    <3>2. CASE ~(block.end < x.end)
      <4>1. \A m \in Instants(x) : ~(m >= block.end)
        BY <1>1, <1>a, <3>2
      <4> QED
        BY <3>2, <4>1, CoveredNone
    <3> QED
      BY <3>1, <3>2
  <2> HIDE DEF left, right
  <2>5. {m \in Instants(x) : m < block.start} \cup
        {m \in Instants(x) : m >= block.end} = Instants(x) \ Instants(block)
    <3>1. \A m \in Instants(x) :
            m < block.start \/ m >= block.end <=> m \notin Instants(block)
      BY <1>1, <1>a, <1>b
    <3> QED
      BY <3>1
  <2> QED
    BY <2>1, <2>3, <2>4, <2>5, CoveredConcat
<1> QED
  BY <1>2, <1>3

LEMMA UpToNext ==
  ASSUME NEW s \in Seq(Intervals), NEW n \in 1..Len(s)
  PROVE  UpTo(s, n) = UpTo(s, n - 1) \cup Instants(s[n])
<1>1. 1..n = 1..(n - 1) \cup {n}
  OBVIOUS
<1> QED
  BY <1>1 DEF UpTo

LEMMA UpToEnds ==
  ASSUME NEW s \in Seq(Intervals)
  PROVE  /\ UpTo(s, 0) = {}
         /\ UpTo(s, Len(s)) = Covered(s)
<1>1. 1..0 = {} /\ DOMAIN s = 1..Len(s)
  OBVIOUS
<1> QED
  BY <1>1 DEF UpTo, Covered

\* Sorting moves intervals about and keeps what they cover.  Intervals that
\* lie apart in some order lie apart in that of their starts.
LEMMA SortedKeeps ==
  ASSUME NEW s \in Seq(Intervals), NEW t \in Sorted(s)
  PROVE  /\ t \in Seq(Intervals)
         /\ Len(t) = Len(s)
         /\ Covered(t) = Covered(s)
         /\ AllNonEmpty(s) => AllNonEmpty(t)
         /\ Rising(t)
         /\ AllNonEmpty(s) /\ Apart(s) => Apart(t)
<1>1. PICK p \in Surjection(DOMAIN s, DOMAIN s) :
        /\ \A a, b \in DOMAIN s : a < b => Before(s, p[a], p[b])
        /\ t = [i \in DOMAIN s |-> s[p[i]]]
  BY DEF Sorted
<1>2. /\ p \in [DOMAIN s -> DOMAIN s]
      /\ \A w \in DOMAIN s : \E v \in DOMAIN s : p[v] = w
  BY DEF Surjection
<1>3. DOMAIN s = 1..Len(s) /\ Len(s) \in Nat
  OBVIOUS
<1>4. t \in [1..Len(s) -> Intervals]
  <2>1. \A i \in DOMAIN s : s[p[i]] \in Intervals
    BY <1>2, MemberTypes
  <2> QED
    BY <1>1, <1>3, <2>1
<1>5. t \in Seq(Intervals) /\ Len(t) = Len(s) /\ DOMAIN t = DOMAIN s
  BY <1>3, <1>4
<1>6. \A i \in DOMAIN s : p[i] \in DOMAIN s /\ t[i] = s[p[i]]
  BY <1>1, <1>2
<1>7. Covered(t) = Covered(s)
  BY <1>2, <1>5, <1>6 DEF Covered
<1>8. AllNonEmpty(s) => AllNonEmpty(t)
  BY <1>5, <1>6 DEF AllNonEmpty
<1>9. Rising(t)
  <2> SUFFICES ASSUME NEW a \in DOMAIN t, NEW b \in DOMAIN t, a < b
               PROVE  t[a].start <= t[b].start
    BY DEF Rising
  <2>1. Before(s, p[a], p[b])
    BY <1>1, <1>5
  <2>2. s[p[a]].start \in Int /\ s[p[b]].start \in Int
    BY <1>5, <1>6, MemberTypes
  <2> QED
    BY <1>5, <1>6, <2>1, <2>2 DEF Before
<1>10. ASSUME AllNonEmpty(s), Apart(s) PROVE Apart(t)
  <2> SUFFICES ASSUME NEW a \in DOMAIN t, NEW b \in DOMAIN t, a < b
               PROVE  t[a].end < t[b].start
    BY DEF Apart
  <2>1. Before(s, p[a], p[b])
    BY <1>1, <1>5
  <2>2. p[a] \in 1..Len(s) /\ p[b] \in 1..Len(s)
    BY <1>3, <1>5, <1>6
  <2>3. /\ s[p[a]].start \in Int /\ s[p[b]].start \in Int
        /\ s[p[a]].end \in Int /\ s[p[b]].end \in Int
    BY <1>3, <2>2, MemberTypes
  <2>4. /\ s[p[a]].start < s[p[a]].end
        /\ s[p[b]].start < s[p[b]].end
    BY <1>3, <1>10, <2>2, <2>3 DEF AllNonEmpty, NonEmpty
  <2>5. p[a] # p[b] /\ s[p[a]].start <= s[p[b]].start
    BY <2>1, <2>2, <2>3 DEF Before
  <2>6. ~(p[b] < p[a])
    <3> SUFFICES ASSUME p[b] < p[a] PROVE FALSE
      OBVIOUS
    <3>1. s[p[b]].end < s[p[a]].start
      BY <1>3, <1>10, <2>2 DEF Apart
    <3> QED
      BY <2>3, <2>4, <2>5, <3>1
  <2>7. p[a] < p[b]
    BY <2>2, <2>5, <2>6
  <2>8. s[p[a]].end < s[p[b]].start
    BY <1>3, <1>10, <2>2, <2>7 DEF Apart
  <2> QED
    BY <1>5, <1>6, <2>8
<1> QED
  BY <1>5, <1>7, <1>8, <1>9, <1>10

-----------------------------------------------------------------------------
(* The loops *)

Types ==
  /\ free \in Seq(Intervals)
  /\ busy \in Seq(Intervals)
  /\ stage \in {"filter", "subtract", "merge", "returned"}
  /\ result \in Seq(Intervals)
  /\ j \in 1..(Len(result) + 1)
  /\ k \in 1..(Len(busy) + 1)
  /\ built \in Seq(Intervals)

\* What an inner loop has built covers what it has gone through, less the
\* block it takes away.
LoopCovers ==
  /\ stage = "filter" => k = 1 /\ Covered(built) = UpTo(result, j - 1)
  /\ stage = "subtract" =>
       IF k <= Len(busy) /\ NonEmpty(busy[k])
       THEN Covered(built) = UpTo(result, j - 1) \ Instants(busy[k])
       ELSE j = 1 /\ built = <<>>
  /\ stage = "merge" =>
       k = Len(busy) + 1 /\ Covered(built) = UpTo(result, j - 1)
  /\ stage = "returned" => k = Len(busy) + 1

NoneEmpty ==
  /\ AllNonEmpty(built)
  /\ stage # "filter" => AllNonEmpty(result)

\* mergeIntervals goes through intervals by start, and what it has built lies
\* apart; all that is to come starts after the last of it does.
MergeOrder ==
  /\ stage = "merge" =>
       /\ Rising(result)
       /\ Apart(built)
       /\ built # <<>> =>
            \A i \in j..Len(result) :
              built[Len(built)].start <= result[i].start
  /\ stage = "returned" => Apart(result)

LoopInvariant ==
  /\ Types
  /\ LoopCovers
  /\ NoneEmpty
  /\ MergeOrder
  /\ SubtractsExactly

LEMMA InitHasInvariant == Init => LoopInvariant
<1> SUFFICES ASSUME Init PROVE LoopInvariant
  OBVIOUS
<1>1. free \in Seq(Intervals) /\ busy \in Seq(Intervals)
  <2>1. ASSUME NEW n \in 0..MaxIntervals
        PROVE  [1..n -> Intervals] \subseteq Seq(Intervals)
    BY IntervalsAssumption
  <2> QED
    BY <2>1 DEF Init
<1>2. Types
  BY <1>1, CoveredNone DEF Init, Types
<1>3. LoopCovers /\ NoneEmpty /\ MergeOrder
  <2>1. /\ stage = "filter" /\ k = 1 /\ j - 1 = 0 /\ built = <<>>
        /\ result \in Seq(Intervals)
    BY <1>1 DEF Init
  <2> QED
    BY <2>1, CoveredNone, UpToEnds DEF LoopCovers, NoneEmpty, MergeOrder
<1>4. SubtractsExactly
  <2>1. 1..(k - 1) = {} /\ result = free
    BY DEF Init
  <2> QED
    BY <2>1 DEF SubtractsExactly
<1> QED
  BY <1>2, <1>3, <1>4 DEF LoopInvariant

LEMMA FilterKeeps ==
  ASSUME LoopInvariant, Filter
  PROVE  LoopInvariant'
<1> USE DEF LoopInvariant
<1>1. /\ stage = "filter" /\ stage' = stage
      /\ j \in 1..Len(result) /\ j' = j + 1 /\ k' = k
      /\ free' = free /\ busy' = busy /\ result' = result
  BY DEF Filter, Turn, Types
<1>2. result[j] \in Intervals /\ result \in Seq(Intervals)
  BY <1>1 DEF Types
<1>3. UpTo(result, j) = UpTo(result, j - 1) \cup Instants(result[j])
  BY <1>1, UpToNext DEF Types
<1>4. /\ built' \in Seq(Intervals)
      /\ Covered(built') = UpTo(result, j)
      /\ AllNonEmpty(built')
  <2>1. CASE NonEmpty(result[j])
    <3>1. built' = Append(built, result[j])
      BY <2>1 DEF Filter
    <3>2. AllNonEmpty(Append(built, result[j]))
      BY <1>2, <2>1 DEF Types, NoneEmpty, AllNonEmpty
    <3> QED
      BY <1>1, <1>2, <1>3, <3>1, <3>2, CoveredAppend DEF Types, LoopCovers
  <2>2. CASE ~NonEmpty(result[j])
    <3>1. built' = built
      BY <2>2 DEF Filter
    <3>2. result[j].start \in Int /\ result[j].end \in Int
      BY <1>1, <1>2, MemberTypes
    <3>3. Instants(result[j]) = {}
      BY <2>2, <3>2 DEF Instants, NonEmpty
    <3> QED
      BY <1>1, <1>3, <3>1, <3>3 DEF Types, LoopCovers, NoneEmpty
  <2> QED
    BY <2>1, <2>2
<1>5. Types'
  BY <1>1, <1>4 DEF Types
<1>6. LoopCovers'
  BY <1>1, <1>4 DEF LoopCovers, Types
<1>7. NoneEmpty' /\ MergeOrder'
  BY <1>1, <1>4 DEF NoneEmpty, MergeOrder
<1>8. SubtractsExactly'
  BY <1>1 DEF SubtractsExactly
<1> QED
  BY <1>5, <1>6, <1>7, <1>8

LEMMA FilteredKeeps ==
  ASSUME LoopInvariant, Filtered
  PROVE  LoopInvariant'
<1> USE DEF LoopInvariant
<1>1. /\ stage = "filter" /\ stage' = "subtract"
      /\ j = Len(result) + 1 /\ j' = 1 /\ k' = k /\ k = 1
      /\ free' = free /\ busy' = busy /\ result' = built /\ built' = <<>>
  BY DEF Filtered, Through, LoopCovers
<1>2. Covered(built) = Covered(result)
  BY <1>1, UpToEnds DEF LoopCovers, Types
<1>3. Types'
  BY <1>1, CoveredNone DEF Types
<1>4. LoopCovers'
  BY <1>1, <1>3, CoveredNone, UpToEnds DEF LoopCovers, Types
<1>5. NoneEmpty' /\ MergeOrder'
  BY <1>1, CoveredNone DEF NoneEmpty, MergeOrder
<1>6. SubtractsExactly'
  BY <1>1, <1>2 DEF SubtractsExactly
<1> QED
  BY <1>3, <1>4, <1>5, <1>6

\* Taking away one block more.
LEMMA OneBlockMore ==
  ASSUME Types
  PROVE  k <= Len(busy) =>
           UNION {Instants(busy[i]) : i \in 1..((k + 1) - 1)} =
             (UNION {Instants(busy[i]) : i \in 1..(k - 1)})
               \cup Instants(busy[k])
<1> SUFFICES ASSUME k <= Len(busy)
             PROVE  UpTo(busy, (k + 1) - 1) =
                      UpTo(busy, k - 1) \cup Instants(busy[k])
  BY DEF UpTo
<1>1. k \in 1..Len(busy) /\ (k + 1) - 1 = k
  BY DEF Types
<1> QED
  BY <1>1, UpToNext DEF Types

LEMMA SkipBlockKeeps ==
  ASSUME LoopInvariant, SkipBlock
  PROVE  LoopInvariant'
<1> USE DEF LoopInvariant
<1>1. /\ stage = "subtract" /\ stage' = stage
      /\ k \in 1..Len(busy) /\ k' = k + 1 /\ ~NonEmpty(busy[k])
      /\ free' = free /\ busy' = busy /\ result' = result /\ built' = built
      /\ j' = j
  BY DEF SkipBlock, Taking, Types
<1>2. j = 1 /\ built = <<>>
  BY <1>1 DEF LoopCovers
<1>3. Instants(busy[k]) = {}
  <2>1. busy[k].start \in Int /\ busy[k].end \in Int
    BY <1>1, MemberTypes DEF Types
  <2> QED
    BY <1>1, <2>1 DEF Instants, NonEmpty
<1>4. Types'
  BY <1>1 DEF Types
<1>5. LoopCovers'
  BY <1>1, <1>2, <1>4, CoveredNone, UpToEnds DEF LoopCovers, Types
<1>6. NoneEmpty' /\ MergeOrder'
  BY <1>1 DEF NoneEmpty, MergeOrder
<1>7. SubtractsExactly'
  BY <1>1, <1>3, OneBlockMore DEF SubtractsExactly
<1> QED
  BY <1>4, <1>5, <1>6, <1>7

LEMMA TakeIntervalKeeps ==
  ASSUME LoopInvariant, TakeInterval
  PROVE  LoopInvariant'
<1> USE DEF LoopInvariant
<1>1. /\ stage = "subtract" /\ stage' = stage
      /\ j \in 1..Len(result) /\ j' = j + 1 /\ k' = k
      /\ k \in 1..Len(busy) /\ NonEmpty(busy[k])
      /\ free' = free /\ busy' = busy /\ result' = result
      /\ built' = built \o Pieces(result[j], busy[k])
  BY DEF TakeInterval, Taking, Turn, Types
<1>2. /\ result[j] \in Intervals /\ busy[k] \in Intervals
      /\ NonEmpty(result[j])
  BY <1>1 DEF Types, NoneEmpty, AllNonEmpty
<1>3. UpTo(result, j) = UpTo(result, j - 1) \cup Instants(result[j])
  BY <1>1, UpToNext DEF Types
<1>4. /\ Pieces(result[j], busy[k]) \in Seq(Intervals)
      /\ Covered(Pieces(result[j], busy[k])) =
           Instants(result[j]) \ Instants(busy[k])
      /\ AllNonEmpty(Pieces(result[j], busy[k]))
  BY <1>1, <1>2, PiecesAreDifference
<1>5. /\ built' \in Seq(Intervals)
      /\ Covered(built') =
           Covered(built) \cup Covered(Pieces(result[j], busy[k]))
      /\ AllNonEmpty(built')
  BY <1>1, <1>4, CoveredConcat DEF Types, NoneEmpty
<1>6. Covered(built') = UpTo(result, j) \ Instants(busy[k])
  BY <1>1, <1>3, <1>4, <1>5 DEF LoopCovers
<1>7. Types'
  BY <1>1, <1>5 DEF Types
<1>8. LoopCovers'
  BY <1>1, <1>6 DEF LoopCovers, Types
<1>9. NoneEmpty' /\ MergeOrder'
  BY <1>1, <1>5 DEF NoneEmpty, MergeOrder
<1>10. SubtractsExactly'
  BY <1>1 DEF SubtractsExactly
<1> QED
  BY <1>7, <1>8, <1>9, <1>10

LEMMA TakenBlockKeeps ==
  ASSUME LoopInvariant, TakenBlock
  PROVE  LoopInvariant'
<1> USE DEF LoopInvariant
<1>1. /\ stage = "subtract" /\ stage' = stage
      /\ j = Len(result) + 1 /\ j' = 1
      /\ k \in 1..Len(busy) /\ k' = k + 1 /\ NonEmpty(busy[k])
      /\ free' = free /\ busy' = busy /\ result' = built /\ built' = <<>>
  BY DEF TakenBlock, Taking, Through, Types
<1>2. Covered(built) = Covered(result) \ Instants(busy[k])
  BY <1>1, UpToEnds DEF LoopCovers, Types
<1>3. Types'
  BY <1>1, CoveredNone DEF Types
<1>4. LoopCovers'
  BY <1>1, <1>3, CoveredNone, UpToEnds DEF LoopCovers, Types
<1>5. NoneEmpty' /\ MergeOrder'
  BY <1>1, CoveredNone DEF NoneEmpty, MergeOrder
<1>6. SubtractsExactly'
  BY <1>1, <1>2, OneBlockMore DEF SubtractsExactly
<1> QED
  BY <1>3, <1>4, <1>5, <1>6

LEMMA SortKeeps ==
  ASSUME LoopInvariant, Sort
  PROVE  LoopInvariant'
<1> USE DEF LoopInvariant
<1>1. /\ stage = "subtract" /\ stage' = "merge"
      /\ k = Len(busy) + 1 /\ k' = k /\ j' = j
      /\ free' = free /\ busy' = busy /\ built' = built
      /\ result' \in Sorted(result)
  BY DEF Sort
<1>2. j = 1 /\ built = <<>>
  BY <1>1 DEF LoopCovers, Types
<1>3. /\ result' \in Seq(Intervals) /\ Len(result') = Len(result)
      /\ Covered(result') = Covered(result)
      /\ AllNonEmpty(result) => AllNonEmpty(result')
      /\ Rising(result')
  BY <1>1, SortedKeeps DEF Types
<1>4. Types'
  BY <1>1, <1>3 DEF Types
<1>5. LoopCovers'
  <2>1. j' - 1 = 0 /\ built' = <<>> /\ k' = Len(busy') + 1
    BY <1>1, <1>2
  <2>2. UpTo(result', 0) = {}
    BY <1>3, UpToEnds
  <2> QED
    BY <1>1, <2>1, <2>2, CoveredNone DEF LoopCovers
<1>6. NoneEmpty' /\ MergeOrder'
  BY <1>1, <1>2, <1>3, CoveredNone DEF NoneEmpty, MergeOrder
<1>7. SubtractsExactly'
  BY <1>1, <1>3 DEF SubtractsExactly
<1> QED
  BY <1>4, <1>5, <1>6, <1>7

\* mergeIntervals: an interval that touches the last one lengthens it.
LEMMA Lengthened ==
  ASSUME NEW s \in Seq(Intervals), s # <<>>, NEW x \in Intervals,
         AllNonEmpty(s), Apart(s), NonEmpty(x),
         s[Len(s)].start <= x.start, x.start <= s[Len(s)].end,
         NEW t, t = Lengthen(s, x)
  PROVE  /\ t \in Seq(Intervals) /\ t # <<>> /\ Len(t) = Len(s)
         /\ t[Len(t)].start = s[Len(s)].start
         /\ Covered(t) = Covered(s) \cup Instants(x)
         /\ AllNonEmpty(t) /\ Apart(t)
<1> DEFINE n == Len(s)
           longer == [start |-> s[n].start, end |-> Larger(s[n].end, x.end)]
<1>1. n \in Nat /\ n >= 1 /\ DOMAIN s = 1..n /\ n \in DOMAIN s
  OBVIOUS
<1> HIDE DEF n
<1>2. /\ s[n] \in Intervals
      /\ s[n].start \in Minutes /\ s[n].end \in Minutes
      /\ s[n].start \in Int /\ s[n].end \in Int
  BY <1>1, MemberTypes
<1>3. x.end \in Minutes /\ x.start \in Int /\ x.end \in Int
  BY IntervalsAssumption DEF Intervals, Minutes
<1>4. longer \in Intervals
  BY <1>2, <1>3 DEF Intervals, Larger
<1>5. t = [s EXCEPT ![n] = longer]
  <2>1. s[n] = [start |-> s[n].start, end |-> s[n].end]
    BY <1>2 DEF Intervals
  <2>2. [s[n] EXCEPT !.end = Larger(s[n].end, x.end)] = longer
    BY <2>1
  <2> QED
    BY <2>2 DEF n, Lengthen
<1>6. /\ t \in Seq(Intervals) /\ Len(t) = n /\ DOMAIN t = 1..n
      /\ t[n] = longer
      /\ \A i \in 1..n : i # n => t[i] = s[i]
  <2> HIDE DEF longer
  <2>1. /\ t \in Seq(Intervals) /\ Len(t) = Len(s)
        /\ \A i \in 1..Len(s) : t[i] = IF i = n THEN longer ELSE s[i]
    BY <1>1, <1>4, <1>5, ExceptSeq DEF n
  <2>2. DOMAIN t = 1..Len(t)
    BY <2>1
  <2> QED
    BY <1>1, <2>1, <2>2 DEF n
<1>7. s[n].start < s[n].end /\ x.start < x.end
  BY <1>1 DEF AllNonEmpty, NonEmpty
<1>8. Instants(longer) = Instants(s[n]) \cup Instants(x)
  <2>1. \A m : m \in Instants(s[n])
               <=> m \in Int /\ s[n].start <= m /\ m < s[n].end
    BY <1>2, InstantsOf
  <2>2. \A m : m \in Instants(x) <=> m \in Int /\ x.start <= m /\ m < x.end
    BY InstantsOf
  <2>3. \A m : m \in Instants(longer)
               <=> /\ m \in Int /\ s[n].start <= m
                   /\ m < Larger(s[n].end, x.end)
    BY <1>4, InstantsOf
  <2>4. s[n].start <= x.start /\ x.start <= s[n].end
    BY DEF n
  <2> QED
    BY <1>2, <1>3, <1>7, <2>1, <2>2, <2>3, <2>4 DEF Larger
<1>9. Covered(t) = Covered(s) \cup Instants(x)
  <2>1. Covered(t) = UpTo(t, n - 1) \cup Instants(longer)
    BY <1>1, <1>6, UpToEnds, UpToNext
  <2>2. Covered(s) = UpTo(s, n - 1) \cup Instants(s[n])
    BY <1>1, UpToEnds, UpToNext DEF n
  <2>3. UpTo(t, n - 1) = UpTo(s, n - 1)
    BY <1>1, <1>6 DEF UpTo
  <2> QED
    BY <1>8, <2>1, <2>2, <2>3
<1>10. AllNonEmpty(t)
  <2>1. NonEmpty(longer)
    BY <1>2, <1>3, <1>7 DEF NonEmpty, Larger
  <2> QED
    BY <1>1, <1>6, <2>1 DEF AllNonEmpty
<1>11. Apart(t)
  <2> SUFFICES ASSUME NEW a \in 1..n, NEW b \in 1..n, a < b
               PROVE  t[a].end < t[b].start
    BY <1>6 DEF Apart
  <2>1. s[a].end < s[b].start
    BY <1>1 DEF Apart
  <2>2. t[a] = s[a] /\ t[b].start = s[b].start
    BY <1>1, <1>6
  <2> QED
    BY <2>1, <2>2
<1>12. t # <<>> /\ Len(t) = Len(s) /\ t[Len(t)].start = s[Len(s)].start
  <2>1. t[n].start = s[n].start
    BY <1>6
  <2>2. t # <<>>
    BY <1>1, <1>6
  <2> QED
    BY <1>6, <2>1, <2>2 DEF n
<1> QED
  BY <1>6, <1>9, <1>10, <1>11, <1>12

\* One that does not begins after the last one ends.
LEMMA Lined ==
  ASSUME NEW s \in Seq(Intervals), NEW x \in Intervals,
         AllNonEmpty(s), Apart(s), NonEmpty(x),
         s # <<>> => s[Len(s)].end < x.start,
         NEW t, t = Append(s, x)
  PROVE  /\ t \in Seq(Intervals) /\ t # <<>>
         /\ t[Len(t)] = x
         /\ Covered(t) = Covered(s) \cup Instants(x)
         /\ AllNonEmpty(t) /\ Apart(t)
<1> DEFINE n == Len(s)
<1>1. /\ n \in Nat /\ DOMAIN s = 1..n
      /\ t \in Seq(Intervals) /\ Len(t) = n + 1 /\ DOMAIN t = 1..(n + 1)
      /\ t[n + 1] = x
      /\ \A i \in 1..n : t[i] = s[i]
  OBVIOUS
<1>2. AllNonEmpty(t)
  BY <1>1 DEF AllNonEmpty
<1>3. Apart(t)
  <2> SUFFICES ASSUME NEW a \in 1..(n + 1), NEW b \in 1..(n + 1), a < b
               PROVE  t[a].end < t[b].start
    BY <1>1 DEF Apart
  <2>1. a \in 1..n /\ t[a] = s[a]
    BY <1>1
  <2>2. CASE b \in 1..n
    BY <1>1, <2>1, <2>2 DEF Apart
  <2>3. CASE b = n + 1
    <3>1. n >= 1 /\ s # <<>>
      BY <1>1, <2>1
    <3>2. s[n].end < x.start
      BY <3>1
    <3>3. n \in DOMAIN s /\ a \in DOMAIN s
      BY <1>1, <2>1, <3>1
    <3>4. /\ s[n].start \in Int /\ s[n].end \in Int /\ s[a].end \in Int
          /\ x.start \in Int
      <4>1. s[n].start \in Int /\ s[n].end \in Int /\ s[a].end \in Int
        BY <3>3, MemberTypes
      <4>2. x.start \in Int
        BY IntervalsAssumption DEF Intervals, Minutes
      <4> QED
        BY <4>1, <4>2
    <3>5. s[n].start < s[n].end
      BY <3>3, <3>4 DEF AllNonEmpty, NonEmpty
    <3>6. a = n \/ s[a].end < s[n].start
      BY <1>1, <2>1, <3>3 DEF Apart
    <3>7. s[a].end < x.start
      BY <3>2, <3>4, <3>5, <3>6
    <3> QED
      BY <1>1, <2>1, <2>3, <3>7
  <2> QED
    BY <1>1, <2>2, <2>3
<1>4. t # <<>>
  BY <1>1
<1> QED
  BY <1>1, <1>2, <1>3, <1>4, CoveredAppend

LEMMA MergeKeeps ==
  ASSUME LoopInvariant, Merge
  PROVE  LoopInvariant'
<1> USE DEF LoopInvariant
<1> DEFINE touching ==
             built # <<>> /\ Touches(built[Len(built)], result[j])
<1>1. /\ stage = "merge" /\ stage' = stage
      /\ j \in 1..Len(result) /\ j' = j + 1 /\ k' = k
      /\ free' = free /\ busy' = busy /\ result' = result
  BY DEF Merge, Turn, Types
<1>2. /\ result[j] \in Intervals /\ NonEmpty(result[j])
      /\ result \in Seq(Intervals) /\ built \in Seq(Intervals)
      /\ AllNonEmpty(built) /\ Apart(built) /\ Rising(result)
      /\ k = Len(busy) + 1 /\ Covered(built) = UpTo(result, j - 1)
  BY <1>1 DEF Types, NoneEmpty, AllNonEmpty, MergeOrder, LoopCovers
<1>3. UpTo(result, j) = UpTo(result, j - 1) \cup Instants(result[j])
  BY <1>1, <1>2, UpToNext
<1>4. result[j].start \in Int /\ result[j].end \in Int
  BY <1>1, <1>2, MemberTypes
<1>5. /\ built' \in Seq(Intervals) /\ built' # <<>>
      /\ built'[Len(built')].start <= result[j].start
      /\ Covered(built') = Covered(built) \cup Instants(result[j])
      /\ AllNonEmpty(built') /\ Apart(built')
  <2>1. CASE touching
    <3>1. /\ built # <<>> /\ built[Len(built)].start <= result[j].start
          /\ result[j].start <= built[Len(built)].end
      BY <1>1, <2>1 DEF MergeOrder, Touches
    <3>2. PICK t : t = Lengthen(built, result[j])
      OBVIOUS
    <3>3. built' = t
      BY <2>1, <3>2 DEF Merge
    <3>4. /\ t \in Seq(Intervals) /\ t # <<>> /\ Len(t) = Len(built)
          /\ t[Len(t)].start = built[Len(built)].start
          /\ Covered(t) = Covered(built) \cup Instants(result[j])
          /\ AllNonEmpty(t) /\ Apart(t)
      BY <1>2, <3>1, <3>2, Lengthened
    <3> QED
      BY <3>1, <3>3, <3>4
  <2>2. CASE ~touching
    <3>1. ASSUME built # <<>>
          PROVE  built[Len(built)].end < result[j].start
      <4>1. Len(built) \in DOMAIN built
        BY <1>2, <3>1
      <4>2. built[Len(built)].end \in Int
        BY <1>2, <4>1, MemberTypes
      <4>3. ~(result[j].start <= built[Len(built)].end)
        BY <2>2, <3>1 DEF Touches
      <4> QED
        BY <1>4, <4>2, <4>3
    <3>2. PICK t : t = Append(built, result[j])
      OBVIOUS
    <3>3. built' = t
      BY <2>2, <3>2 DEF Merge
    <3>4. /\ t \in Seq(Intervals) /\ t # <<>>
          /\ t[Len(t)] = result[j]
          /\ Covered(t) = Covered(built) \cup Instants(result[j])
          /\ AllNonEmpty(t) /\ Apart(t)
      BY <1>2, <3>1, <3>2, Lined
    <3> QED
      BY <1>4, <3>3, <3>4
  <2> QED
    BY <2>1, <2>2
<1>6. Types'
  BY <1>1, <1>5 DEF Types
<1>7. LoopCovers'
  BY <1>1, <1>2, <1>3, <1>5 DEF LoopCovers
<1>8. NoneEmpty'
  BY <1>1, <1>5 DEF NoneEmpty
<1>9. MergeOrder'
  <2>1. ASSUME NEW i \in (j + 1)..Len(result)
        PROVE  built'[Len(built')].start <= result[i].start
    <3>1. i \in DOMAIN result /\ j \in DOMAIN result /\ j < i
      BY <1>1, <1>2
    <3>2. result[j].start <= result[i].start
      BY <1>2, <3>1 DEF Rising
    <3>3. Len(built') \in DOMAIN built'
      BY <1>5
    <3>4. built'[Len(built')].start \in Int /\ result[i].start \in Int
      BY <1>2, <1>5, <3>1, <3>3, MemberTypes
    <3> QED
      BY <1>4, <1>5, <3>2, <3>4
  <2> QED
    BY <1>1, <1>2, <1>5, <2>1 DEF MergeOrder
<1>10. SubtractsExactly'
  BY <1>1 DEF SubtractsExactly
<1> QED
  BY <1>6, <1>7, <1>8, <1>9, <1>10

LEMMA ReturnKeeps ==
  ASSUME LoopInvariant, Return
  PROVE  LoopInvariant'
<1> USE DEF LoopInvariant
<1>1. /\ stage = "merge" /\ stage' = "returned"
      /\ j = Len(result) + 1 /\ j' = 1 /\ k' = k /\ k = Len(busy) + 1
      /\ free' = free /\ busy' = busy /\ built' = <<>>
      /\ result' \in Sorted(built)
  BY DEF Return, Through, LoopCovers
<1>2. Covered(built) = Covered(result)
  BY <1>1, UpToEnds DEF LoopCovers, Types
<1>3. /\ result' \in Seq(Intervals)
      /\ Covered(result') = Covered(result)
      /\ AllNonEmpty(result') /\ Apart(result')
  BY <1>1, <1>2, SortedKeeps DEF Types, NoneEmpty, MergeOrder
<1>4. Types'
  BY <1>1, <1>3, CoveredNone DEF Types
<1>5. LoopCovers' /\ NoneEmpty' /\ MergeOrder'
  BY <1>1, <1>3, CoveredNone DEF LoopCovers, NoneEmpty, MergeOrder
<1>6. SubtractsExactly'
  BY <1>1, <1>3 DEF SubtractsExactly
<1> QED
  BY <1>4, <1>5, <1>6

LEMMA StutterKeepsLoops ==
  ASSUME LoopInvariant, UNCHANGED intervalVars
  PROVE  LoopInvariant'
BY DEF LoopInvariant, Types, LoopCovers, NoneEmpty, MergeOrder,
       SubtractsExactly, intervalVars

LEMMA LoopsKeepInvariant == LoopInvariant /\ [Next]_intervalVars => LoopInvariant'
<1> SUFFICES ASSUME LoopInvariant, [Next]_intervalVars PROVE LoopInvariant'
  OBVIOUS
<1>1. CASE Filter BY <1>1, FilterKeeps
<1>2. CASE Filtered BY <1>2, FilteredKeeps
<1>3. CASE SkipBlock BY <1>3, SkipBlockKeeps
<1>4. CASE TakeInterval BY <1>4, TakeIntervalKeeps
<1>5. CASE TakenBlock BY <1>5, TakenBlockKeeps
<1>6. CASE Sort BY <1>6, SortKeeps
<1>7. CASE Merge BY <1>7, MergeKeeps
<1>8. CASE Return BY <1>8, ReturnKeeps
<1>9. CASE UNCHANGED intervalVars BY <1>9, StutterKeepsLoops
<1> QED
  BY <1>1, <1>2, <1>3, <1>4, <1>5, <1>6, <1>7, <1>8, <1>9 DEF Next

LEMMA LoopsAlways == Spec => []LoopInvariant
<1> QED
  BY InitHasInvariant, LoopsKeepInvariant, PTL DEF Spec

-----------------------------------------------------------------------------
(* What subtractIntervals returns *)

\* The free minutes less the busy ones, at every turn of its loops, for lists
\* of any length.
THEOREM SubtractionIsExact == Spec => []SubtractsExactly
<1>1. LoopInvariant => SubtractsExactly
  BY DEF LoopInvariant
<1> QED
  BY <1>1, LoopsAlways, PTL

\* Slots in order, apart from each other and none of them empty.
THEOREM SlotsComeInOrder == Spec => []SlotsInOrder
<1>1. LoopInvariant => SlotsInOrder
  <2> SUFFICES ASSUME LoopInvariant, stage = "returned"
               PROVE  /\ \A i \in DOMAIN result :
                           result[i].start < result[i].end
                      /\ Apart(result)
    BY DEF SlotsInOrder, Apart
  <2>1. AllNonEmpty(result) /\ Apart(result) /\ result \in Seq(Intervals)
    BY DEF LoopInvariant, NoneEmpty, MergeOrder, Types
  <2>2. ASSUME NEW i \in DOMAIN result
        PROVE  result[i].start < result[i].end
    <3>1. result[i].start \in Int /\ result[i].end \in Int
      BY <2>1, MemberTypes
    <3> QED
      BY <2>1, <3>1 DEF AllNonEmpty, NonEmpty
  <2> QED
    BY <2>1, <2>2
<1> QED
  BY <1>1, LoopsAlways, PTL

\* Free minutes in a row never lie across two slots: the first slot that
\* ends among them would have to touch the next one.
THEOREM FreeHoursFit == Spec => []FitsIffFree
<1>1. LoopInvariant => FitsIffFree
  <2> SUFFICES ASSUME LoopInvariant, stage = "returned",
                      NEW from \in Minutes, NEW to \in Minutes, from < to
               PROVE  (\E i \in DOMAIN result :
                         result[i].start <= from /\ to <= result[i].end)
                      <=> from..(to - 1) \subseteq Covered(free) \ Covered(busy)
    BY DEF FitsIffFree
  <2>1. /\ result \in Seq(Intervals) /\ AllNonEmpty(result)
        /\ Apart(result) /\ busy \in Seq(Intervals) /\ k = Len(busy) + 1
    BY DEF LoopInvariant, Types, NoneEmpty, MergeOrder, LoopCovers
  <2>2. Covered(result) = Covered(free) \ Covered(busy)
    <3>1. 1..(k - 1) = DOMAIN busy
      BY <2>1
    <3> QED
      BY <3>1 DEF LoopInvariant, SubtractsExactly, Covered
  <2>3. from \in Int /\ to \in Int
    BY IntervalsAssumption DEF Minutes
  <2>4. ASSUME NEW i \in DOMAIN result
        PROVE  /\ result[i].start \in Int /\ result[i].end \in Int
               /\ \A m : m \in Instants(result[i])
                     <=> /\ m \in Int
                         /\ result[i].start <= m /\ m < result[i].end
    BY <2>1, MemberTypes, InstantsOf
  <2>5. ASSUME NEW i \in DOMAIN result,
               result[i].start <= from, to <= result[i].end
        PROVE  from..(to - 1) \subseteq Covered(result)
    <3>1. from..(to - 1) \subseteq Instants(result[i])
      BY <2>3, <2>4, <2>5
    <3> QED
      BY <3>1 DEF Covered
  <2>6. ASSUME from..(to - 1) \subseteq Covered(result)
        PROVE  \E i \in DOMAIN result :
                 result[i].start <= from /\ to <= result[i].end
    <3>1. from \in Covered(result)
      BY <2>3, <2>6
    <3>2. PICK a \in DOMAIN result : from \in Instants(result[a])
      BY <3>1 DEF Covered
    <3>3. /\ result[a].start \in Int /\ result[a].end \in Int
          /\ result[a].start <= from /\ from < result[a].end
      BY <2>4, <3>2
    <3>4. to <= result[a].end
      <4> SUFFICES ASSUME ~(to <= result[a].end) PROVE FALSE
        OBVIOUS
      <4>1. result[a].end \in from..(to - 1)
        BY <2>3, <3>3
      <4>2. PICK b \in DOMAIN result : result[a].end \in Instants(result[b])
        BY <2>6, <4>1 DEF Covered
      <4>3. /\ result[b].start \in Int /\ result[b].end \in Int
            /\ result[b].start <= result[a].end
            /\ result[a].end < result[b].end
        BY <2>4, <4>2
      <4>4. a \in Int /\ b \in Int
        BY <2>1
      <4>5. ~(a < b) /\ a # b
        BY <2>1, <3>3, <4>3 DEF Apart
      <4>6. b < a
        BY <4>4, <4>5
      <4>7. result[b].end < result[a].start
        BY <2>1, <4>6 DEF Apart
      <4> QED
        BY <2>3, <3>3, <4>3, <4>7
    <3> QED
      BY <3>3, <3>4
  <2> QED
    BY <2>2, <2>5, <2>6
<1> QED
  BY <1>1, LoopsAlways, PTL

=============================================================================
