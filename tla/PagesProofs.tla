----------------------------- MODULE PagesProofs ------------------------------
(***************************************************************************)
(* What the browser promises, for any number of users, of flows under way  *)
(* together and of presses, faults and calls from elsewhere.               *)
(*                                                                         *)
(* What a page lets the user do is first reduced to four kinds of step     *)
(* (Moved, Pressed, SignedIn, Crashed).  Session is what holds of the      *)
(* flows while every logout waits for them and every sign-in for the one   *)
(* before it; AloneReads what a flow that has the tab to itself knows of   *)
(* the database; RoomsMade which forms have still to make their room.      *)
(***************************************************************************)
EXTENDS Pages, FiniteSetTheorems, TLAPS

Steps == Calls \cup {"me", "lists", "rest", "wallet", "mark", "clear"} \cup Closings

SignIns == {"login", "register"}

\* A row, flow or database is a record of its fields; of most of them nothing
\* else matters.
IsRow(r) == r = Row(r.what, r.copy, r.owner, r.status)

IsLists(rows) ==
  /\ rows = [s \in Lists |-> rows[s]]
  /\ \A s \in Lists : \A r \in rows[s] : IsRow(r)

IsDb(d) ==
  /\ d = [admins |-> d.admins, balance |-> d.balance, rows |-> d.rows]
  /\ d.admins \subseteq Admins
  /\ IsLists(d.rows)

IsTab(t) ==
  /\ t = [screen |-> t.screen, me |-> t.me, page |-> t.page, guest |-> t.guest, rows |-> t.rows,
          listsFor |-> t.listsFor, credits |-> t.credits, creditsFor |-> t.creditsFor]
  /\ t.rows = [s \in Shown |-> t.rows[s]]

\* The step after x in a plan is y.
Follows(x, y) ==
  /\ x = "me" => y = "lists"
  /\ x = "lists" => y = "rest"
  /\ x = "rest" => y = "wallet"
  /\ x = "wallet" => y \in Closings \cup {"addPhotos"}
  /\ x = "patchMe" => y = "putProfile"
  /\ x = "read" => y = "mark"
  /\ x = "logout" => y = "clear"
  /\ x \in Calls \ {"patchMe", "read", "logout"} => y = "me"
  /\ x \notin Closings \cup {"mark", "clear"}

Chained(plan) == \A i \in 1..(Len(plan) - 1) : Follows(plan[i], plan[i + 1])

\* A plan under way ends with the credits, the marks or the logout, and what
\* closes a page is never left to a step of its own.
IsPlan(plan) ==
  /\ plan \in Seq(Steps)
  /\ Chained(plan)
  /\ plan # <<>> =>
       /\ Head(plan) \notin Closings
       /\ plan[Len(plan)] \in {"wallet", "mark", "clear"} \cup Closings

Formed(f) ==
  /\ f = [op |-> f.op, arg |-> f.arg, form |-> f.form, plan |-> f.plan, as |-> f.as,
          who |-> f.who, for |-> f.for, got |-> f.got, alone |-> f.alone]
  /\ IsPlan(f.plan)
  /\ f.got = [s \in Lists |-> f.got[s]]
  /\ f.alone \in BOOLEAN

\* A flow signs in somebody, and registers an administrator.
IsFlow(f) ==
  /\ Formed(f)
  /\ f.plan # <<>> /\ Head(f.plan) \in SignIns => f.arg \in Users
  /\ f.plan # <<>> /\ Head(f.plan) = "register" => f.arg \in Admins

IsBudget(b) ==
  /\ b = [logins |-> b.logins, presses |-> b.presses,
          faults |-> b.faults, elsewhere |-> b.elsewhere]
  /\ b.faults \in Nat

Shape ==
  /\ IsDb(db)
  /\ IsTab(tab)
  /\ flows = [l \in Lanes |-> flows[l]]
  /\ \A l \in Lanes : IsFlow(flows[l])
  /\ trusted \in BOOLEAN /\ mixed \in BOOLEAN
  /\ saves \in Nat
  /\ IsBudget(budget)

\* The step that the flow of l takes next.
At(l) == Head(flows[l].plan)

Others(l) == \A m \in Lanes : m # l => Idle(m)

-----------------------------------------------------------------------------
(* Rooms, hours and accounts *)

NewRooms(d) == Named(d, "rooms", "added")

Numbered(d, n) ==
  /\ n \in Nat
  /\ NewRooms(d) = {Row("added", i, NoOne, "AVAILABLE") : i \in 1..n}

OneHour(d) == \A r, q \in Live(d) : r = q

OneAccount(d) ==
  \A r, q \in Named(d, "people", "name") : r.owner = Newcomer /\ q.owner = Newcomer => r = q

\* The forms sent with an administrator's tokens, whose room has not been made.
Unmade == {l \in Lanes : ~Idle(l) /\ At(l) = "createRoom" /\ flows[l].as \in Admins}

RoomsMade ==
  \E n \in Nat :
    /\ Numbered(db, n)
    /\ n + Cardinality(Unmade) <= saves
    /\ budget.faults = 0 => n + Cardinality(Unmade) = saves

Intents ==
  /\ OneHour(db)
  /\ OneAccount(db)
  /\ RoomsMade

-----------------------------------------------------------------------------
(* Whose flows these are *)

Unshown ==
  /\ tab.listsFor = NoOne /\ tab.creditsFor = NoOne
  /\ \A s \in Personal : tab.rows[s] = {}

FlowOwned(l) ==
  /\ At(l) \in SignIns \/ flows[l].as = token
  /\ At(l) \in SignIns => tab.me = NoOne /\ tab.screen = "shown" /\ Others(l)
  /\ flows[l].op = "boot" =>
       /\ \A i \in DOMAIN flows[l].plan :
            flows[l].plan[i] \in {"me", "lists", "rest", "wallet", "open"}
       /\ tab.screen = "booting" /\ Others(l)
       /\ At(l) \in {"me", "lists"} => Unshown
  /\ At(l) \in {"lists", "rest", "wallet"} =>
       /\ flows[l].for = token /\ token # NoOne
       /\ tab.screen # "blank" => tab.me = token
  /\ tab.me = NoOne /\ tab.screen = "shown" => At(l) \in SignIns \cup {"me"} /\ Others(l)

Session ==
  ~mixed =>
    /\ tab.me \in {NoOne, token}
    /\ tab.screen = "blank" => tab.me = NoOne
    /\ \A l \in Lanes : ~Idle(l) => FlowOwned(l)
    /\ {tab.listsFor, tab.creditsFor} \subseteq {NoOne, tab.me}
    /\ \A s \in Personal : tab.rows[s] # {} => tab.listsFor # NoOne

-----------------------------------------------------------------------------
(* What a flow that is alone knows *)

AllAllowed(u) == [s \in Lists |-> Allowed(db, u, s)]

Matches ==
  /\ tab.me # NoOne /\ tab.me = token
  /\ tab.rows = Mapped(AllAllowed(tab.me))
  /\ tab.credits = Credits(tab.me, Mapped(AllAllowed(tab.me)))

\* All but the notifications on the screen, which the server has marked.
MatchesUnmarked ==
  /\ tab.me # NoOne /\ tab.me = token
  /\ [tab.rows EXCEPT !.notifications = {[n EXCEPT !.status = "read"] : n \in @}]
       = Mapped(AllAllowed(tab.me))
  /\ tab.credits = Credits(tab.me, Mapped(AllAllowed(tab.me)))

HasRead(l) ==
  /\ flows[l].who = token /\ flows[l].for = token /\ token # NoOne
  /\ tab.screen # "blank" => tab.me = token
  /\ \A s \in Together \cup {"people"} :
       flows[l].got[s] = Allowed(db, token, s)
  /\ At(l) = "wallet" /\ tab.screen # "blank" => tab.rows = Mapped(AllAllowed(token))

AloneReads ==
  \A l \in Lanes : ~Idle(l) /\ flows[l].alone =>
    /\ Others(l)
    /\ At(l) \in SignIns \/ flows[l].as = token
    /\ At(l) \in {"lists", "rest", "wallet"} => HasRead(l)

Faithful ==
  trusted /\ tab.screen = "shown" =>
    /\ Quiet => Matches
    /\ \A l \in Lanes : ~Idle(l) /\ flows[l].alone =>
         /\ At(l) = "read" => Matches
         /\ At(l) = "mark" => MatchesUnmarked

-----------------------------------------------------------------------------
(* Plans *)

LEMMA PlanGoesOn ==
  ASSUME NEW plan, IsPlan(plan), plan # <<>>
  PROVE  /\ Head(plan) = plan[1] /\ Head(plan) \in Steps
         /\ Len(plan) = 1 => Head(plan) \in {"wallet", "mark", "clear"}
         /\ Len(plan) # 1 =>
              /\ Len(plan) > 1
              /\ Tail(plan) # <<>> /\ Head(Tail(plan)) = plan[2]
              /\ Follows(Head(plan), plan[2])
              /\ plan[2] \notin Closings => IsPlan(Tail(plan))
              /\ \A i \in DOMAIN Tail(plan) :
                   i + 1 \in DOMAIN plan /\ Tail(plan)[i] = plan[i + 1]
<1>1. /\ plan \in Seq(Steps) /\ Len(plan) \in Nat /\ Len(plan) >= 1
      /\ DOMAIN plan = 1..Len(plan)
      /\ Head(plan) = plan[1] /\ Head(plan) \in Steps
  BY DEF IsPlan
<1>2. /\ Tail(plan) \in Seq(Steps) /\ Len(Tail(plan)) = Len(plan) - 1
      /\ \A i \in 1..(Len(plan) - 1) : Tail(plan)[i] = plan[i + 1]
      /\ DOMAIN Tail(plan) = 1..(Len(plan) - 1)
  BY <1>1
<1>3. CASE Len(plan) = 1
  BY <1>1, <1>3 DEF IsPlan
<1>4. CASE Len(plan) # 1
  <2>1. Len(plan) > 1 /\ Tail(plan) # <<>> /\ Head(Tail(plan)) = plan[2]
    <3>1. Len(plan) > 1 /\ 1 \in 1..(Len(plan) - 1)
      BY <1>1, <1>4
    <3>2. Tail(plan)[1] = plan[2]
      BY <1>2, <3>1
    <3>3. Tail(plan) # <<>>
      <4>1. PICK t : t = Tail(plan)
        OBVIOUS
      <4>2. t \in Seq(Steps) /\ Len(t) # 0
        BY <1>2, <3>1, <4>1
      <4>3. t # <<>>
        BY <4>2
      <4> QED
        BY <4>1, <4>3
    <3> QED
      BY <1>2, <3>1, <3>2, <3>3
  <2>2. Follows(Head(plan), plan[2])
    BY <1>1, <2>1 DEF IsPlan, Chained
  <2>3. Chained(Tail(plan))
    <3> SUFFICES ASSUME NEW i \in 1..(Len(Tail(plan)) - 1)
                 PROVE  Follows(Tail(plan)[i], Tail(plan)[i + 1])
      BY DEF Chained
    <3>1. i + 1 \in 1..(Len(plan) - 1) /\ i \in 1..(Len(plan) - 1)
      BY <1>1, <1>2
    <3>2. Follows(plan[i + 1], plan[(i + 1) + 1])
      BY <3>1 DEF IsPlan, Chained
    <3> QED
      BY <1>2, <3>1, <3>2
  <2>4. Tail(plan)[Len(Tail(plan))] = plan[Len(plan)]
    BY <1>1, <1>2, <2>1
  <2>5. plan[2] \notin Closings => IsPlan(Tail(plan))
    BY <1>2, <2>1, <2>3, <2>4 DEF IsPlan
  <2> QED
    BY <1>1, <1>2, <1>4, <2>1, <2>2, <2>5
<1> QED
  BY <1>3, <1>4

\* What closes a page comes last.
LEMMA ClosingIsLast ==
  ASSUME NEW plan, IsPlan(plan), Len(plan) > 1, plan[2] \in Closings
  PROVE  Len(plan) = 2
<1> SUFFICES ASSUME Len(plan) # 2 PROVE FALSE
  OBVIOUS
<1>1. plan \in Seq(Steps) /\ Len(plan) \in Nat
  BY DEF IsPlan
<1>2. 2 \in 1..(Len(plan) - 1)
  <2>1. PICK n \in Nat : n = Len(plan)
    BY <1>1
  <2>2. n > 1 /\ n # 2
    BY <2>1
  <2>3. 2 \in 1..(n - 1)
    BY <2>2
  <2> QED
    BY <2>1, <2>3
<1>3. Follows(plan[2], plan[2 + 1])
  BY <1>2 DEF IsPlan, Chained
<1> QED
  BY <1>3 DEF Follows

LEMMA PlansJoin ==
  ASSUME NEW p \in Seq(Steps), NEW q \in Seq(Steps), p # <<>>, q # <<>>,
         Chained(p), Chained(q), Follows(p[Len(p)], q[1])
  PROVE  /\ p \o q \in Seq(Steps) /\ Chained(p \o q) /\ p \o q # <<>>
         /\ (p \o q)[1] = p[1]
         /\ Len(p \o q) = Len(p) + Len(q)
         /\ (p \o q)[Len(p) + Len(q)] = q[Len(q)]
<1> DEFINE u == p \o q
           n == Len(p)
<1>1. /\ u \in Seq(Steps) /\ Len(u) = n + Len(q)
      /\ n \in Nat /\ n >= 1 /\ Len(q) \in Nat /\ Len(q) >= 1
      /\ \A i \in 1..n : u[i] = p[i]
      /\ \A i \in (n + 1)..(n + Len(q)) : u[i] = q[i - n]
  OBVIOUS
<1> HIDE DEF u
<1>2. ASSUME NEW i \in 1..(Len(u) - 1)
      PROVE  Follows(u[i], u[i + 1])
  <2>1. CASE i < n
    BY <1>1, <2>1 DEF Chained
  <2>2. CASE i = n
    BY <1>1, <2>2
  <2>3. CASE i > n
    <3>1. i - n \in 1..(Len(q) - 1) /\ (i + 1) - n = (i - n) + 1
      BY <1>1, <1>2, <2>3
    <3>2. u[i] = q[i - n] /\ u[i + 1] = q[(i - n) + 1]
      BY <1>1, <1>2, <2>3, <3>1
    <3> QED
      BY <3>1, <3>2 DEF Chained
  <2> QED
    BY <1>1, <2>1, <2>2, <2>3
<1>3. Chained(u)
  BY <1>2 DEF Chained
<1>4. u[1] = p[1] /\ u # <<>> /\ u[n + Len(q)] = q[Len(q)]
  BY <1>1
<1> QED
  BY <1>1, <1>3, <1>4 DEF u

LEMMA HydrateIsPlan ==
  /\ Hydrate \in Seq(Steps) /\ Hydrate # <<>> /\ Chained(Hydrate)
  /\ Len(Hydrate) = 4 /\ Hydrate[1] = "me" /\ Hydrate[4] = "wallet"
<1>1. /\ Hydrate \in Seq(Steps) /\ Len(Hydrate) = 4
      /\ Hydrate[1] = "me" /\ Hydrate[2] = "lists" /\ Hydrate[3] = "rest"
      /\ Hydrate[4] = "wallet"
  BY DEF Hydrate, Steps
<1>2. Chained(Hydrate)
  <2> SUFFICES ASSUME NEW i \in 1..3 PROVE Follows(Hydrate[i], Hydrate[i + 1])
    BY <1>1 DEF Chained
  <2>1. i = 1 \/ i = 2 \/ i = 3
    OBVIOUS
  <2> QED
    BY <1>1, <2>1 DEF Follows, Closings, Calls
<1> QED
  BY <1>1, <1>2

LEMMA OneStep ==
  ASSUME NEW x \in Steps
  PROVE  /\ <<x>> \in Seq(Steps) /\ <<x>> # <<>> /\ Chained(<<x>>)
         /\ Len(<<x>>) = 1 /\ <<x>>[1] = x
BY DEF Chained

\* Calls whose answer a hydration follows.
Changes == Calls \ {"patchMe", "read", "logout"}

LEMMA ChangeThenMe ==
  ASSUME NEW call \in Changes
  PROVE  Follows(call, "me") /\ call \in Steps /\ call \notin Closings
BY DEF Changes, Calls, Steps, Closings, Follows

\* An operation: a call, and the hydration.
LEMMA OperationIsPlan ==
  ASSUME NEW call \in Changes
  PROVE  /\ IsPlan(<<call>> \o Hydrate) /\ <<call>> \o Hydrate # <<>>
         /\ Head(<<call>> \o Hydrate) = call
         /\ <<call>> \o Hydrate \in Seq(Steps) /\ Chained(<<call>> \o Hydrate)
         /\ (<<call>> \o Hydrate)[1] = call
         /\ Len(<<call>> \o Hydrate) = 5 /\ (<<call>> \o Hydrate)[5] = "wallet"
<1>1. <<call>> \in Seq(Steps) /\ <<call>> # <<>> /\ Chained(<<call>>)
      /\ Len(<<call>>) = 1 /\ <<call>>[1] = call
  BY OneStep, ChangeThenMe
<1>2. Follows(<<call>>[Len(<<call>>)], Hydrate[1])
  BY <1>1, HydrateIsPlan, ChangeThenMe
<1> DEFINE p == <<call>>
           u == p \o Hydrate
<1> HIDE DEF p
<1>3. /\ u \in Seq(Steps) /\ Chained(u) /\ u # <<>> /\ u[1] = p[1]
      /\ Len(u) = Len(p) + Len(Hydrate)
      /\ u[Len(p) + Len(Hydrate)] = Hydrate[Len(Hydrate)]
  BY <1>1, <1>2, HydrateIsPlan, PlansJoin DEF p
<1>4. Len(u) = 5 /\ u[5] = "wallet" /\ u[1] = call
  BY <1>1, <1>3, HydrateIsPlan DEF p
<1> HIDE DEF u
<1>5. Head(u) = call
  BY <1>3, <1>4
<1>6. IsPlan(u)
  BY <1>3, <1>4, <1>5, ChangeThenMe DEF IsPlan
<1> QED
  BY <1>3, <1>4, <1>5, <1>6 DEF u, p

\* A plan that ends with the credits may be followed by more.
LEMMA PlanExtends ==
  ASSUME NEW p \in Seq(Steps), NEW q \in Seq(Steps), p # <<>>, q # <<>>,
         Chained(p), Chained(q), p[1] \notin Closings, p[Len(p)] = "wallet",
         q[1] \in Closings \cup {"addPhotos"},
         q[Len(q)] \in {"wallet"} \cup Closings
  PROVE  /\ IsPlan(p \o q) /\ p \o q # <<>> /\ Head(p \o q) = p[1]
         /\ p \o q \in Seq(Steps) /\ Chained(p \o q) /\ (p \o q)[1] = p[1]
         /\ (p \o q)[Len(p \o q)] = q[Len(q)]
<1>1. Follows(p[Len(p)], q[1])
  BY DEF Follows, Closings, Calls
<1> DEFINE u == p \o q
<1>2. /\ u \in Seq(Steps) /\ Chained(u) /\ u # <<>> /\ u[1] = p[1]
      /\ Len(u) = Len(p) + Len(q)
      /\ u[Len(p) + Len(q)] = q[Len(q)]
  BY <1>1, PlansJoin
<1> HIDE DEF u
<1>3. Head(u) = p[1]
  BY <1>2
<1>4. IsPlan(u)
  BY <1>2, <1>3 DEF IsPlan
<1> QED
  BY <1>2, <1>3, <1>4 DEF u

LEMMA ClosedOperation ==
  ASSUME NEW call \in Changes, NEW c \in Closings
  PROVE  /\ IsPlan(<<call>> \o Hydrate \o <<c>>)
         /\ <<call>> \o Hydrate \o <<c>> # <<>>
         /\ Head(<<call>> \o Hydrate \o <<c>>) = call
<1> DEFINE p == <<call>> \o Hydrate
           q == <<c>>
<1>1. /\ p \in Seq(Steps) /\ p # <<>> /\ Chained(p) /\ p[1] = call
      /\ Len(p) = 5 /\ p[5] = "wallet" /\ call \notin Closings
  BY OperationIsPlan, ChangeThenMe
<1>2. q \in Seq(Steps) /\ q # <<>> /\ Chained(q) /\ q[1] = c /\ Len(q) = 1
  BY OneStep DEF Steps
<1> HIDE DEF p, q
<1>3. IsPlan(p \o q) /\ p \o q # <<>> /\ Head(p \o q) = call
  BY <1>1, <1>2, PlanExtends
<1> QED
  BY <1>3 DEF p, q

LEMMA RoomPlan ==
  ASSUME NEW call \in {"createRoom", "editRoom"}, NEW photos \in WithPhotos
  PROVE  /\ IsPlan(<<call>> \o Hydrate \o photos \o <<"rooms">>)
         /\ <<call>> \o Hydrate \o photos \o <<"rooms">> # <<>>
         /\ Head(<<call>> \o Hydrate \o photos \o <<"rooms">>) = call
<1> DEFINE p == <<call>> \o Hydrate
           q == <<"addPhotos">> \o Hydrate
           r == <<"rooms">>
<1>1. call \in Changes /\ "addPhotos" \in Changes
  BY DEF Changes, Calls
<1>2. /\ p \in Seq(Steps) /\ p # <<>> /\ Chained(p) /\ p[1] = call
      /\ p[Len(p)] = "wallet" /\ call \notin Closings
  BY <1>1, OperationIsPlan, ChangeThenMe
<1>3. /\ q \in Seq(Steps) /\ q # <<>> /\ Chained(q) /\ q[1] = "addPhotos"
      /\ q[Len(q)] = "wallet"
  BY <1>1, OperationIsPlan
<1>4. r \in Seq(Steps) /\ r # <<>> /\ Chained(r) /\ r[1] = "rooms" /\ Len(r) = 1
      /\ "rooms" \in Closings
  BY OneStep DEF Steps, Closings
<1>5. photos = <<>> \/ photos = q
  BY DEF WithPhotos
<1> HIDE DEF p, q, r
<1>6. CASE photos = <<>>
  <2>1. (p \o <<>>) = p
    BY <1>2
  <2>2. IsPlan(p \o r) /\ p \o r # <<>> /\ Head(p \o r) = call
    BY <1>2, <1>4, PlanExtends
  <2> QED
    BY <1>6, <2>1, <2>2 DEF p, r
<1>7. CASE photos = q
  <2> DEFINE u == p \o q
  <2>1. /\ u \in Seq(Steps) /\ Chained(u) /\ u # <<>> /\ u[1] = call
        /\ u[Len(u)] = "wallet"
    BY <1>2, <1>3, PlanExtends
  <2> HIDE DEF u
  <2>2. IsPlan(u \o r) /\ u \o r # <<>> /\ Head(u \o r) = call
    BY <1>2, <1>4, <2>1, PlanExtends
  <2> QED
    BY <1>7, <2>2 DEF u, p, q, r
<1> QED
  BY <1>5, <1>6, <1>7

LEMMA ShortPlans ==
  /\ IsPlan(Marks) /\ Marks # <<>> /\ Head(Marks) = "read"
  /\ IsPlan(<<"clear">>) /\ <<"clear">> # <<>> /\ Head(<<"clear">>) = "clear"
  /\ IsPlan(<<"logout", "clear">>) /\ <<"logout", "clear">> # <<>>
  /\ Head(<<"logout", "clear">>) = "logout"
<1>1. /\ "read" \in Steps \ Closings /\ "mark" \in Steps \ Closings
      /\ "logout" \in Steps \ Closings /\ "clear" \in Steps \ Closings
  BY DEF Steps, Calls, Closings
<1>2. Follows("read", "mark") /\ Follows("logout", "clear")
  BY DEF Follows, Calls, Closings
<1>3. ASSUME NEW x \in Steps, NEW y \in Steps, Follows(x, y), x \notin Closings,
             y \in {"mark", "clear"}
      PROVE  IsPlan(<<x, y>>) /\ <<x, y>> # <<>> /\ Head(<<x, y>>) = x
  <2>1. <<x, y>> \in Seq(Steps) /\ Len(<<x, y>>) = 2 /\ <<x, y>>[1] = x
        /\ <<x, y>>[2] = y
    OBVIOUS
  <2>2. Chained(<<x, y>>)
    <3>1. 1..(Len(<<x, y>>) - 1) = {1}
      BY <2>1
    <3> QED
      BY <1>3, <2>1, <3>1 DEF Chained
  <2> QED
    BY <1>3, <2>1, <2>2 DEF IsPlan
<1>4. IsPlan(<<"clear">>)
  BY <1>1, OneStep DEF IsPlan
<1> QED
  BY <1>1, <1>2, <1>3, <1>4 DEF Marks

LEMMA ProfilePlan ==
  /\ IsPlan(<<"patchMe", "putProfile">> \o Hydrate)
  /\ <<"patchMe", "putProfile">> \o Hydrate # <<>>
  /\ Head(<<"patchMe", "putProfile">> \o Hydrate) = "patchMe"
<1> DEFINE p == <<"patchMe", "putProfile">>
           u == p \o Hydrate
<1>1. /\ p \in Seq(Steps) /\ p # <<>> /\ Len(p) = 2
      /\ p[1] = "patchMe" /\ p[2] = "putProfile" /\ "patchMe" \notin Closings
  BY DEF Steps, Calls, Closings
<1>2. Follows("patchMe", "putProfile") /\ Follows("putProfile", "me")
  BY DEF Follows, Calls, Closings
<1> HIDE DEF p
<1>3. Chained(p)
  <2>1. 1..(Len(p) - 1) = {1}
    BY <1>1
  <2> QED
    BY <1>1, <1>2, <2>1 DEF Chained
<1>4. Follows(p[Len(p)], Hydrate[1])
  BY <1>1, <1>2, HydrateIsPlan
<1>5. /\ u \in Seq(Steps) /\ Chained(u) /\ u # <<>> /\ u[1] = "patchMe"
      /\ Len(u) = 6 /\ u[6] = "wallet"
  <2>1. /\ u \in Seq(Steps) /\ Chained(u) /\ u # <<>> /\ u[1] = p[1]
        /\ Len(u) = Len(p) + Len(Hydrate)
        /\ u[Len(p) + Len(Hydrate)] = Hydrate[Len(Hydrate)]
    BY <1>1, <1>3, <1>4, HydrateIsPlan, PlansJoin
  <2> HIDE DEF u
  <2>2. Len(p) + Len(Hydrate) = 6
    BY <1>1, HydrateIsPlan
  <2> QED
    BY <1>1, <2>1, <2>2, HydrateIsPlan
<1> HIDE DEF u
<1>6. Head(u) = "patchMe"
  BY <1>5
<1>7. IsPlan(u)
  BY <1>1, <1>5, <1>6 DEF IsPlan
<1> QED
  BY <1>5, <1>6, <1>7 DEF u, p

LEMMA BootPlan ==
  /\ IsPlan(Hydrate \o <<"open">>) /\ Hydrate \o <<"open">> # <<>>
  /\ Head(Hydrate \o <<"open">>) = "me"
  /\ \A i \in DOMAIN (Hydrate \o <<"open">>) :
       (Hydrate \o <<"open">>)[i] \in {"me", "lists", "rest", "wallet", "open"}
<1>1. /\ <<"open">> \in Seq(Steps) /\ <<"open">> # <<>> /\ Chained(<<"open">>)
      /\ Len(<<"open">>) = 1 /\ <<"open">>[1] = "open" /\ "open" \in Closings
      /\ "me" \notin Closings
  BY OneStep DEF Steps, Closings
<1>2. /\ IsPlan(Hydrate \o <<"open">>) /\ Hydrate \o <<"open">> # <<>>
      /\ Head(Hydrate \o <<"open">>) = "me"
  BY <1>1, HydrateIsPlan, PlanExtends
<1>3. PICK p \in Seq(Steps), q \in Seq(Steps) :
        p = Hydrate /\ q = <<"open">> /\ Len(p) = 4 /\ Len(q) = 1
  BY <1>1, HydrateIsPlan
<1>4. /\ DOMAIN (p \o q) = 1..5
      /\ \A i \in 1..5 : (p \o q)[i] = IF i <= 4 THEN p[i] ELSE q[1]
  <2>1. p \o q \in Seq(Steps) /\ Len(p \o q) = Len(p) + Len(q)
    OBVIOUS
  <2> QED
    BY <1>3, <2>1
<1>5. \A i \in 1..4 : p[i] \in {"me", "lists", "rest", "wallet"}
  BY <1>3 DEF Hydrate
<1>6. \A i \in DOMAIN (p \o q) : (p \o q)[i] \in {"me", "lists", "rest", "wallet", "open"}
  BY <1>1, <1>3, <1>4, <1>5
<1> QED
  BY <1>2, <1>3, <1>6

-----------------------------------------------------------------------------
(* What the pages do *)

\* The step spends nothing or something other than a fault.
NoFault == IsBudget(budget') /\ budget'.faults = budget.faults

SignedInUser == tab.me # NoOne /\ tab.screen = "shown"

\* Another page is drawn, of somebody who is signed in or of a guest.
Moved ==
  /\ tab.screen = "shown"
  /\ \E page : Navigate(page) \/ Render([tab EXCEPT !.guest = page], flows)
  /\ NoFault
  /\ UNCHANGED <<db, token, trusted, mixed, saves>>

\* The flow that a button starts, with what the rest of the proof needs of it.
Starts(l, op, arg, form, plan) ==
  /\ Idle(l)
  /\ op \in {"", "markRead", "logout"}
  /\ IsPlan(plan) /\ plan # <<>>
  /\ Head(plan) \in (Calls \ SignIns) \cup {"clear"}
  /\ saves' = IF Head(plan) = "createRoom" /\ token \in Admins THEN saves + 1 ELSE saves
  /\ \/ tab' = tab /\ flows' = Begun(l, op, arg, form, plan)
     \/ Render([tab EXCEPT !.page = "notifications"], Begun(l, op, arg, form, plan))

Pressed(l) ==
  /\ SignedInUser
  /\ \E op, arg, form, plan : Starts(l, op, arg, form, plan)
  /\ NoFault
  /\ UNCHANGED <<db, token, trusted, mixed>>

SignedIn(l) ==
  /\ tab.me = NoOne /\ tab.screen = "shown"
  /\ Idle(l)
  /\ \E u \in Users : \E plan :
       /\ IsPlan(plan) /\ plan # <<>> /\ Head(plan) \in SignIns
       /\ Head(plan) = "register" => u \in Admins
       /\ flows' = Begun(l, "", u, "guest", plan)
  /\ NoFault
  /\ mixed' = (mixed \/ ~Quiet)
  /\ UNCHANGED <<db, token, tab, trusted, saves>>

Crashed == SignedInUser /\ Crash

LEMMA SpendsNoFault ==
  ASSUME NEW what \in {"logins", "presses", "elsewhere"}, NEW most,
         IsBudget(budget), Spend(what, most)
  PROVE  NoFault
BY DEF IsBudget, Spend, NoFault

LEMMA LinkMoves ==
  ASSUME NEW pages, IsBudget(budget), SignedInUser, Link(pages)
  PROVE  Moved
BY DEF Link, Moved, NoFault, SignedInUser

LEMMA PressStarts ==
  ASSUME NEW l \in Lanes, NEW op \in {"", "markRead", "logout"}, NEW arg, NEW form, NEW plan,
         IsBudget(budget), SignedInUser, Press(l, op, arg, form, plan),
         IsPlan(plan), plan # <<>>,
         Head(plan) \in (Calls \ SignIns) \cup {"clear"},
         saves' = IF Head(plan) = "createRoom" /\ token \in Admins THEN saves + 1 ELSE saves
  PROVE  Pressed(l)
<1>1. NoFault
  BY SpendsNoFault DEF Press
<1>2. Starts(l, op, arg, form, plan)
  BY DEF Press, Begin, Starts
<1> QED
  BY <1>1, <1>2 DEF Press, Pressed

\* The calls of operations that are neither sign-ins nor new rooms.
Ordinary == Changes \ (SignIns \cup {"createRoom"})

LEMMA OperationPresses ==
  ASSUME NEW l \in Lanes, NEW call \in Ordinary, NEW arg,
         IsBudget(budget), SignedInUser, Operation(l, call, arg)
  PROVE  Pressed(l)
<1>1. call \in Changes /\ call \in Calls \ SignIns /\ call # "createRoom"
  BY DEF Ordinary, Changes
<1>2. IsPlan(<<call>> \o Hydrate) /\ <<call>> \o Hydrate # <<>>
      /\ Head(<<call>> \o Hydrate) = call
  BY <1>1, OperationIsPlan
<1>3. Press(l, "", arg, "", <<call>> \o Hydrate) /\ saves' = saves
  BY DEF Operation
<1> QED
  BY <1>1, <1>2, <1>3, PressStarts

LEMMA OrdinaryAre ==
  {"reserve", "cancel", "approve", "patchContract", "patchRoom", "editRoom", "addPhotos",
   "deletePhoto", "createUser", "createContract"} \subseteq Ordinary
BY DEF Ordinary, Changes, Calls, SignIns

LEMMA ReserveModalPresses ==
  ASSUME NEW l \in Lanes, IsBudget(budget), SignedInUser, ReserveModal(l) \/ RoomModal(l)
  PROVE  Pressed(l)
BY OperationPresses, OrdinaryAre DEF ReserveModal, RoomModal

LEMMA CancelPresses ==
  ASSUME NEW l \in Lanes, IsBudget(budget), SignedInUser, ReservationDetailsModal(l)
  PROVE  Pressed(l)
BY OperationPresses, OrdinaryAre DEF ReservationDetailsModal

LEMMA MarksPresses ==
  ASSUME NEW l \in Lanes, NEW op \in {"", "markRead"},
         IsBudget(budget), SignedInUser, Press(l, op, "", "", Marks), saves' = saves
  PROVE  Pressed(l)
<1>1. "read" \in Calls \ SignIns
  BY DEF Calls, SignIns
<1> QED
  BY <1>1, ShortPlans, PressStarts

LEMMA NotificationsPresses ==
  ASSUME NEW l \in Lanes, IsBudget(budget), SignedInUser, Notifications(l)
  PROVE  Pressed(l)
BY MarksPresses DEF Notifications, MarkAllRead

LEMMA ClientMoves ==
  ASSUME NEW l \in Lanes, IsBudget(budget), SignedInUser, ClientRouter(l)
  PROVE  Moved \/ Pressed(l) \/ Crashed
<1>1. CASE ClientDashboard(l)
  BY <1>1, LinkMoves, CancelPresses DEF ClientDashboard
<1>2. CASE Profile(l)
  <2>1. Press(l, "", "", "", <<"patchMe", "putProfile">> \o Hydrate) /\ saves' = saves
    BY <1>2 DEF Profile
  <2>2. "patchMe" \in Calls \ SignIns
    BY DEF Calls, SignIns
  <2> QED
    BY <2>1, <2>2, ProfilePlan, PressStarts
<1>3. CASE Agenda(l)
  BY <1>3, ReserveModalPresses DEF Agenda
<1>4. CASE Credit \/ ClientContracts \/ NotFound
  BY <1>4, LinkMoves DEF Credit, ClientContracts, NotFound
<1>5. CASE ClientFinancial
  BY <1>5 DEF ClientFinancial, ReceiptModal, Crashed
<1>6. CASE History(l)
  BY <1>6, CancelPresses DEF History
<1>7. CASE Notifications(l)
  BY <1>7, NotificationsPresses
<1> QED
  BY <1>1, <1>2, <1>3, <1>4, <1>5, <1>6, <1>7 DEF ClientRouter

LEMMA RoomFormPresses ==
  ASSUME NEW l \in Lanes, NEW form, NEW arg, NEW photos \in WithPhotos,
         NEW call \in {"createRoom", "editRoom"},
         IsBudget(budget), SignedInUser,
         Submit(l, form, arg, <<call>> \o Hydrate \o photos \o <<"rooms">>),
         saves' = IF call = "createRoom" /\ token \in Admins THEN saves + 1 ELSE saves
  PROVE  Pressed(l)
<1>1. call \in Calls \ SignIns
  BY DEF Calls, SignIns
<1>2. PICK plan : plan = <<call>> \o Hydrate \o photos \o <<"rooms">>
  OBVIOUS
<1>3. IsPlan(plan) /\ plan # <<>> /\ Head(plan) = call
  BY <1>2, RoomPlan
<1>4. Press(l, "", arg, form, plan)
  BY <1>2 DEF Submit
<1> QED
  BY <1>1, <1>3, <1>4, PressStarts

LEMMA AdminMoves ==
  ASSUME NEW l \in Lanes, IsBudget(budget), SignedInUser, AdminRouter(l)
  PROVE  Moved \/ Pressed(l) \/ Crashed
<1>1. CASE AdminDashboard \/ ClientList \/ ClientDetail \/ NotFound
  BY <1>1, LinkMoves DEF AdminDashboard, ClientList, ClientDetail, NotFound
<1>2. CASE Rooms(l)
  BY <1>2, LinkMoves, OperationPresses, OrdinaryAre, ReserveModalPresses DEF Rooms
<1>3. CASE NewRoom(l)
  <2>1. CASE Link({"rooms"})
    BY <2>1, LinkMoves
  <2>2. CASE ~Link({"rooms"})
    <3>1. PICK photos \in WithPhotos :
            Submit(l, "new-room", "", <<"createRoom">> \o Hydrate \o photos \o <<"rooms">>)
      BY <1>3, <2>2 DEF NewRoom
    <3>2. saves' = IF token \in Admins THEN saves + 1 ELSE saves
      BY <1>3, <2>2, <3>1 DEF NewRoom, Submit
    <3> QED
      BY <3>1, <3>2, RoomFormPresses
  <2> QED
    BY <2>1, <2>2
<1>4. CASE EditRoom(l)
  <2>1. CASE Link({"rooms"})
    BY <2>1, LinkMoves
  <2>2. ASSUME NEW photos \in WithPhotos, saves' = saves,
               Submit(l, "edit-room", "", <<"editRoom">> \o Hydrate \o photos \o <<"rooms">>)
        PROVE  Pressed(l)
    BY <2>2, RoomFormPresses
  <2>3. ASSUME NEW call \in {"addPhotos", "deletePhoto"}, saves' = saves,
               Press(l, "", "", "", <<call>> \o Hydrate)
        PROVE  Pressed(l)
    <3>1. Operation(l, call, "")
      BY <2>3 DEF Operation
    <3>2. call \in Ordinary
      BY OrdinaryAre
    <3> QED
      BY <3>1, <3>2, OperationPresses
  <2> QED
    BY <1>4, <2>1, <2>2, <2>3 DEF EditRoom
<1>5. CASE AgendaGeral(l)
  BY <1>5, ReserveModalPresses DEF AgendaGeral
<1>6. CASE NewClient(l)
  <2>1. CASE Link({"clients"})
    BY <2>1, LinkMoves
  <2>2. CASE ~Link({"clients"})
    <3>1. Press(l, "", Newcomer, "new-client", <<"createUser">> \o Hydrate \o <<"client">>)
          /\ saves' = saves
      BY <1>6, <2>2 DEF NewClient, Submit
    <3>2. "createUser" \in Changes /\ "client" \in Closings /\ "createUser" \in Calls \ SignIns
      BY DEF Changes, Calls, Closings, SignIns
    <3>3. PICK plan : plan = <<"createUser">> \o Hydrate \o <<"client">>
      OBVIOUS
    <3>4. IsPlan(plan) /\ plan # <<>> /\ Head(plan) = "createUser"
      BY <3>2, <3>3, ClosedOperation
    <3> QED
      BY <3>1, <3>2, <3>3, <3>4, PressStarts
  <2> QED
    BY <2>1, <2>2
<1>7. CASE AdminContracts(l)
  BY <1>7, OperationPresses, OrdinaryAre DEF AdminContracts
<1>8. CASE AdminFinancial(l)
  BY <1>8, OperationPresses, OrdinaryAre DEF AdminFinancial, RejectModal, Crashed
<1>9. CASE Notifications(l)
  BY <1>9, NotificationsPresses
<1> QED
  BY <1>1, <1>2, <1>3, <1>4, <1>5, <1>6, <1>7, <1>8, <1>9 DEF AdminRouter

LEMMA ShellMoves ==
  ASSUME NEW l \in Lanes, IsBudget(budget), SignedInUser, Shell(l)
  PROVE  Moved \/ Pressed(l)
<1>1. CASE NavList
  BY <1>1, LinkMoves DEF NavList
<1>2. CASE NotificationPanel(l)
  <2>1. CASE MarkAllRead(l)
    BY <2>1, MarksPresses DEF MarkAllRead
  <2>2. CASE Link({"notifications"})
    BY <2>2, LinkMoves
  <2>3. CASE ~MarkAllRead(l) /\ ~Link({"notifications"})
    <3>1. /\ Idle(l) /\ Spend("presses", MaxPresses)
          /\ Render([tab EXCEPT !.page = "notifications"], Begun(l, "markRead", "", "", Marks))
          /\ UNCHANGED <<db, token, trusted, mixed, saves>>
      BY <1>2, <2>3 DEF NotificationPanel
    <3>2. "read" \in (Calls \ SignIns) \cup {"clear"} /\ "read" # "createRoom"
      BY DEF Calls, SignIns
    <3>3. Starts(l, "markRead", "", "", Marks)
      BY <3>1, <3>2, ShortPlans DEF Starts
    <3>4. NoFault
      BY <3>1, SpendsNoFault
    <3> QED
      BY <3>1, <3>3, <3>4 DEF Pressed
  <2> QED
    BY <2>1, <2>2, <2>3
<1>3. CASE AccountMenu(l)
  <2>1. CASE Logout(l)
    <3>1. PICK plan \in {<<"clear">>, <<"logout", "clear">>} :
            Begin(l, "logout", "", "", plan)
      BY <2>1 DEF Logout
    <3>2. UNCHANGED <<db, token, tab, budget, trusted, mixed, saves>>
      BY <2>1 DEF Logout
    <3>3. IsPlan(plan) /\ plan # <<>> /\ Head(plan) \in {"clear", "logout"}
      BY ShortPlans
    <3>4. "logout" \in Calls \ SignIns
      BY DEF Calls, SignIns
    <3>5. Starts(l, "logout", "", "", plan)
      BY <3>1, <3>2, <3>3, <3>4 DEF Starts, Begin
    <3> QED
      BY <3>2, <3>5 DEF Pressed, NoFault
  <2>2. CASE ~Logout(l)
    BY <1>3, <2>2, LinkMoves DEF AccountMenu
  <2> QED
    BY <2>1, <2>2
<1> QED
  BY <1>1, <1>2, <1>3 DEF Shell

LEMMA GuestMoves ==
  ASSUME NEW l \in Lanes, Shape, tab.me = NoOne, tab.screen = "shown", GuestRouter(l)
  PROVE  Moved \/ SignedIn(l)
<1> SUFFICES ASSUME ~Moved PROVE SignedIn(l)
  OBVIOUS
<1>0. ASSUME NEW page, Swap(page) PROVE FALSE
  <2>1. NoFault
    BY <1>0, SpendsNoFault DEF Swap, Shape, NoFault
  <2> QED
    BY <1>0, <2>1 DEF Swap, Moved
<1>1. PICK op \in SignIns, users \in SUBSET Users :
        SignIn(l, op, users) /\ (op = "register" => users = Admins)
  BY <1>0 DEF GuestRouter, Login, Signup, SignIns, Users, Shape, IsDb
<1>2. op \in Changes /\ "dashboard" \in Closings
  BY DEF SignIns, Changes, Calls, Closings
<1>3. PICK plan : plan = <<op>> \o Hydrate \o <<"dashboard">>
  OBVIOUS
<1>4. IsPlan(plan) /\ plan # <<>> /\ Head(plan) = op
  BY <1>2, <1>3, ClosedOperation
<1>5. NoFault
  BY <1>1, SpendsNoFault DEF SignIn, Shape
<1> QED
  BY <1>1, <1>3, <1>4, <1>5 DEF SignIn, SignedIn, Begin

LEMMA PagesMove ==
  ASSUME NEW l \in Lanes, Shape, AppRoutes(l)
  PROVE  Moved \/ Pressed(l) \/ SignedIn(l) \/ Crashed
<1>1. IsBudget(budget) /\ tab.screen = "shown"
  BY DEF Shape, AppRoutes
<1>2. CASE Role = "guest"
  <2>1. tab.me = NoOne
    BY <1>2 DEF Role, mapRole
  <2> QED
    BY <1>1, <1>2, <2>1, GuestMoves DEF AppRoutes
<1>3. CASE Role # "guest"
  <2>1. SignedInUser
    BY <1>1, <1>3 DEF Role, SignedInUser
  <2> QED
    BY <1>1, <1>3, <2>1, ShellMoves, ClientMoves, AdminMoves DEF AppRoutes
<1> QED
  BY <1>2, <1>3

-----------------------------------------------------------------------------
(* What a step does to the flows *)

\* Flow g is flow f, with what it has read at another moment and another form.
Kept(f, g) ==
  /\ g.op = f.op /\ g.arg = f.arg /\ g.plan = f.plan /\ g.as = f.as
  /\ g.who = f.who /\ g.for = f.for /\ g.alone = f.alone

Same(f, g) == Kept(f, g) /\ g.got = f.got

\* Flow g is flow f, no longer alone.
Disturbed(f, g) ==
  /\ g.op = f.op /\ g.arg = f.arg /\ g.plan = f.plan /\ g.as = f.as
  /\ g.for = f.for /\ g.alone = FALSE

AreFlows(fl) ==
  /\ fl = [l \in Lanes |-> fl[l]]
  /\ \A l \in Lanes : IsFlow(fl[l])

\* Flow f has taken its first step and is at its next one, with the tokens of u.
Onward(f, g, u) ==
  /\ g.plan # <<>>
  /\ Follows(Head(f.plan), Head(g.plan))
  /\ Head(g.plan) \in Steps \ (Closings \cup SignIns \cup {"createRoom", "read"})
  /\ g.op = f.op /\ (g.alone => f.alone) /\ g.as = u
  /\ \A i \in DOMAIN g.plan : \E j \in DOMAIN f.plan : g.plan[i] = f.plan[j]

LEMMA NothingFollows ==
  ASSUME NEW x \in Steps, NEW y \in Steps, Follows(x, y)
  PROVE  /\ y \notin SignIns \cup {"createRoom", "read"}
         /\ y \in Closings => x = "wallet"
BY DEF Follows, SignIns, Steps, Calls, Closings

LEMMA NoFlowIsFlow == IsFlow(NoFlow) /\ NoFlow.plan = <<>> /\ NoFlow.alone = FALSE
<1>1. <<>> \in Seq(Steps) /\ Len(<<>>) = 0
  OBVIOUS
<1>2. IsPlan(<<>>)
  <2>1. Chained(<<>>)
    <3>1. 1..(Len(<<>>) - 1) = {}
      BY <1>1
    <3> QED
      BY <3>1 DEF Chained
  <2> QED
    BY <1>1, <2>1 DEF IsPlan
<1>3. NoFlow = [op |-> "", arg |-> "", form |-> "", plan |-> <<>>, as |-> NoOne,
                who |-> NoOne, for |-> NoOne, got |-> NoLists, alone |-> FALSE]
  <2>1. PICK f : f = Flow("", "", "", <<>>, FALSE)
    OBVIOUS
  <2>2. PICK no, none, nil, t : no = FALSE /\ none = "" /\ nil = <<>> /\ t = token
    OBVIOUS
  <2>3. f = [op |-> none, arg |-> none, form |-> none, plan |-> nil, as |-> t,
             who |-> NoOne, for |-> NoOne, got |-> NoLists, alone |-> no]
    BY <2>1, <2>2 DEF Flow
  <2>4. NoFlow = [f EXCEPT !.as = NoOne]
    BY <2>1 DEF NoFlow
  <2>5. NoFlow = [op |-> none, arg |-> none, form |-> none, plan |-> nil, as |-> NoOne,
                  who |-> NoOne, for |-> NoOne, got |-> NoLists, alone |-> no]
    BY <2>3, <2>4
  <2> QED
    BY <2>2, <2>5
<1>4. NoLists = [s \in Lists |-> NoLists[s]]
  BY DEF NoLists
<1>5. /\ NoFlow.op = "" /\ NoFlow.arg = "" /\ NoFlow.form = "" /\ NoFlow.plan = <<>>
      /\ NoFlow.as = NoOne /\ NoFlow.who = NoOne /\ NoFlow.for = NoOne
      /\ NoFlow.got = NoLists /\ NoFlow.alone = FALSE
  BY <1>3
<1> QED
  BY <1>2, <1>3, <1>4, <1>5 DEF IsFlow, Formed

LEMMA ProceedGoesOn ==
  ASSUME NEW l \in Lanes, NEW f, NEW u, AreFlows(flows), Formed(f), f.plan # <<>>,
         Len(f.plan) > 1 => f.plan[2] \notin Closings
  PROVE  /\ AreFlows(Proceed(l, f, u))
         /\ \A m \in Lanes \ {l} : Proceed(l, f, u)[m] = flows[m]
         /\ Len(f.plan) = 1 => Proceed(l, f, u)[l] = NoFlow
         /\ Len(f.plan) # 1 =>
              /\ Onward(f, Proceed(l, f, u)[l], u)
              /\ Proceed(l, f, u)[l].form = f.form /\ Proceed(l, f, u)[l].arg = f.arg
              /\ Proceed(l, f, u)[l].who = f.who /\ Proceed(l, f, u)[l].for = f.for
              /\ Proceed(l, f, u)[l].got = f.got
<1> DEFINE next == [f EXCEPT !.plan = Tail(@), !.as = u]
           pr == Proceed(l, f, u)
<1>1. /\ pr = [m \in Lanes |-> pr[m]]
      /\ pr[l] = IF Len(f.plan) = 1 THEN NoFlow ELSE next
      /\ \A m \in Lanes \ {l} : pr[m] = flows[m]
  BY DEF Proceed, AreFlows
<1>2. CASE Len(f.plan) = 1
  BY <1>1, <1>2, NoFlowIsFlow DEF AreFlows
<1>3. CASE Len(f.plan) # 1
  <2>1. /\ IsPlan(Tail(f.plan)) /\ Tail(f.plan) # <<>> /\ Head(Tail(f.plan)) = f.plan[2]
        /\ Follows(Head(f.plan), f.plan[2]) /\ f.plan[2] \notin Closings
        /\ Head(f.plan) \in Steps
        /\ \A i \in DOMAIN Tail(f.plan) :
             i + 1 \in DOMAIN f.plan /\ Tail(f.plan)[i] = f.plan[i + 1]
    BY <1>3, PlanGoesOn DEF Formed
  <2>2. PICK tl : tl = Tail(f.plan)
    OBVIOUS
  <2>3. f.plan[2] \in Steps \ (SignIns \cup {"createRoom", "read"})
    <3>1. f.plan \in Seq(Steps) /\ 2 \in DOMAIN f.plan
      <4>1. f.plan \in Seq(Steps) /\ Len(f.plan) > 1
        BY <1>3, PlanGoesOn DEF Formed, IsPlan
      <4>2. PICK n \in Nat : n = Len(f.plan)
        BY <4>1
      <4> QED
        BY <4>1, <4>2
    <3>2. f.plan[2] \in Steps
      BY <3>1
    <3> QED
      BY <2>1, <3>2, NothingFollows
  <2>4. next = [op |-> f.op, arg |-> f.arg, form |-> f.form, plan |-> tl, as |-> u,
                who |-> f.who, for |-> f.for, got |-> f.got, alone |-> f.alone]
    <3>1. PICK g : g = [f EXCEPT !.plan = tl]
      OBVIOUS
    <3>2. g = [op |-> f.op, arg |-> f.arg, form |-> f.form, plan |-> tl, as |-> f.as,
               who |-> f.who, for |-> f.for, got |-> f.got, alone |-> f.alone]
      BY <3>1 DEF Formed
    <3>3. next = [g EXCEPT !.as = u]
      BY <2>2, <3>1
    <3> HIDE DEF next
    <3> QED
      BY <3>2, <3>3
  <2>5. /\ next.op = f.op /\ next.arg = f.arg /\ next.form = f.form /\ next.plan = tl
        /\ next.as = u /\ next.who = f.who /\ next.for = f.for /\ next.got = f.got
        /\ next.alone = f.alone
    BY <2>4
  <2> HIDE DEF next
  <2>6. IsFlow(next)
    <3>1. Formed(next)
      BY <2>1, <2>2, <2>4, <2>5 DEF Formed
    <3>2. next.plan # <<>> /\ Head(next.plan) = f.plan[2]
      BY <2>1, <2>2, <2>5
    <3> QED
      BY <2>3, <3>1, <3>2 DEF IsFlow, SignIns
  <2>7. Onward(f, next, u)
    BY <2>1, <2>2, <2>3, <2>5 DEF Onward
  <2>8. AreFlows(pr)
    BY <1>1, <1>3, <2>6 DEF AreFlows
  <2> QED
    BY <1>1, <1>3, <2>5, <2>7, <2>8
<1> QED
  BY <1>2, <1>3

LEMMA OvertakenKeeps ==
  ASSUME NEW d, NEW fl, AreFlows(fl), NEW fl2 \in Overtaken(d, fl)
  PROVE  /\ AreFlows(fl2)
         /\ \A l \in Lanes :
              /\ Kept(fl[l], fl2[l]) /\ fl2[l].form = fl[l].form
              /\ fl[l].plan = <<>> \/ Head(fl[l].plan) # "lists" => fl2[l].got = fl[l].got
<1> DEFINE Reading == {l \in Lanes : fl[l].plan # <<>> /\ Head(fl[l].plan) = "lists"}
           changed == {s \in Together : d.rows[s] # db.rows[s]}
<1>1. PICK later \in SUBSET (Reading \X changed) :
        fl2 = [l \in Lanes |->
                 [fl[l] EXCEPT !.got = [s \in Lists |-> IF <<l, s>> \in later
                                                        THEN Allowed(d, fl[l].as, s)
                                                        ELSE @[s]]]]
  BY DEF Overtaken
<1>2. ASSUME NEW l \in Lanes
      PROVE  /\ IsFlow(fl2[l]) /\ Kept(fl[l], fl2[l]) /\ fl2[l].form = fl[l].form
             /\ fl[l].plan = <<>> \/ Head(fl[l].plan) # "lists" => fl2[l].got = fl[l].got
  <2>1. PICK f : f = fl[l]
    OBVIOUS
  <2>2. PICK g : g = [s \in Lists |-> IF <<l, s>> \in later THEN Allowed(d, f.as, s)
                                      ELSE f.got[s]]
    OBVIOUS
  <2>3. fl2[l] = [f EXCEPT !.got = g]
    BY <1>1, <2>1, <2>2
  <2>4. IsFlow(f)
    BY <2>1 DEF AreFlows
  <2>5. [f EXCEPT !.got = g] =
          [op |-> f.op, arg |-> f.arg, form |-> f.form, plan |-> f.plan, as |-> f.as,
           who |-> f.who, for |-> f.for, got |-> g, alone |-> f.alone]
    BY <2>4 DEF IsFlow, Formed
  <2>6. PICK h : h = fl2[l]
    OBVIOUS
  <2>7. /\ h = [op |-> h.op, arg |-> h.arg, form |-> h.form, plan |-> h.plan, as |-> h.as,
                who |-> h.who, for |-> h.for, got |-> h.got, alone |-> h.alone]
        /\ h.op = f.op /\ h.arg = f.arg /\ h.form = f.form /\ h.plan = f.plan /\ h.as = f.as
        /\ h.who = f.who /\ h.for = f.for /\ h.got = g /\ h.alone = f.alone
    BY <2>3, <2>5, <2>6
  <2>8. g = [s \in Lists |-> g[s]]
    BY <2>2
  <2>9. f.plan = <<>> \/ Head(f.plan) # "lists" => g = f.got
    <3> SUFFICES ASSUME f.plan = <<>> \/ Head(f.plan) # "lists" PROVE g = f.got
      OBVIOUS
    <3>1. l \notin Reading
      BY <2>1
    <3>2. \A s \in Lists : <<l, s>> \notin later
      BY <3>1
    <3> QED
      BY <2>2, <2>4, <3>2 DEF IsFlow, Formed
  <2>10. IsFlow(h)
    BY <2>4, <2>7, <2>8 DEF IsFlow, Formed
  <2> QED
    BY <2>1, <2>6, <2>7, <2>9, <2>10 DEF Kept
<1> QED
  BY <1>1, <1>2 DEF AreFlows

LEMMA RenderKeeps ==
  ASSUME NEW t, NEW fl, AreFlows(fl), Render(t, fl)
  PROVE  /\ AreFlows(flows')
         /\ \A l \in Lanes : Same(fl[l], flows'[l])
         /\ tab' = IF tab.screen = "blank" THEN tab ELSE t
<1>1. CASE flows' = fl
  BY <1>1 DEF AreFlows, Same, Kept, Render
<1>2. CASE flows' = [l \in Lanes |-> [fl[l] EXCEPT !.form = ""]]
  <2>1. ASSUME NEW l \in Lanes
        PROVE  IsFlow(flows'[l]) /\ Same(fl[l], flows'[l])
    <3>1. PICK f : f = fl[l]
      OBVIOUS
    <3>2. IsFlow(f)
      BY <3>1 DEF AreFlows
    <3>3. PICK h : h = flows'[l]
      OBVIOUS
    <3>0. PICK none : none = ""
      OBVIOUS
    <3>4. h = [f EXCEPT !.form = none]
      BY <1>2, <3>0, <3>1, <3>3
    <3>5. [f EXCEPT !.form = none] =
            [op |-> f.op, arg |-> f.arg, form |-> none, plan |-> f.plan, as |-> f.as,
             who |-> f.who, for |-> f.for, got |-> f.got, alone |-> f.alone]
      BY <3>2 DEF IsFlow, Formed
    <3>6. /\ h = [op |-> h.op, arg |-> h.arg, form |-> h.form, plan |-> h.plan, as |-> h.as,
                  who |-> h.who, for |-> h.for, got |-> h.got, alone |-> h.alone]
          /\ h.op = f.op /\ h.arg = f.arg /\ h.plan = f.plan /\ h.as = f.as
          /\ h.who = f.who /\ h.for = f.for /\ h.got = f.got /\ h.alone = f.alone
      BY <3>4, <3>5
    <3>7. IsFlow(h)
      BY <3>2, <3>6 DEF IsFlow, Formed
    <3> QED
      BY <3>1, <3>3, <3>6, <3>7 DEF Same, Kept
  <2> QED
    BY <1>2, <2>1 DEF AreFlows, Render
<1> QED
  BY <1>1, <1>2 DEF Render

LEMMA BegunStarts ==
  ASSUME NEW l \in Lanes, NEW op, NEW arg, NEW form, NEW plan, NEW fl,
         AreFlows(flows), fl = Begun(l, op, arg, form, plan), IsPlan(plan), plan # <<>>,
         Head(plan) \in SignIns => arg \in Users, Head(plan) = "register" => arg \in Admins
  PROVE  /\ AreFlows(fl)
         /\ fl[l].op = op /\ fl[l].plan = plan /\ fl[l].as = token /\ fl[l].alone = Quiet
         /\ fl[l].form = form
         /\ \A m \in Lanes \ {l} : Disturbed(flows[m], fl[m])
<1>1. fl = [m \in Lanes |-> fl[m]]
  BY DEF Begun
<1>2. fl[l] = Flow(op, arg, form, plan, Quiet)
  BY DEF Begun
<1>3. /\ IsFlow(fl[l]) /\ fl[l].op = op /\ fl[l].plan = plan /\ fl[l].as = token
      /\ fl[l].alone = Quiet /\ fl[l].form = form
  <2>1. PICK q : q = Quiet
    OBVIOUS
  <2>2. q \in BOOLEAN
    BY <2>1 DEF Quiet
  <2>3. PICK h : h = fl[l]
    OBVIOUS
  <2>4. h = [op |-> op, arg |-> arg, form |-> form, plan |-> plan, as |-> token,
             who |-> NoOne, for |-> NoOne, got |-> NoLists, alone |-> q]
    BY <1>2, <2>1, <2>3 DEF Flow
  <2>5. NoLists = [s \in Lists |-> NoLists[s]]
    BY DEF NoLists
  <2>6. /\ h.op = op /\ h.arg = arg /\ h.form = form /\ h.plan = plan /\ h.as = token
        /\ h.who = NoOne /\ h.for = NoOne /\ h.got = NoLists /\ h.alone = q
    BY <2>4
  <2>7. IsFlow(h)
    BY <2>2, <2>4, <2>5, <2>6 DEF IsFlow, Formed
  <2> QED
    BY <2>1, <2>3, <2>6, <2>7
<1>4. ASSUME NEW m \in Lanes \ {l}
      PROVE  IsFlow(fl[m]) /\ Disturbed(flows[m], fl[m])
  <2>1. PICK f : f = flows[m]
    OBVIOUS
  <2>2. IsFlow(f)
    BY <2>1 DEF AreFlows
  <2>3. PICK h : h = fl[m]
    OBVIOUS
  <2>0. PICK no : no = FALSE
    OBVIOUS
  <2>4. h = [f EXCEPT !.alone = no]
    BY <2>0, <2>1, <2>3 DEF Begun
  <2>5. [f EXCEPT !.alone = no] =
          [op |-> f.op, arg |-> f.arg, form |-> f.form, plan |-> f.plan, as |-> f.as,
           who |-> f.who, for |-> f.for, got |-> f.got, alone |-> no]
    BY <2>2 DEF IsFlow, Formed
  <2>6. /\ h = [op |-> h.op, arg |-> h.arg, form |-> h.form, plan |-> h.plan, as |-> h.as,
                who |-> h.who, for |-> h.for, got |-> h.got, alone |-> h.alone]
        /\ h.op = f.op /\ h.arg = f.arg /\ h.plan = f.plan /\ h.as = f.as
        /\ h.who = f.who /\ h.for = f.for /\ h.got = f.got /\ h.alone = FALSE
    BY <2>0, <2>4, <2>5
  <2>7. IsFlow(h)
    BY <2>2, <2>6 DEF IsFlow, Formed
  <2> QED
    BY <2>1, <2>3, <2>6, <2>7 DEF Disturbed
<1> QED
  BY <1>1, <1>3, <1>4 DEF AreFlows

-----------------------------------------------------------------------------
(* What a call makes of the database *)

Good(d) == IsDb(d) /\ OneHour(d) /\ OneAccount(d)

\* d2 differs from d in list s, which holds rows, and in notifications.
Becomes(d, d2, s, rows) ==
  /\ IsDb(d2) /\ d2.admins = d.admins
  /\ d2.rows[s] = rows
  /\ \A t \in Lists \ {s, "notifications"} : d2.rows[t] = d.rows[t]

LEMMA RowFields ==
  ASSUME NEW what, NEW copy, NEW owner, NEW status
  PROVE  /\ IsRow(Row(what, copy, owner, status))
         /\ Row(what, copy, owner, status).what = what
         /\ Row(what, copy, owner, status).copy = copy
         /\ Row(what, copy, owner, status).owner = owner
         /\ Row(what, copy, owner, status).status = status
BY DEF Row, IsRow

\* The row, with another status.
Marked(r, status) == [r EXCEPT !.status = status]

LEMMA MarkedRow ==
  ASSUME NEW r, IsRow(r), NEW status
  PROVE  Marked(r, status) = Row(r.what, r.copy, r.owner, status)
<1>1. r = [what |-> r.what, copy |-> r.copy, owner |-> r.owner, status |-> r.status]
  BY DEF IsRow, Row
<1> QED
  BY <1>1 DEF Marked, Row

LEMMA MarkedFields ==
  ASSUME NEW r, IsRow(r), NEW status
  PROVE  /\ IsRow(Marked(r, status)) /\ Marked(r, status).what = r.what
         /\ Marked(r, status).copy = r.copy /\ Marked(r, status).owner = r.owner
         /\ Marked(r, status).status = status
<1>1. PICK m : m = Marked(r, status)
  OBVIOUS
<1>2. m = Row(r.what, r.copy, r.owner, status)
  BY <1>1, MarkedRow
<1> QED
  BY <1>1, <1>2, RowFields

\* The database with other rows in list s.
With(d, s, rows) == [d EXCEPT !.rows[s] = rows]

LEMMA WithBecomes ==
  ASSUME NEW d, IsDb(d), NEW s \in Lists, NEW rows, \A r \in rows : IsRow(r)
  PROVE  /\ Becomes(d, With(d, s, rows), s, rows)
         /\ \A t \in Lists \ {s} : With(d, s, rows).rows[t] = d.rows[t]
         /\ With(d, s, rows).balance = d.balance
<1>1. PICK lists : lists = [t \in Lists |-> IF t = s THEN rows ELSE d.rows[t]]
  OBVIOUS
<1>2. [d.rows EXCEPT ![s] = rows] = lists
  BY <1>1 DEF IsDb, IsLists
<1>3. PICK w : w = With(d, s, rows)
  OBVIOUS
<1>4. w = [admins |-> d.admins, balance |-> d.balance, rows |-> lists]
  <2>1. PICK x : x = d.rows
    OBVIOUS
  <2>2. w = [d EXCEPT !.rows = lists]
    BY <1>2, <1>3 DEF With
  <2>3. d = [admins |-> d.admins, balance |-> d.balance, rows |-> d.rows]
    BY DEF IsDb
  <2> QED
    BY <2>2, <2>3
<1>5. w.admins = d.admins /\ w.balance = d.balance /\ w.rows = lists
  BY <1>4
<1>6. IsLists(lists)
  BY <1>1 DEF IsLists, IsDb
<1>7. IsDb(w)
  BY <1>4, <1>5, <1>6 DEF IsDb
<1> QED
  BY <1>1, <1>3, <1>5, <1>7 DEF Becomes

LEMMA BalanceOnly ==
  ASSUME NEW d, IsDb(d), NEW b
  PROVE  /\ IsDb([d EXCEPT !.balance = b])
         /\ [d EXCEPT !.balance = b].admins = d.admins
         /\ [d EXCEPT !.balance = b].rows = d.rows
         /\ [d EXCEPT !.balance = b].balance = b
<1>1. PICK w : w = [d EXCEPT !.balance = b]
  OBVIOUS
<1>2. w = [admins |-> d.admins, balance |-> b, rows |-> d.rows]
  <2>1. d = [admins |-> d.admins, balance |-> d.balance, rows |-> d.rows]
    BY DEF IsDb
  <2> QED
    BY <1>1, <2>1
<1>3. w.admins = d.admins /\ w.balance = b /\ w.rows = d.rows
  BY <1>2
<1>4. IsDb(w)
  BY <1>2, <1>3 DEF IsDb
<1> QED
  BY <1>1, <1>3, <1>4

LEMMA InsertBecomes ==
  ASSUME NEW d, IsDb(d), NEW s \in Lists, NEW what, NEW owner, NEW status
  PROVE  Becomes(d, Insert(d, s, what, owner, status), s,
                 d.rows[s] \cup
                   {Row(what, Cardinality(Named(d, s, what)) + 1, owner, status)})
<1> DEFINE new == Row(what, Cardinality(Named(d, s, what)) + 1, owner, status)
<1>1. Insert(d, s, what, owner, status) = With(d, s, d.rows[s] \cup {new})
  BY DEF Insert, With, IsDb, IsLists
<1>2. IsRow(new)
  BY RowFields
<1> HIDE DEF new
<1>3. \A r \in d.rows[s] \cup {new} : IsRow(r)
  BY <1>2 DEF IsDb, IsLists
<1>4. Becomes(d, With(d, s, d.rows[s] \cup {new}), s, d.rows[s] \cup {new})
  BY <1>3, WithBecomes
<1> QED
  BY <1>1, <1>4 DEF new

\* All the rows, those of which have the status.
Remarked(all, those, status) == (all \ those) \cup {Marked(r, status) : r \in those}

LEMMA PatchBecomes ==
  ASSUME NEW d, IsDb(d), NEW s \in Lists, NEW rows \in SUBSET d.rows[s], NEW status
  PROVE  /\ Becomes(d, Patch(d, s, rows, status), s, Remarked(d.rows[s], rows, status))
         /\ \A t \in Lists \ {s} : Patch(d, s, rows, status).rows[t] = d.rows[t]
         /\ Patch(d, s, rows, status).balance = d.balance
<1> DEFINE all == (d.rows[s] \ rows) \cup {Marked(r, status) : r \in rows}
<1>1. Patch(d, s, rows, status) = With(d, s, all)
  BY DEF Patch, With, IsDb, IsLists, Marked
<1>2. \A r \in all : IsRow(r)
  <2>1. \A r \in d.rows[s] : IsRow(r)
    BY DEF IsDb, IsLists
  <2>2. \A r \in rows : IsRow(Marked(r, status))
    BY <2>1, MarkedFields
  <2> QED
    BY <2>1, <2>2
<1> HIDE DEF all
<1>3. /\ Becomes(d, With(d, s, all), s, all)
      /\ \A t \in Lists \ {s} : With(d, s, all).rows[t] = d.rows[t]
      /\ With(d, s, all).balance = d.balance
  BY <1>2, WithBecomes
<1> QED
  BY <1>1, <1>3 DEF all, Remarked

LEMMA NotifyBecomes ==
  ASSUME NEW d, IsDb(d), NEW u
  PROVE  /\ IsDb(Notify(d, u)) /\ Notify(d, u).admins = d.admins
         /\ \A t \in Lists \ {"notifications"} : Notify(d, u).rows[t] = d.rows[t]
<1>1. CASE u \in Clients
  <2> DEFINE rest == {r \in d.rows["notifications"] : r.owner # u}
             news == Row("news", 1, u, "unread")
  <2>1. "notifications" \in Lists
    BY DEF Lists
  <2>2. Notify(d, u) = With(d, "notifications", rest \cup {news})
    BY <1>1, <2>1 DEF Notify, With, IsDb, IsLists
  <2>3. \A r \in rest \cup {news} : IsRow(r)
    BY <2>1, RowFields DEF IsDb, IsLists
  <2> HIDE DEF rest, news
  <2>4. PICK rows : rows = rest \cup {news}
    OBVIOUS
  <2>5. /\ Becomes(d, With(d, "notifications", rows), "notifications", rows)
        /\ \A t \in Lists \ {"notifications"} :
             With(d, "notifications", rows).rows[t] = d.rows[t]
    BY <2>1, <2>3, <2>4, WithBecomes
  <2> QED
    BY <2>2, <2>4, <2>5 DEF Becomes
<1>2. CASE u \notin Clients
  BY <1>2 DEF Notify
<1> QED
  BY <1>1, <1>2

LEMMA NotifiedToo ==
  ASSUME NEW d, NEW d2, NEW s \in Lists \ {"notifications"}, NEW rows, NEW u,
         Becomes(d, d2, s, rows)
  PROVE  Becomes(d, Notify(d2, u), s, rows)
BY NotifyBecomes DEF Becomes

\* What only one list says is as it was when that list is.
LEMMA OtherLists ==
  ASSUME NEW d, NEW d2, NEW s \in Lists, NEW rows, Good(d), Becomes(d, d2, s, rows)
  PROVE  /\ s # "reservations" => OneHour(d2)
         /\ s # "people" => OneAccount(d2)
         /\ s # "rooms" => NewRooms(d2) = NewRooms(d)
<1>1. {"reservations", "people", "rooms"} \subseteq Lists \ {"notifications"}
  BY DEF Lists
<1>2. s # "reservations" => Live(d2) = Live(d)
  BY <1>1 DEF Live, Becomes
<1>3. s # "people" => Named(d2, "people", "name") = Named(d, "people", "name")
  BY <1>1 DEF Named, Becomes
<1>4. s # "rooms" => NewRooms(d2) = NewRooms(d)
  BY <1>1 DEF NewRooms, Named, Becomes
<1> QED
  BY <1>2, <1>3, <1>4 DEF Good, OneHour, OneAccount

Elsewheres == Lists \ {"reservations", "people", "rooms"}

LEMMA ReserveKeeps ==
  ASSUME NEW d, Good(d), NEW u, NEW d2 \in Reserve(d, u)
  PROVE  Good(d2) /\ NewRooms(d2) = NewRooms(d)
<1>1. PICK b : b = [d EXCEPT !.balance[u] = @ - 1]
  OBVIOUS
<1>2. Live(d) = {} /\ d2 = Notify(Insert(b, "reservations", "hour", u, "CONFIRMED"), u)
  BY <1>1 DEF Reserve
<1>3. IsDb(b) /\ b.admins = d.admins /\ b.rows = d.rows
  <2>1. PICK c : c = [d.balance EXCEPT ![u] = d.balance[u] - 1]
    OBVIOUS
  <2>2. b = [d EXCEPT !.balance = c]
    BY <1>1, <2>1 DEF Good, IsDb
  <2> QED
    BY <2>2, BalanceOnly DEF Good
<1>4. "reservations" \in Lists \ {"notifications"}
  BY DEF Lists
<1>5. PICK new : /\ IsRow(new)
                 /\ Becomes(b, Insert(b, "reservations", "hour", u, "CONFIRMED"),
                            "reservations", b.rows["reservations"] \cup {new})
  BY <1>3, <1>4, InsertBecomes, RowFields
<1>6. PICK rows : rows = d.rows["reservations"] \cup {new}
  OBVIOUS
<1>7. Becomes(d, d2, "reservations", rows)
  <2>1. PICK d1 : d1 = Insert(b, "reservations", "hour", u, "CONFIRMED")
    OBVIOUS
  <2>2. Becomes(d, d1, "reservations", rows)
    BY <1>3, <1>5, <1>6, <2>1 DEF Becomes
  <2> QED
    BY <1>2, <1>4, <2>1, <2>2, NotifiedToo
<1>8. Live(d2) \subseteq {new}
  BY <1>2, <1>6, <1>7 DEF Live, Becomes
<1> QED
  BY <1>4, <1>7, <1>8, OtherLists DEF Good, OneHour, Becomes

LEMMA CancelKeeps ==
  ASSUME NEW d, Good(d), NEW u, NEW d2 \in Cancel(d, u)
  PROVE  Good(d2) /\ NewRooms(d2) = NewRooms(d)
<1>1. PICK mine : mine = {r \in Live(d) : r.owner = u}
  OBVIOUS
<1>2. PICK d1 : d1 = Notify(Patch(d, "reservations", mine, "CANCELLED"), u)
  OBVIOUS
<1>3. d2 = d1 \/ d2 = [d1 EXCEPT !.balance[u] = @ + 1]
  BY <1>1, <1>2 DEF Cancel
<1>4. "reservations" \in Lists \ {"notifications"} /\ mine \in SUBSET d.rows["reservations"]
  BY <1>1 DEF Lists, Live
<1>5. PICK rows : rows = Remarked(d.rows["reservations"], mine, "CANCELLED")
  OBVIOUS
<1>6. Becomes(d, d1, "reservations", rows)
  <2>1. PICK d0 : d0 = Patch(d, "reservations", mine, "CANCELLED")
    OBVIOUS
  <2>2. Becomes(d, d0, "reservations", rows)
    BY <1>4, <1>5, <2>1, PatchBecomes DEF Good
  <2> QED
    BY <1>2, <1>4, <2>1, <2>2, NotifiedToo
<1>7. Becomes(d, d2, "reservations", rows)
  <2>1. CASE d2 = d1
    BY <1>6, <2>1
  <2>2. CASE d2 = [d1 EXCEPT !.balance[u] = @ + 1]
    <3>1. PICK c : c = [d1.balance EXCEPT ![u] = d1.balance[u] + 1]
      OBVIOUS
    <3>2. d2 = [d1 EXCEPT !.balance = c]
      BY <1>6, <2>2, <3>1 DEF Becomes, IsDb
    <3> QED
      BY <1>6, <3>2, BalanceOnly DEF Becomes
  <2> QED
    BY <1>3, <2>1, <2>2
<1>8. Live(d2) \subseteq Live(d)
  <2>1. \A r \in mine : Marked(r, "CANCELLED").status = "CANCELLED"
    BY <1>4, MarkedFields DEF Good, IsDb, IsLists
  <2> QED
    BY <1>5, <1>7, <2>1 DEF Live, Becomes, Remarked
<1> QED
  BY <1>4, <1>7, <1>8, OtherLists DEF Good, OneHour, Becomes

LEMMA ApproveKeeps ==
  ASSUME NEW d, Good(d), NEW d2 \in Approve(d)
  PROVE  Good(d2) /\ NewRooms(d2) = NewRooms(d)
<1>1. PICK d1 : d1 = Patch(d, "payments", d.rows["payments"], "APPROVED")
  OBVIOUS
<1>2. PICK o : d2 = Notify(Patch(d1, "invoices", d.rows["invoices"], "PAID"), o)
  BY <1>1 DEF Approve
<1>3. "payments" \in Lists \ {"notifications"} /\ "invoices" \in Lists \ {"notifications"}
      /\ "payments" # "invoices"
  BY DEF Lists
<1>4. PICK paid : Becomes(d, d1, "payments", paid)
  BY <1>1, <1>3, PatchBecomes DEF Good
<1>5. Good(d1) /\ NewRooms(d1) = NewRooms(d) /\ d1.rows["invoices"] = d.rows["invoices"]
  BY <1>3, <1>4, OtherLists DEF Good, Becomes
<1>6. PICK d3 : d3 = Patch(d1, "invoices", d.rows["invoices"], "PAID")
  OBVIOUS
<1>7. PICK invoices : Becomes(d1, d3, "invoices", invoices)
  BY <1>3, <1>5, <1>6, PatchBecomes DEF Good
<1>8. Becomes(d1, d2, "invoices", invoices)
  BY <1>2, <1>3, <1>6, <1>7, NotifiedToo
<1> QED
  BY <1>3, <1>5, <1>8, OtherLists DEF Good, Becomes

\* A call that gives some of the rows of a list another status.
LEMMA PatchKeeps ==
  ASSUME NEW d, Good(d), NEW s \in Lists \ {"reservations"}, NEW rows \in SUBSET d.rows[s],
         NEW status,
         s = "rooms" => \A r \in rows : r.what # "added",
         s = "people" => \A r \in rows : r.owner # Newcomer
  PROVE  Good(Patch(d, s, rows, status)) /\ NewRooms(Patch(d, s, rows, status)) = NewRooms(d)
<1>1. PICK d2 : d2 = Patch(d, s, rows, status)
  OBVIOUS
<1>2. PICK all : all = Remarked(d.rows[s], rows, status)
  OBVIOUS
<1>3. Becomes(d, d2, s, all)
  BY <1>1, <1>2, PatchBecomes DEF Good
<1>4. \A r \in rows : Marked(r, status).what = r.what /\ Marked(r, status).owner = r.owner
  BY MarkedFields DEF Good, IsDb, IsLists
<1>5. s = "rooms" => NewRooms(d2) = NewRooms(d)
  <2> SUFFICES ASSUME s = "rooms" PROVE NewRooms(d2) = NewRooms(d)
    OBVIOUS
  <2>1. d2.rows["rooms"] = (d.rows["rooms"] \ rows) \cup {Marked(r, status) : r \in rows}
    BY <1>2, <1>3 DEF Becomes, Remarked
  <2>2. \A r \in {Marked(q, status) : q \in rows} : r.what # "added"
    BY <1>4
  <2>3. NewRooms(d2) \subseteq NewRooms(d)
    BY <2>1, <2>2 DEF NewRooms, Named
  <2>4. NewRooms(d) \subseteq NewRooms(d2)
    BY <2>1 DEF NewRooms, Named
  <2> QED
    BY <2>3, <2>4
<1>6. s = "people" => OneAccount(d2)
  <2> SUFFICES ASSUME s = "people",
                      NEW r \in Named(d2, "people", "name"),
                      NEW q \in Named(d2, "people", "name"),
                      r.owner = Newcomer, q.owner = Newcomer
               PROVE  r = q
    BY DEF OneAccount
  <2>1. d2.rows["people"] = (d.rows["people"] \ rows) \cup {Marked(x, status) : x \in rows}
    BY <1>2, <1>3 DEF Becomes, Remarked
  <2>2. \A x \in {Marked(y, status) : y \in rows} : x.owner # Newcomer
    BY <1>4
  <2>3. r \in Named(d, "people", "name") /\ q \in Named(d, "people", "name")
    BY <2>1, <2>2 DEF Named
  <2> QED
    BY <2>3 DEF Good, OneAccount
<1>7. IsDb(d2)
  BY <1>3 DEF Becomes
<1>8. /\ s # "reservations" => OneHour(d2)
      /\ s # "people" => OneAccount(d2)
      /\ s # "rooms" => NewRooms(d2) = NewRooms(d)
  BY <1>3, OtherLists
<1> QED
  BY <1>1, <1>5, <1>6, <1>7, <1>8 DEF Good

LEMMA NumberedCount ==
  ASSUME NEW d, NEW n \in Nat, Numbered(d, n)
  PROVE  Cardinality(NewRooms(d)) = n
<1> DEFINE f == [i \in 1..n |-> Row("added", i, NoOne, "AVAILABLE")]
<1>1. n \in Nat /\ NewRooms(d) = {Row("added", i, NoOne, "AVAILABLE") : i \in 1..n}
  BY DEF Numbered
<1>2. f \in [1..n -> NewRooms(d)] /\ \A i \in 1..n : f[i].copy = i
  BY <1>1 DEF Row
<1>3. \A r \in NewRooms(d) : \E i \in 1..n : f[i] = r
  BY <1>1
<1> HIDE DEF f
<1>4. f \in Bijection(1..n, NewRooms(d))
  BY <1>2, <1>3 DEF Bijection, Injection, Surjection, IsInjective
<1> QED
  BY <1>1, <1>4, FS_CountingElements DEF ExistsBijection

LEMMA CreateRoomNumbers ==
  ASSUME NEW d, Good(d), NEW n \in Nat, Numbered(d, n), NEW d2,
         d2 = Insert(d, "rooms", "added", NoOne, "AVAILABLE")
  PROVE  Good(d2) /\ Numbered(d2, n + 1)
<1> DEFINE new == Row("added", n + 1, NoOne, "AVAILABLE")
<1>0. n \in Nat
  BY DEF Numbered
<1>1. NewRooms(d) = {Row("added", i, NoOne, "AVAILABLE") : i \in 1..n}
  BY DEF Numbered
<1>2. Cardinality(Named(d, "rooms", "added")) = n
  BY NumberedCount DEF NewRooms
<1>3. "rooms" \in Lists
  BY DEF Lists
<1>4. Becomes(d, d2, "rooms", d.rows["rooms"] \cup {new})
  BY <1>2, <1>3, InsertBecomes DEF Good
<1>5. new.what = "added"
  BY DEF Row
<1>6. NewRooms(d2) = NewRooms(d) \cup {new}
  <2> HIDE DEF new
  <2> QED
    BY <1>4, <1>5 DEF NewRooms, Named, Becomes
<1>7. 1..(n + 1) = (1..n) \cup {n + 1}
  BY <1>0
<1>8. NewRooms(d2) = {Row("added", i, NoOne, "AVAILABLE") : i \in 1..(n + 1)}
  <2>1. \A r : r \in NewRooms(d2) <=>
                 \E i \in 1..(n + 1) : r = Row("added", i, NoOne, "AVAILABLE")
    BY <1>1, <1>6, <1>7
  <2> QED
    BY <2>1
<1>9. Good(d2)
  <2>1. PICK rows : rows = d.rows["rooms"] \cup {new}
    OBVIOUS
  <2>2. Becomes(d, d2, "rooms", rows)
    BY <1>4, <2>1
  <2>3. OneHour(d2) /\ OneAccount(d2)
    BY <1>3, <2>2, OtherLists
  <2> QED
    BY <2>2, <2>3 DEF Good, Becomes
<1>10. n + 1 \in Nat
  BY <1>0
<1> QED
  BY <1>8, <1>9, <1>10 DEF Numbered

LEMMA InsertKeeps ==
  ASSUME NEW d, Good(d), NEW s \in Lists \ {"reservations", "people"}, NEW what, NEW owner,
         NEW status, s = "rooms" => what # "added"
  PROVE  /\ Good(Insert(d, s, what, owner, status))
         /\ NewRooms(Insert(d, s, what, owner, status)) = NewRooms(d)
<1>1. PICK d2, new : /\ d2 = Insert(d, s, what, owner, status) /\ new.what = what
                     /\ Becomes(d, d2, s, d.rows[s] \cup {new})
  <2>1. PICK new : new = Row(what, Cardinality(Named(d, s, what)) + 1, owner, status)
    OBVIOUS
  <2>2. new.what = what
    BY <2>1 DEF Row
  <2> QED
    BY <2>1, <2>2, InsertBecomes DEF Good
<1>2. s = "rooms" => NewRooms(d2) = NewRooms(d)
  BY <1>1 DEF NewRooms, Named, Becomes
<1>3. PICK rows : rows = d.rows[s] \cup {new}
  OBVIOUS
<1>4. /\ IsDb(d2) /\ OneHour(d2) /\ OneAccount(d2)
      /\ s # "rooms" => NewRooms(d2) = NewRooms(d)
  BY <1>1, <1>3, OtherLists DEF Becomes
<1> QED
  BY <1>1, <1>2, <1>4 DEF Good

LEMMA CreateUserKeeps ==
  ASSUME NEW d, Good(d), NEW arg, ~\E r \in d.rows["people"] : r.owner = arg, NEW d2,
         d2 = Insert(d, "people", "name", arg, "old")
  PROVE  Good(d2) /\ NewRooms(d2) = NewRooms(d)
<1>1. "people" \in Lists
  BY DEF Lists
<1>2. PICK new : /\ new.owner = arg
                 /\ Becomes(d, d2, "people", d.rows["people"] \cup {new})
  BY <1>1, InsertBecomes, RowFields DEF Good
<1>3. OneAccount(d2)
  <2> SUFFICES ASSUME NEW r \in Named(d2, "people", "name"), NEW q \in Named(d2, "people", "name"),
                      r.owner = Newcomer, q.owner = Newcomer
               PROVE  r = q
    BY DEF OneAccount
  <2>1. Named(d2, "people", "name") \subseteq Named(d, "people", "name") \cup {new}
    BY <1>2 DEF Named, Becomes
  <2>2. arg = Newcomer => r = new /\ q = new
    BY <2>1 DEF Named
  <2>3. arg # Newcomer => r \in Named(d, "people", "name") /\ q \in Named(d, "people", "name")
    BY <1>2, <2>1
  <2> QED
    BY <2>2, <2>3 DEF Good, OneAccount
<1>4. PICK rows : rows = d.rows["people"] \cup {new}
  OBVIOUS
<1> QED
  BY <1>1, <1>2, <1>3, <1>4, OtherLists DEF Good, Becomes

LEMMA DeletePhotoKeeps ==
  ASSUME NEW d, Good(d), NEW p \in Named(d, "rooms", "photo"), NEW d2,
         d2 = [d EXCEPT !.rows["rooms"] = @ \ {p}]
  PROVE  Good(d2) /\ NewRooms(d2) = NewRooms(d)
<1>1. "rooms" \in Lists
  BY DEF Lists
<1>2. d2 = With(d, "rooms", d.rows["rooms"] \ {p})
  BY DEF With, Good, IsDb
<1>3. PICK rows : rows = d.rows["rooms"] \ {p}
  OBVIOUS
<1>4. \A r \in rows : IsRow(r)
  BY <1>1, <1>3 DEF Good, IsDb, IsLists
<1>5. Becomes(d, d2, "rooms", rows)
  <2>1. d2 = With(d, "rooms", rows)
    BY <1>2, <1>3
  <2> QED
    BY <1>1, <1>4, <2>1, WithBecomes DEF Good
<1>6. NewRooms(d2) = NewRooms(d)
  BY <1>3, <1>5 DEF NewRooms, Named, Becomes
<1>7. OneHour(d2) /\ OneAccount(d2)
  BY <1>1, <1>5, OtherLists
<1> QED
  BY <1>5, <1>6, <1>7 DEF Good, Becomes

\* Nothing that is called reserves an hour twice, makes an account twice or a room
\* unasked for.
LEMMA OutcomesKeep ==
  ASSUME NEW call \in Calls, NEW arg, NEW u, NEW d, Good(d), NEW d2 \in Outcomes(call, arg, u, d),
         call = "register" => arg \in Admins
  PROVE  /\ Good(d2)
         /\ call # "createRoom" => NewRooms(d2) = NewRooms(d)
         /\ call = "createRoom" => \A n \in Nat : Numbered(d, n) => Numbered(d2, n + 1)
<1>0. {"notifications", "rooms", "contracts", "people"} \subseteq Lists \ {"reservations"}
  BY DEF Lists
<1> DEFINE Kept2 == Good(d2) /\ NewRooms(d2) = NewRooms(d)
<1>1. CASE call = "login"
  BY <1>1 DEF Outcomes
<1>2. CASE call = "register"
  <2>1. PICK a : a = d.admins \cup {arg}
    OBVIOUS
  <2>2. d2 = [d EXCEPT !.admins = a]
    BY <1>2, <2>1 DEF Outcomes
  <2>3. d2 = [admins |-> a, balance |-> d.balance, rows |-> d.rows]
    <3>1. d = [admins |-> d.admins, balance |-> d.balance, rows |-> d.rows]
      BY DEF Good, IsDb
    <3> QED
      BY <2>2, <3>1
  <2>4. d2.admins = a /\ d2.balance = d.balance /\ d2.rows = d.rows
    BY <2>3
  <2>5. IsDb(d2)
    BY <1>2, <2>1, <2>3, <2>4 DEF IsDb, Good
  <2>6. Live(d2) = Live(d) /\ Named(d2, "people", "name") = Named(d, "people", "name")
        /\ NewRooms(d2) = NewRooms(d)
    BY <2>4 DEF Live, Named, NewRooms
  <2> QED
    BY <1>2, <2>5, <2>6 DEF Good, OneHour, OneAccount
<1>3. CASE call = "logout"
  BY <1>3 DEF Outcomes
<1>4. CASE call = "reserve"
  <2>1. d2 \in Reserve(d, u)
    BY <1>4 DEF Outcomes
  <2> QED
    BY <1>4, <2>1, ReserveKeeps
<1>5. CASE call = "cancel"
  <2>1. d2 \in Cancel(d, u)
    BY <1>5 DEF Outcomes
  <2> QED
    BY <1>5, <2>1, CancelKeeps
<1>6. CASE call = "read"
  <2>1. d2 = Patch(d, "notifications", Allowed(d, u, "notifications"), "read")
    BY <1>6 DEF Outcomes
  <2>2. Allowed(d, u, "notifications") \in SUBSET d.rows["notifications"]
    BY DEF Allowed
  <2> QED
    BY <1>0, <1>6, <2>1, <2>2, PatchKeeps
<1>7. CASE call \in {"patchMe", "putProfile"}
  <2>1. PICK what : /\ u \in Users
                    /\ d2 = Patch(d, "people", {r \in Named(d, "people", what) : r.owner = u}, "new")
    BY <1>7 DEF Outcomes
  <2>2. PICK rows \in SUBSET d.rows["people"] :
          rows = {r \in Named(d, "people", what) : r.owner = u}
    BY DEF Named
  <2>3. \A r \in rows : r.owner # Newcomer
    BY <2>1, <2>2, ClientStoreAssumption DEF ClientStoreAssumption
  <2> QED
    BY <1>0, <1>7, <2>1, <2>2, <2>3, PatchKeeps
<1>8. CASE call = "approve"
  <2>1. d2 \in Approve(d)
    BY <1>8 DEF Outcomes
  <2> QED
    BY <1>8, <2>1, ApproveKeeps
<1>9. CASE call = "patchContract"
  <2>1. d2 = Patch(d, "contracts", Named(d, "contracts", "first"), arg)
    BY <1>9 DEF Outcomes
  <2>2. Named(d, "contracts", "first") \in SUBSET d.rows["contracts"]
    BY DEF Named
  <2> QED
    BY <1>0, <1>9, <2>1, <2>2, PatchKeeps
<1>10. CASE call \in {"patchRoom", "editRoom"}
  <2>1. PICK what \in {"room", "details"} : \E status :
          d2 = Patch(d, "rooms", Named(d, "rooms", what), status)
    BY <1>10 DEF Outcomes
  <2>2. PICK rows : rows = Named(d, "rooms", what)
    OBVIOUS
  <2>3. rows \in SUBSET d.rows["rooms"] /\ \A r \in rows : r.what # "added"
    BY <2>1, <2>2 DEF Named
  <2>4. PICK status : d2 = Patch(d, "rooms", rows, status)
    BY <2>1, <2>2
  <2> QED
    BY <1>0, <1>10, <2>3, <2>4, PatchKeeps
<1>11. CASE call = "createRoom"
  <2>1. d2 = Insert(d, "rooms", "added", NoOne, "AVAILABLE")
    BY <1>11 DEF Outcomes
  <2>2. Good(d2)
    <3>1. PICK rows : Becomes(d, d2, "rooms", rows)
      BY <1>0, <2>1, InsertBecomes DEF Good
    <3> QED
      BY <1>0, <3>1, OtherLists DEF Good, Becomes
  <2> QED
    BY <1>11, <2>1, <2>2, CreateRoomNumbers
<1>12. CASE call = "addPhotos"
  <2>1. d2 = Insert(d, "rooms", "photo", NoOne, "AVAILABLE")
    BY <1>12 DEF Outcomes
  <2>2. "rooms" \in Lists \ {"reservations", "people"} /\ "photo" # "added"
    BY DEF Lists
  <2> QED
    BY <1>12, <2>1, <2>2, InsertKeeps
<1>13. CASE call = "deletePhoto"
  <2>1. \E p \in Named(d, "rooms", "photo") : d2 = [d EXCEPT !.rows["rooms"] = @ \ {p}]
    BY <1>13 DEF Outcomes
  <2> QED
    BY <1>13, <2>1, DeletePhotoKeeps
<1>14. CASE call = "createUser"
  <2>1. /\ ~\E r \in d.rows["people"] : r.owner = arg
        /\ d2 = Insert(d, "people", "name", arg, "old")
    BY <1>14 DEF Outcomes
  <2> QED
    BY <1>14, <2>1, CreateUserKeeps
<1>15. CASE call = "createContract"
  <2>1. PICK b : b = [d EXCEPT !.balance[arg] = @ + MonthlyHours]
    OBVIOUS
  <2>2. d2 = Notify(Insert(b, "contracts", "further", arg, "ACTIVE"), arg)
    BY <1>15, <2>1 DEF Outcomes
  <2>3. IsDb(b) /\ b.admins = d.admins /\ b.rows = d.rows
    <3>1. PICK c : c = [d.balance EXCEPT ![arg] = d.balance[arg] + MonthlyHours]
      OBVIOUS
    <3>2. b = [d EXCEPT !.balance = c]
      BY <2>1, <3>1 DEF Good, IsDb
    <3> QED
      BY <3>2, BalanceOnly DEF Good
  <2>4. PICK d1 : d1 = Insert(b, "contracts", "further", arg, "ACTIVE")
    OBVIOUS
  <2>5. PICK rows : Becomes(b, d1, "contracts", rows)
    BY <1>0, <2>3, <2>4, InsertBecomes
  <2>6. Becomes(d, d1, "contracts", rows)
    BY <2>3, <2>5 DEF Becomes
  <2>7. "contracts" \in Lists \ {"notifications"}
    BY DEF Lists
  <2>8. Becomes(d, d2, "contracts", rows)
    BY <2>2, <2>4, <2>6, <2>7, NotifiedToo
  <2> QED
    BY <1>15, <2>7, <2>8, OtherLists DEF Good, Becomes
<1> QED
  BY <1>1, <1>2, <1>3, <1>4, <1>5, <1>6, <1>7, <1>8, <1>9, <1>10, <1>11, <1>12, <1>13,
     <1>14, <1>15 DEF Calls

-----------------------------------------------------------------------------
(* What each step of a flow does *)

\* The flow of l is the only one to take a step.
OthersKept(l) ==
  /\ AreFlows(flows')
  /\ \A m \in Lanes \ {l} : Kept(flows[m], flows'[m])

GoesOn(l) == Onward(flows[l], flows'[l], token')

Ends(l) == flows'[l].plan = <<>>

\* A fault may have been spent, and no fault is forgotten.
FaultsKept == IsBudget(budget') /\ (budget'.faults = 0 => budget.faults = 0)

LEMMA NotTheLast ==
  ASSUME NEW plan, IsPlan(plan), plan # <<>>, Head(plan) \notin {"wallet", "mark", "clear"}
  PROVE  Len(plan) # 1 /\ Head(plan) \in Steps /\ plan[2] \notin Closings
<1>1. /\ Len(plan) # 1 /\ Len(plan) > 1 /\ Head(plan) \in Steps
      /\ Follows(Head(plan), plan[2])
  BY PlanGoesOn
<1>2. plan[2] \in Steps
  <2>1. plan \in Seq(Steps)
    BY DEF IsPlan
  <2>2. PICK n \in Nat : n = Len(plan)
    BY <2>1
  <2>3. 2 \in 1..n
    BY <1>1, <2>2
  <2> QED
    BY <2>1, <2>2, <2>3
<1> QED
  BY <1>1, <1>2, NothingFollows

LEMMA FaultIsKept ==
  ASSUME IsBudget(budget), Fault
  PROVE  IsBudget(budget') /\ budget'.faults # 0 /\ FaultsKept
<1>1. PICK b, c : b = budget /\ c = budget'
  OBVIOUS
<1>2. PICK n \in Nat : n = b.faults
  BY <1>1 DEF IsBudget
<1>3. c = [logins |-> b.logins, presses |-> b.presses, faults |-> n + 1,
           elsewhere |-> b.elsewhere]
  BY <1>1, <1>2 DEF Fault, Spend, IsBudget
<1>4. /\ c.logins = b.logins /\ c.presses = b.presses /\ c.faults = n + 1
      /\ c.elsewhere = b.elsewhere
  BY <1>3
<1>5. n + 1 \in Nat /\ n + 1 # 0
  OBVIOUS
<1>6. IsBudget(c) /\ c.faults # 0
  BY <1>3, <1>4, <1>5 DEF IsBudget
<1> QED
  BY <1>1, <1>6 DEF FaultsKept

LEMMA OptionalIsKept ==
  ASSUME IsBudget(budget), NEW refused, NEW missing, Optional(refused, missing)
  PROVE  FaultsKept
<1>1. CASE Fault
  BY <1>1, FaultIsKept
<1>2. CASE UNCHANGED budget
  BY <1>2 DEF FaultsKept
<1> QED
  BY <1>1, <1>2 DEF Optional

LEMMA ShapeFlows == Shape => AreFlows(flows)
BY DEF Shape, AreFlows

LEMMA AnsweredDoes ==
  ASSUME Shape, NEW l \in Lanes, Answered(l)
  PROVE  /\ ~Idle(l) /\ At(l) \in Calls
         /\ OthersKept(l) /\ GoesOn(l) /\ flows'[l].form = flows[l].form
         /\ token' = IF At(l) \in SignIns THEN flows[l].arg ELSE token
         /\ db' \in Outcomes(At(l), flows[l].arg, flows[l].as, db)
         /\ trusted' = (trusted /\ flows[l].alone)
         /\ UNCHANGED <<tab, budget, mixed, saves>>
<1> DEFINE f1 == [flows[l] EXCEPT !.arg = ""]
<1>1. AreFlows(flows) /\ IsFlow(flows[l]) /\ IsPlan(flows[l].plan)
  BY ShapeFlows DEF AreFlows, IsFlow, Formed
<1>2. ~Idle(l) /\ flows[l].plan # <<>> /\ At(l) \in Calls
  BY DEF Answered, Doing, Idle, At
<1>3. PICK u : /\ token' = u
               /\ u = IF At(l) \in SignIns THEN flows[l].arg ELSE token
               /\ flows' \in Overtaken(db', Proceed(l, f1, u))
               /\ db' \in Outcomes(At(l), flows[l].arg, flows[l].as, db)
  BY DEF Answered, At, SignIns
<1>4. /\ Len(flows[l].plan) # 1 /\ flows[l].plan[2] \notin Closings
  <2>1. Head(flows[l].plan) \notin {"wallet", "mark", "clear"}
    BY <1>2 DEF At, Calls
  <2> QED
    BY <1>1, <1>2, <2>1, NotTheLast
<1>5. /\ Formed(f1) /\ f1.plan = flows[l].plan /\ f1.op = flows[l].op
      /\ f1.form = flows[l].form /\ f1.alone = flows[l].alone
  <2>1. PICK f, none, g : f = flows[l] /\ none = "" /\ g = [f EXCEPT !.arg = none]
    OBVIOUS
  <2>2. g = [op |-> f.op, arg |-> none, form |-> f.form, plan |-> f.plan, as |-> f.as,
             who |-> f.who, for |-> f.for, got |-> f.got, alone |-> f.alone]
    BY <1>1, <2>1 DEF IsFlow, Formed
  <2>3. /\ g.op = f.op /\ g.arg = none /\ g.form = f.form /\ g.plan = f.plan /\ g.as = f.as
        /\ g.who = f.who /\ g.for = f.for /\ g.got = f.got /\ g.alone = f.alone
    BY <2>2
  <2>4. Formed(g)
    BY <1>1, <2>1, <2>2, <2>3 DEF IsFlow, Formed
  <2>5. f1 = g
    BY <2>1
  <2> HIDE DEF f1
  <2> QED
    BY <2>1, <2>3, <2>4, <2>5
<1> HIDE DEF f1
<1>6. PICK pr : pr = Proceed(l, f1, u)
  OBVIOUS
<1>7. /\ AreFlows(pr) /\ \A m \in Lanes \ {l} : pr[m] = flows[m]
      /\ Onward(f1, pr[l], u) /\ pr[l].form = f1.form
  BY <1>1, <1>2, <1>4, <1>5, <1>6, ProceedGoesOn
<1>8. /\ AreFlows(flows')
      /\ \A m \in Lanes : Kept(pr[m], flows'[m]) /\ flows'[m].form = pr[m].form
  <2>1. PICK d2, fl2 : d2 = db' /\ fl2 = flows'
    OBVIOUS
  <2>2. fl2 \in Overtaken(d2, pr)
    BY <1>3, <1>6, <2>1
  <2>3. AreFlows(fl2) /\ \A m \in Lanes : Kept(pr[m], fl2[m]) /\ fl2[m].form = pr[m].form
    BY <1>7, <2>2, OvertakenKeeps
  <2> QED
    BY <2>1, <2>3
<1>9. OthersKept(l)
  BY <1>7, <1>8 DEF OthersKept
<1>10. GoesOn(l) /\ flows'[l].form = flows[l].form
  BY <1>3, <1>5, <1>7, <1>8 DEF GoesOn, Onward, Kept
<1> QED
  BY <1>2, <1>3, <1>9, <1>10 DEF Answered

\* What comes of a call or a read that fails.
FailedAs(l) ==
  /\ OthersKept(l)
  /\ trusted' = FALSE /\ UNCHANGED <<mixed, saves>>
  /\ flows[l].op # "boot" =>
       /\ token' = token /\ tab' = tab
       /\ \/ Ends(l)
          \/ At(l) \in Calls /\ GoesOn(l) /\ flows'[l].form = flows[l].form
  /\ flows[l].op = "boot" =>
       /\ token' = NoOne /\ Ends(l)
       /\ tab' = IF tab.screen = "blank" THEN tab
                 ELSE [tab EXCEPT !.screen = "shown", !.me = NoOne]

LEMMA ThrowDoes ==
  ASSUME Shape, NEW l \in Lanes, ~Idle(l), NEW fl, AreFlows(fl),
         \A m \in Lanes : Kept(flows[m], fl[m]), Throw(l, fl)
  PROVE  FailedAs(l)
<1>1. AreFlows(flows) /\ IsFlow(flows[l]) /\ IsPlan(flows[l].plan) /\ flows[l].plan # <<>>
  BY ShapeFlows DEF AreFlows, IsFlow, Formed, Idle
<1> DEFINE carriesOn == flows[l].op \in {"logout", "markRead"} /\ Doing(l, Calls)
           ended == [fl EXCEPT ![l] = NoFlow]
<1>2. trusted' = FALSE /\ UNCHANGED <<mixed, saves>>
      /\ token' = IF flows[l].op = "boot" THEN NoOne ELSE token
  BY DEF Throw
<1>3. /\ AreFlows(ended) /\ ended[l].plan = <<>>
      /\ \A m \in Lanes \ {l} : ended[m] = fl[m]
  BY NoFlowIsFlow DEF AreFlows
<1>4. CASE carriesOn
  <2>1. /\ tab' = tab /\ flows' = [fl EXCEPT ![l] = Proceed(l, flows[l], token)[l]]
        /\ token' = token
    BY <1>2, <1>4 DEF Throw
  <2>2. At(l) \in Calls
    BY <1>4 DEF Doing, At
  <2>3. Len(flows[l].plan) # 1 /\ flows[l].plan[2] \notin Closings
    <3>1. Head(flows[l].plan) \notin {"wallet", "mark", "clear"}
      BY <2>2 DEF At, Calls
    <3> QED
      BY <1>1, <3>1, NotTheLast
  <2>4. PICK pr : pr = Proceed(l, flows[l], token)
    OBVIOUS
  <2>5. AreFlows(pr) /\ Onward(flows[l], pr[l], token) /\ pr[l].form = flows[l].form
    BY <1>1, <2>3, <2>4, ProceedGoesOn DEF IsFlow
  <2>6. /\ AreFlows(flows') /\ flows'[l] = pr[l]
        /\ \A m \in Lanes \ {l} : flows'[m] = fl[m]
    BY <2>1, <2>4, <2>5 DEF AreFlows
  <2>7. OthersKept(l)
    BY <2>6 DEF OthersKept
  <2> QED
    BY <1>2, <1>4, <2>1, <2>2, <2>5, <2>6, <2>7 DEF FailedAs, GoesOn
<1>5. CASE ~carriesOn /\ flows[l].op = "boot"
  <2>1. PICK t : t = [tab EXCEPT !.screen = "shown", !.me = NoOne]
    OBVIOUS
  <2>2. Render(t, ended)
    BY <1>5, <2>1 DEF Throw
  <2>3. /\ AreFlows(flows') /\ \A m \in Lanes : Same(ended[m], flows'[m])
        /\ tab' = IF tab.screen = "blank" THEN tab ELSE t
    <3> HIDE DEF ended
    <3> QED
      BY <1>3, <2>2, RenderKeeps
  <2>4. OthersKept(l) /\ Ends(l)
    BY <1>3, <2>3 DEF OthersKept, Same, Kept, Ends
  <2> QED
    BY <1>2, <1>5, <2>1, <2>3, <2>4 DEF FailedAs
<1>6. CASE ~carriesOn /\ flows[l].op # "boot"
  <2>1. tab' = tab /\ flows' = ended
    BY <1>6 DEF Throw
  <2>2. OthersKept(l) /\ Ends(l)
    BY <1>3, <2>1 DEF OthersKept, Ends
  <2> QED
    BY <1>2, <1>6, <2>1, <2>2 DEF FailedAs
<1> QED
  BY <1>4, <1>5, <1>6

LEMMA RefusedDoes ==
  ASSUME Shape, NEW l \in Lanes, Refused(l)
  PROVE  /\ FailedAs(l) /\ ~Idle(l) /\ UNCHANGED <<db, budget>>
         /\ \/ At(l) \in Calls /\ Outcomes(At(l), flows[l].arg, flows[l].as, db) = {}
            \/ At(l) \in {"me", "lists"}
<1>1. ~Idle(l) /\ AreFlows(flows) /\ \A m \in Lanes : Kept(flows[m], flows[m])
  BY ShapeFlows DEF Refused, Doing, Kept
<1> QED
  BY <1>1, ThrowDoes DEF Refused, Doing, At

LEMMA RequestLostDoes ==
  ASSUME Shape, NEW l \in Lanes, RequestLost(l)
  PROVE  /\ FailedAs(l) /\ ~Idle(l) /\ db' = db
         /\ IsBudget(budget') /\ budget'.faults # 0
         /\ At(l) \in Calls \cup {"me", "lists"}
<1>1. ~Idle(l) /\ AreFlows(flows) /\ \A m \in Lanes : Kept(flows[m], flows[m])
  BY ShapeFlows DEF RequestLost, Doing, Kept
<1>2. IsBudget(budget') /\ budget'.faults # 0
  BY FaultIsKept DEF RequestLost, Shape
<1> QED
  BY <1>1, <1>2, ThrowDoes DEF RequestLost, Doing, At

LEMMA AnswerLostDoes ==
  ASSUME Shape, NEW l \in Lanes, AnswerLost(l)
  PROVE  /\ FailedAs(l) /\ ~Idle(l) /\ At(l) \in Calls
         /\ db' \in Outcomes(At(l), flows[l].arg, flows[l].as, db)
         /\ IsBudget(budget') /\ budget'.faults # 0
<1>1. ~Idle(l) /\ AreFlows(flows)
  BY ShapeFlows DEF AnswerLost, Doing
<1>2. PICK d, fl : /\ fl \in Overtaken(d, flows) /\ Throw(l, fl)
                   /\ db' = d /\ d \in Outcomes(At(l), flows[l].arg, flows[l].as, db)
  BY DEF AnswerLost, At
<1>3. AreFlows(fl) /\ \A m \in Lanes : Kept(flows[m], fl[m])
  BY <1>1, <1>2, OvertakenKeeps
<1>4. IsBudget(budget') /\ budget'.faults # 0
  BY FaultIsKept DEF AnswerLost, Shape
<1>5. FailedAs(l)
  BY <1>1, <1>2, <1>3, ThrowDoes
<1> QED
  BY <1>1, <1>2, <1>4, <1>5 DEF AnswerLost, Doing, At

LEMMA ReadMeDoes ==
  ASSUME Shape, NEW l \in Lanes, ReadMe(l)
  PROVE  /\ ~Idle(l) /\ At(l) = "me" /\ flows[l].as # NoOne
         /\ OthersKept(l) /\ GoesOn(l)
         /\ flows'[l].who = flows[l].as /\ flows'[l].for = token
         /\ \A s \in Together : flows'[l].got[s] = Allowed(db, token, s)
         /\ flows'[l].got["people"] = Allowed(db, flows[l].as, "people")
         /\ tab' = IF tab.screen = "blank" THEN tab ELSE [tab EXCEPT !.me = flows[l].as]
         /\ UNCHANGED <<db, token, budget, trusted, mixed, saves>>
<1> DEFINE lists == [s \in Lists |-> IF s = "people" THEN Allowed(db, flows[l].as, s)
                                     ELSE IF s \in Together THEN Allowed(db, token, s) ELSE {}]
           f1 == [flows[l] EXCEPT !.who = flows[l].as, !.for = token, !.got = lists]
           t == [tab EXCEPT !.me = flows[l].as]
<1>1. AreFlows(flows) /\ IsFlow(flows[l]) /\ IsPlan(flows[l].plan)
  BY ShapeFlows DEF AreFlows, IsFlow, Formed
<1>2. /\ ~Idle(l) /\ flows[l].plan # <<>> /\ At(l) = "me" /\ flows[l].as # NoOne
      /\ Render(t, Proceed(l, f1, token))
      /\ UNCHANGED <<db, token, budget, trusted, mixed, saves>>
  BY DEF ReadMe, Doing, Idle, At
<1>3. Len(flows[l].plan) # 1 /\ flows[l].plan[2] \notin Closings
  BY <1>1, <1>2, NotTheLast DEF At
<1>4. /\ lists = [s \in Lists |-> lists[s]]
      /\ \A s \in Together : lists[s] = Allowed(db, token, s)
      /\ lists["people"] = Allowed(db, flows[l].as, "people")
  BY DEF Together, Lists
<1>5. /\ Formed(f1) /\ f1.plan = flows[l].plan /\ f1.op = flows[l].op
      /\ f1.alone = flows[l].alone /\ f1.who = flows[l].as /\ f1.for = token
      /\ f1.got = lists
  <2>1. PICK f, q : f = flows[l] /\ q = lists
    OBVIOUS
  <2>2. PICK g : g = [f EXCEPT !.who = f.as, !.for = token, !.got = q]
    OBVIOUS
  <2>3. g = [op |-> f.op, arg |-> f.arg, form |-> f.form, plan |-> f.plan, as |-> f.as,
             who |-> f.as, for |-> token, got |-> q, alone |-> f.alone]
    <3>1. PICK g1 : g1 = [f EXCEPT !.who = f.as]
      OBVIOUS
    <3>2. PICK g2 : g2 = [g1 EXCEPT !.for = token]
      OBVIOUS
    <3>3. g1 = [op |-> f.op, arg |-> f.arg, form |-> f.form, plan |-> f.plan, as |-> f.as,
                who |-> f.as, for |-> f.for, got |-> f.got, alone |-> f.alone]
      BY <1>1, <2>1, <3>1 DEF IsFlow, Formed
    <3>4. g2 = [op |-> f.op, arg |-> f.arg, form |-> f.form, plan |-> f.plan, as |-> f.as,
                who |-> f.as, for |-> token, got |-> f.got, alone |-> f.alone]
      BY <3>2, <3>3
    <3>5. g = [g2 EXCEPT !.got = q]
      BY <2>2, <3>1, <3>2
    <3> QED
      BY <3>4, <3>5
  <2>4. /\ g.op = f.op /\ g.arg = f.arg /\ g.form = f.form /\ g.plan = f.plan /\ g.as = f.as
        /\ g.who = f.as /\ g.for = token /\ g.got = q /\ g.alone = f.alone
    BY <2>3
  <2>5. q = [s \in Lists |-> q[s]]
    BY <1>4, <2>1
  <2>6. Formed(g)
    BY <1>1, <2>1, <2>3, <2>4, <2>5 DEF IsFlow, Formed
  <2>7. f1 = g
    BY <2>1, <2>2
  <2> HIDE DEF f1, lists
  <2> QED
    BY <2>1, <2>4, <2>6, <2>7
<1> HIDE DEF f1, lists, t
<1>6. PICK pr : pr = Proceed(l, f1, token)
  OBVIOUS
<1>7. /\ AreFlows(pr) /\ \A m \in Lanes \ {l} : pr[m] = flows[m]
      /\ Onward(f1, pr[l], token) /\ pr[l].who = f1.who /\ pr[l].for = f1.for
      /\ pr[l].got = f1.got
  BY <1>1, <1>2, <1>3, <1>5, <1>6, ProceedGoesOn
<1>8. /\ AreFlows(flows') /\ \A m \in Lanes : Same(pr[m], flows'[m])
      /\ tab' = IF tab.screen = "blank" THEN tab ELSE t
  BY <1>2, <1>6, <1>7, RenderKeeps
<1>9. OthersKept(l)
  BY <1>7, <1>8 DEF OthersKept, Same
<1>10. /\ GoesOn(l) /\ flows'[l].who = flows[l].as /\ flows'[l].for = token
       /\ flows'[l].got = lists
  BY <1>2, <1>5, <1>7, <1>8 DEF GoesOn, Onward, Same, Kept
<1>11. tab' = IF tab.screen = "blank" THEN tab ELSE [tab EXCEPT !.me = flows[l].as]
  BY <1>8 DEF t
<1> QED
  BY <1>2, <1>4, <1>9, <1>10, <1>11

LEMMA ReadListsDoes ==
  ASSUME Shape, NEW l \in Lanes, ReadLists(l)
  PROVE  /\ ~Idle(l) /\ At(l) = "lists" /\ flows[l].as # NoOne
         /\ OthersKept(l) /\ GoesOn(l) /\ FaultsKept
         /\ flows'[l].who = flows[l].who /\ flows'[l].for = flows[l].for
         /\ flows'[l].alone => flows'[l].got = flows[l].got
         /\ UNCHANGED <<db, token, tab, trusted, mixed, saves>>
<1>1. AreFlows(flows) /\ IsFlow(flows[l]) /\ IsPlan(flows[l].plan)
  BY ShapeFlows DEF AreFlows, IsFlow, Formed
<1>2. /\ ~Idle(l) /\ flows[l].plan # <<>> /\ At(l) = "lists" /\ flows[l].as # NoOne
      /\ UNCHANGED <<db, token, tab, trusted, mixed, saves>>
  BY DEF ReadLists, Doing, Idle, At
<1>3. PICK f : f = flows[l]
  OBVIOUS
<1>4. PICK lost : /\ Optional(FALSE, lost # {})
                  /\ flows' = Proceed(l, [f EXCEPT !.alone = @ /\ lost = {},
                                            !.got = [s \in Lists |-> IF s \in lost THEN {}
                                                                     ELSE @[s]]], token)
  BY <1>3 DEF ReadLists
<1>5. FaultsKept
  BY <1>4, OptionalIsKept DEF Shape
<1>6. Len(flows[l].plan) # 1 /\ flows[l].plan[2] \notin Closings
  BY <1>1, <1>2, NotTheLast DEF At
<1>7. PICK q, al : /\ q = [s \in Lists |-> IF s \in lost THEN {} ELSE f.got[s]]
                   /\ al = (f.alone /\ lost = {})
  OBVIOUS
<1>8. PICK g : g = [f EXCEPT !.alone = al, !.got = q]
  OBVIOUS
<1>9. flows' = Proceed(l, g, token)
  BY <1>4, <1>7, <1>8
<1>10. g = [op |-> f.op, arg |-> f.arg, form |-> f.form, plan |-> f.plan, as |-> f.as,
            who |-> f.who, for |-> f.for, got |-> q, alone |-> al]
  <2>1. PICK g1 : g1 = [f EXCEPT !.alone = al]
    OBVIOUS
  <2>2. g1 = [op |-> f.op, arg |-> f.arg, form |-> f.form, plan |-> f.plan, as |-> f.as,
              who |-> f.who, for |-> f.for, got |-> f.got, alone |-> al]
    BY <1>1, <1>3, <2>1 DEF IsFlow, Formed
  <2>3. g = [g1 EXCEPT !.got = q]
    BY <1>8, <2>1
  <2> QED
    BY <2>2, <2>3
<1>11. /\ g.op = f.op /\ g.arg = f.arg /\ g.form = f.form /\ g.plan = f.plan /\ g.as = f.as
       /\ g.who = f.who /\ g.for = f.for /\ g.got = q /\ g.alone = al
  BY <1>10
<1>12. q = [s \in Lists |-> q[s]]
  BY <1>7
<1>13. al \in BOOLEAN /\ (al => f.alone)
  BY <1>7
<1>14. al => q = f.got
  BY <1>1, <1>3, <1>7 DEF IsFlow, Formed
<1>15. Formed(g)
  BY <1>1, <1>3, <1>10, <1>11, <1>12, <1>13 DEF IsFlow, Formed
<1>16. /\ AreFlows(flows') /\ \A m \in Lanes \ {l} : flows'[m] = flows[m]
       /\ Onward(g, flows'[l], token) /\ flows'[l].who = g.who /\ flows'[l].for = g.for
       /\ flows'[l].got = g.got
  <2>1. PICK pr : pr = Proceed(l, g, token)
    OBVIOUS
  <2>2. /\ AreFlows(pr) /\ \A m \in Lanes \ {l} : pr[m] = flows[m]
        /\ Onward(g, pr[l], token) /\ pr[l].who = g.who /\ pr[l].for = g.for
        /\ pr[l].got = g.got
    BY <1>1, <1>2, <1>3, <1>6, <1>11, <1>15, <2>1, ProceedGoesOn
  <2> QED
    BY <1>9, <2>1, <2>2
<1>17. OthersKept(l)
  BY <1>16 DEF OthersKept, Kept
<1>18. GoesOn(l) /\ (flows'[l].alone => flows'[l].got = flows[l].got)
  BY <1>2, <1>3, <1>11, <1>13, <1>14, <1>16 DEF GoesOn, Onward
<1> QED
  BY <1>2, <1>3, <1>5, <1>11, <1>16, <1>17, <1>18

LEMMA MappedShape ==
  ASSUME NEW lists
  PROVE  Mapped(lists) = [s \in Shown |-> Mapped(lists)[s]]
<1>1. Shown = {"rooms", "availabilities", "reservations", "contracts", "payments",
               "notifications", "clients"}
  BY DEF Shown, Lists
<1>2. \E a, b, c, d, e, f, g :
        Mapped(lists) = [rooms |-> a, availabilities |-> b, reservations |-> c, contracts |-> d,
                         payments |-> e, notifications |-> f, clients |-> g]
  BY DEF Mapped
<1>3. PICK m : m = Mapped(lists)
  OBVIOUS
<1>4. DOMAIN m = Shown /\ m = [s \in DOMAIN m |-> m[s]]
  BY <1>1, <1>2, <1>3
<1> QED
  BY <1>3, <1>4

LEMMA ShowListsDoes ==
  ASSUME Shape, NEW l \in Lanes, ShowLists(l)
  PROVE  /\ ~Idle(l) /\ At(l) = "rest"
         /\ OthersKept(l) /\ GoesOn(l) /\ FaultsKept
         /\ flows'[l].who = flows[l].who /\ flows'[l].for = flows[l].for
         /\ flows'[l].got = flows[l].got
         /\ \E lists :
              /\ lists = [s \in Lists |-> lists[s]]
              /\ \A s \in Lists \ {"availabilities", "people"} : lists[s] = flows[l].got[s]
              /\ flows'[l].alone =>
                   /\ lists["availabilities"] = db.rows["availabilities"]
                   /\ lists["people"] = IF flows[l].who \in Admins
                                        THEN Allowed(db, flows[l].as, "people")
                                        ELSE flows[l].got["people"]
              /\ tab' = IF tab.screen = "blank" THEN tab
                        ELSE [tab EXCEPT !.rows = Mapped(lists), !.listsFor = flows[l].for]
         /\ UNCHANGED <<db, token, trusted, mixed, saves>>
<1>1. AreFlows(flows) /\ IsFlow(flows[l]) /\ IsPlan(flows[l].plan)
  BY ShapeFlows DEF AreFlows, IsFlow, Formed
<1>2. /\ ~Idle(l) /\ flows[l].plan # <<>> /\ At(l) = "rest"
      /\ UNCHANGED <<db, token, trusted, mixed, saves>>
  BY DEF ShowLists, Doing, Idle, At
<1>3. PICK f : f = flows[l]
  OBVIOUS
<1>4. PICK missing \in BOOLEAN : \E refused, lists :
        /\ Optional(refused, missing)
        /\ lists = [f.got EXCEPT
             !["availabilities"] = IF missing THEN {} ELSE db.rows["availabilities"],
             !["people"] = IF f.who \notin Admins THEN @
                           ELSE IF missing THEN {} ELSE Allowed(db, f.as, "people")]
        /\ Render([tab EXCEPT !.rows = Mapped(lists), !.listsFor = f.for],
                  Proceed(l, [f EXCEPT !.alone = @ /\ ~missing], token))
  BY <1>3 DEF ShowLists
<1>4a. PICK refused, lists :
        /\ Optional(refused, missing)
        /\ lists = [f.got EXCEPT
             !["availabilities"] = IF missing THEN {} ELSE db.rows["availabilities"],
             !["people"] = IF f.who \notin Admins THEN @
                           ELSE IF missing THEN {} ELSE Allowed(db, f.as, "people")]
        /\ Render([tab EXCEPT !.rows = Mapped(lists), !.listsFor = f.for],
                  Proceed(l, [f EXCEPT !.alone = @ /\ ~missing], token))
  BY <1>4
<1>5. FaultsKept
  BY <1>4a, OptionalIsKept DEF Shape
<1>6. Len(flows[l].plan) # 1 /\ flows[l].plan[2] \notin Closings
  BY <1>1, <1>2, NotTheLast DEF At
<1>7. PICK al : al = (f.alone /\ ~missing)
  OBVIOUS
<1>8. PICK g : g = [f EXCEPT !.alone = al]
  OBVIOUS
<1>9. g = [op |-> f.op, arg |-> f.arg, form |-> f.form, plan |-> f.plan, as |-> f.as,
           who |-> f.who, for |-> f.for, got |-> f.got, alone |-> al]
  BY <1>1, <1>3, <1>8 DEF IsFlow, Formed
<1>10. /\ g.op = f.op /\ g.arg = f.arg /\ g.form = f.form /\ g.plan = f.plan /\ g.as = f.as
       /\ g.who = f.who /\ g.for = f.for /\ g.got = f.got /\ g.alone = al
  BY <1>9
<1>11. al \in BOOLEAN /\ (al => f.alone /\ ~missing)
  BY <1>7
<1>12. Formed(g)
  BY <1>1, <1>3, <1>9, <1>10, <1>11 DEF IsFlow, Formed
<1>13. PICK pr, t : /\ pr = Proceed(l, g, token)
                    /\ t = [tab EXCEPT !.rows = Mapped(lists), !.listsFor = f.for]
  OBVIOUS
<1>14. Render(t, pr)
  BY <1>4a, <1>7, <1>8, <1>13
<1>15. /\ AreFlows(pr) /\ \A m \in Lanes \ {l} : pr[m] = flows[m]
       /\ Onward(g, pr[l], token) /\ pr[l].who = g.who /\ pr[l].for = g.for
       /\ pr[l].got = g.got
  BY <1>1, <1>2, <1>3, <1>6, <1>10, <1>12, <1>13, ProceedGoesOn
<1>16. /\ AreFlows(flows') /\ \A m \in Lanes : Same(pr[m], flows'[m])
       /\ tab' = IF tab.screen = "blank" THEN tab ELSE t
  BY <1>14, <1>15, RenderKeeps
<1>17. OthersKept(l)
  BY <1>15, <1>16 DEF OthersKept, Same
<1>18. /\ GoesOn(l) /\ flows'[l].who = flows[l].who /\ flows'[l].for = flows[l].for
       /\ flows'[l].got = flows[l].got /\ (flows'[l].alone => ~missing)
  BY <1>2, <1>3, <1>10, <1>11, <1>15, <1>16 DEF GoesOn, Onward, Same, Kept
<1>19. PICK got : got = f.got
  OBVIOUS
<1>20. /\ got = [s \in Lists |-> got[s]]
       /\ "availabilities" \in Lists /\ "people" \in Lists
  BY <1>1, <1>3, <1>19 DEF IsFlow, Formed, Lists
<1>21. /\ lists = [s \in Lists |-> lists[s]]
       /\ \A s \in Lists \ {"availabilities", "people"} : lists[s] = got[s]
       /\ ~missing =>
            /\ lists["availabilities"] = db.rows["availabilities"]
            /\ lists["people"] = IF f.who \in Admins THEN Allowed(db, f.as, "people")
                                 ELSE got["people"]
  BY <1>4a, <1>19, <1>20
<1> QED
  BY <1>2, <1>3, <1>5, <1>13, <1>16, <1>17, <1>18, <1>19, <1>21

\* What a flow that shows the credits makes of the tab.
CreditsShown(l, t) ==
  \E missing \in BOOLEAN : \E next :
    /\ IsTab(t)
    /\ next = IF Len(flows[l].plan) > 1 THEN flows[l].plan[2] ELSE ""
    /\ t.screen = IF next = "open" THEN "shown" ELSE tab.screen
    /\ t.me = tab.me /\ t.rows = tab.rows /\ t.listsFor = tab.listsFor
    /\ IF ~missing /\ flows[l].as \in Clients
       THEN t.credits = db.balance[flows[l].as] /\ t.creditsFor = flows[l].as
       ELSE t.credits = ComputedCredits(Mapped(flows[l].got)) /\ t.creditsFor = flows[l].for
    /\ trusted' = (flows[l].alone /\ ~missing)

LEMMA ShowCreditsDoes ==
  ASSUME Shape, NEW l \in Lanes, ShowCredits(l)
  PROVE  /\ ~Idle(l) /\ At(l) = "wallet"
         /\ OthersKept(l) /\ FaultsKept
         /\ Ends(l) \/ (GoesOn(l) /\ Head(flows'[l].plan) = "addPhotos")
         /\ \E t : CreditsShown(l, t) /\ tab' = IF tab.screen = "blank" THEN tab ELSE t
         /\ UNCHANGED <<db, token, mixed, saves>>
<1>1. AreFlows(flows) /\ IsFlow(flows[l]) /\ IsPlan(flows[l].plan)
  BY ShapeFlows DEF AreFlows, IsFlow, Formed
<1>2. /\ ~Idle(l) /\ flows[l].plan # <<>> /\ At(l) = "wallet"
      /\ UNCHANGED <<db, token, mixed, saves>>
  BY DEF ShowCredits, Doing, Idle, At
<1>3. PICK f, next, rest :
        /\ f = flows[l]
        /\ next = IF Len(f.plan) > 1 THEN f.plan[2] ELSE ""
        /\ rest = IF next \in Closings THEN [f EXCEPT !.plan = Tail(@)] ELSE f
  OBVIOUS
<1>4. PICK missing \in BOOLEAN :
        LET asked == ~missing /\ f.as \in Clients
            t == [Closing(next) EXCEPT
                   !.credits = IF asked THEN db.balance[f.as]
                               ELSE ComputedCredits(Mapped(f.got)),
                   !.creditsFor = IF asked THEN f.as ELSE f.for]
        IN /\ Optional(f.as = NoOne, missing)
           /\ Render(t, Proceed(l, [rest EXCEPT !.got = NoLists], token))
           /\ trusted' = (f.alone /\ ~missing)
  BY <1>3 DEF ShowCredits
<1>4b. PICK asked, t :
        /\ asked = (~missing /\ f.as \in Clients)
        /\ t = [Closing(next) EXCEPT
                 !.credits = IF asked THEN db.balance[f.as] ELSE ComputedCredits(Mapped(f.got)),
                 !.creditsFor = IF asked THEN f.as ELSE f.for]
        /\ Optional(f.as = NoOne, missing)
        /\ Render(t, Proceed(l, [rest EXCEPT !.got = NoLists], token))
        /\ trusted' = (f.alone /\ ~missing)
  BY <1>4
<1>5. FaultsKept
  BY <1>4b, OptionalIsKept DEF Shape
<1>6. CreditsShown(l, t)
  <2>1. PICK c, cf, cl : /\ c = IF asked THEN db.balance[f.as] ELSE ComputedCredits(Mapped(f.got))
                         /\ cf = IF asked THEN f.as ELSE f.for
                         /\ cl = Closing(next)
    OBVIOUS
  <2>2. t = [cl EXCEPT !.credits = c, !.creditsFor = cf]
    BY <1>4b, <2>1
  <2>3. /\ cl = [screen |-> cl.screen, me |-> cl.me, page |-> cl.page, guest |-> cl.guest,
                 rows |-> cl.rows,
                 listsFor |-> cl.listsFor, credits |-> cl.credits, creditsFor |-> cl.creditsFor]
        /\ cl.screen = IF next = "open" THEN "shown" ELSE tab.screen
        /\ cl.me = tab.me /\ cl.rows = tab.rows /\ cl.listsFor = tab.listsFor
    <3>1. PICK b, sh, nx : b = tab /\ sh = "shown" /\ nx = next
      OBVIOUS
    <3>2. b = [screen |-> b.screen, me |-> b.me, page |-> b.page, guest |-> b.guest,
               rows |-> b.rows,
               listsFor |-> b.listsFor, credits |-> b.credits, creditsFor |-> b.creditsFor]
      BY <3>1 DEF Shape, IsTab
    <3>3. CASE next = "open"
      <4>1. cl = [b EXCEPT !.screen = sh]
        BY <2>1, <3>1, <3>3 DEF Closing
      <4>2. cl = [screen |-> sh, me |-> b.me, page |-> b.page, guest |-> b.guest, rows |-> b.rows,
                  listsFor |-> b.listsFor, credits |-> b.credits, creditsFor |-> b.creditsFor]
        BY <3>2, <4>1
      <4>3. /\ cl.screen = sh /\ cl.me = b.me /\ cl.page = b.page /\ cl.rows = b.rows
            /\ cl.listsFor = b.listsFor /\ cl.credits = b.credits /\ cl.creditsFor = b.creditsFor
        BY <4>2
      <4> QED
        BY <3>1, <3>3, <4>2, <4>3
    <3>4. CASE next # "open" /\ next \in Closings
      <4>1. cl = [b EXCEPT !.page = nx]
        BY <2>1, <3>1, <3>4 DEF Closing
      <4>2. cl = [screen |-> b.screen, me |-> b.me, page |-> nx, guest |-> b.guest, rows |-> b.rows,
                  listsFor |-> b.listsFor, credits |-> b.credits, creditsFor |-> b.creditsFor]
        BY <3>2, <4>1
      <4>3. /\ cl.screen = b.screen /\ cl.me = b.me /\ cl.page = nx /\ cl.rows = b.rows
            /\ cl.listsFor = b.listsFor /\ cl.credits = b.credits /\ cl.creditsFor = b.creditsFor
        BY <4>2
      <4> QED
        BY <3>1, <3>4, <4>2, <4>3
    <3>5. CASE next # "open" /\ next \notin Closings
      <4>1. cl = b
        BY <2>1, <3>1, <3>5 DEF Closing
      <4> QED
        BY <3>1, <3>2, <3>5, <4>1
    <3> QED
      BY <3>3, <3>4, <3>5
  <2>4. t = [screen |-> cl.screen, me |-> cl.me, page |-> cl.page, guest |-> cl.guest,
             rows |-> cl.rows,
             listsFor |-> cl.listsFor, credits |-> c, creditsFor |-> cf]
    BY <2>2, <2>3
  <2>5. /\ t.screen = cl.screen /\ t.me = cl.me /\ t.page = cl.page /\ t.rows = cl.rows
        /\ t.listsFor = cl.listsFor /\ t.credits = c /\ t.creditsFor = cf
    BY <2>4
  <2>6. IsTab(t)
    BY <2>3, <2>4, <2>5 DEF IsTab, Shape
  <2>7. CASE ~missing /\ f.as \in Clients
    <3>1. asked
      BY <1>4b, <2>7
    <3>2. t.credits = db.balance[flows[l].as] /\ t.creditsFor = flows[l].as
      BY <1>3, <2>1, <2>5, <3>1
    <3> QED
      BY <1>3, <1>4b, <2>3, <2>5, <2>6, <2>7, <3>2 DEF CreditsShown
  <2>8. CASE ~(~missing /\ f.as \in Clients)
    <3>1. ~asked
      BY <1>4b, <2>8
    <3>2. t.credits = ComputedCredits(Mapped(flows[l].got)) /\ t.creditsFor = flows[l].for
      BY <1>3, <2>1, <2>5, <3>1
    <3> QED
      BY <1>3, <1>4b, <2>3, <2>5, <2>6, <2>8, <3>2 DEF CreditsShown
  <2> QED
    BY <2>7, <2>8
<1>7. PICK g, none : none = NoLists /\ g = [rest EXCEPT !.got = none]
  OBVIOUS
<1>8. /\ f = [op |-> f.op, arg |-> f.arg, form |-> f.form, plan |-> f.plan, as |-> f.as,
              who |-> f.who, for |-> f.for, got |-> f.got, alone |-> f.alone]
      /\ IsPlan(f.plan) /\ f.plan # <<>> /\ Head(f.plan) = "wallet"
  BY <1>1, <1>2, <1>3 DEF IsFlow, Formed, At
<1>9. none = [s \in Lists |-> none[s]]
  BY <1>7 DEF NoLists
<1>10. PICK pr : pr = Proceed(l, g, token)
  OBVIOUS
<1>11. Render(t, pr)
  BY <1>4b, <1>7, <1>10
<1>12. /\ AreFlows(pr) /\ \A m \in Lanes \ {l} : pr[m] = flows[m]
       /\ pr[l].plan = <<>> \/ (Onward(f, pr[l], token) /\ Head(pr[l].plan) = "addPhotos")
  <2>1. CASE next \in Closings
    <3>1. PICK tl : tl = Tail(f.plan)
      OBVIOUS
    <3>2. Len(f.plan) > 1 /\ f.plan[2] \in Closings
      BY <1>3, <2>1 DEF Closings
    <3>3. Len(f.plan) = 2
      BY <1>8, <3>2, ClosingIsLast
    <3>4. Len(tl) = 1
      BY <1>8, <3>1, <3>3 DEF IsPlan
    <3>5. rest = [op |-> f.op, arg |-> f.arg, form |-> f.form, plan |-> tl, as |-> f.as,
                  who |-> f.who, for |-> f.for, got |-> f.got, alone |-> f.alone]
      BY <1>3, <1>8, <2>1, <3>1
    <3>6. g = [op |-> f.op, arg |-> f.arg, form |-> f.form, plan |-> tl, as |-> f.as,
               who |-> f.who, for |-> f.for, got |-> none, alone |-> f.alone]
      BY <1>7, <3>5
    <3>7. g.plan = tl
      BY <3>6
    <3>8. pr = [flows EXCEPT ![l] = NoFlow]
      BY <1>10, <3>4, <3>7 DEF Proceed
    <3>9. /\ pr[l] = NoFlow /\ \A m \in Lanes \ {l} : pr[m] = flows[m]
          /\ pr = [m \in Lanes |-> pr[m]]
      BY <1>1, <3>8 DEF AreFlows
    <3> QED
      BY <1>1, <3>9, NoFlowIsFlow DEF AreFlows
  <2>2. CASE next \notin Closings
    <3>1. g = [op |-> f.op, arg |-> f.arg, form |-> f.form, plan |-> f.plan, as |-> f.as,
               who |-> f.who, for |-> f.for, got |-> none, alone |-> f.alone]
      BY <1>3, <1>7, <1>8, <2>2
    <3>2. /\ g.op = f.op /\ g.arg = f.arg /\ g.form = f.form /\ g.plan = f.plan /\ g.as = f.as
          /\ g.who = f.who /\ g.for = f.for /\ g.got = none /\ g.alone = f.alone
      BY <3>1
    <3>3. Formed(g)
      BY <1>1, <1>3, <1>9, <3>1, <3>2 DEF IsFlow, Formed
    <3>4. Len(g.plan) > 1 => g.plan[2] \notin Closings
      BY <1>3, <2>2, <3>2
    <3>5. /\ AreFlows(pr) /\ \A m \in Lanes \ {l} : pr[m] = flows[m]
          /\ Len(g.plan) = 1 => pr[l] = NoFlow
          /\ Len(g.plan) # 1 => Onward(g, pr[l], token)
      BY <1>1, <1>8, <1>10, <3>2, <3>3, <3>4, ProceedGoesOn
    <3>6. CASE Len(g.plan) = 1
      BY <3>5, <3>6, NoFlowIsFlow
    <3>7. CASE Len(g.plan) # 1
      <4>1. Onward(f, pr[l], token)
        BY <3>2, <3>5, <3>7 DEF Onward
      <4>2. Head(pr[l].plan) = "addPhotos"
        BY <1>8, <4>1 DEF Onward, Follows
      <4> QED
        BY <3>5, <4>1, <4>2
    <3> QED
      BY <3>6, <3>7
  <2> QED
    BY <2>1, <2>2
<1>13. /\ AreFlows(flows') /\ \A m \in Lanes : Same(pr[m], flows'[m])
       /\ tab' = IF tab.screen = "blank" THEN tab ELSE t
  BY <1>11, <1>12, RenderKeeps
<1>14. OthersKept(l)
  BY <1>12, <1>13 DEF OthersKept, Same
<1>15. Ends(l) \/ (GoesOn(l) /\ Head(flows'[l].plan) = "addPhotos")
  BY <1>2, <1>3, <1>12, <1>13 DEF Ends, GoesOn, Onward, Same, Kept
<1> QED
  BY <1>2, <1>5, <1>6, <1>13, <1>14, <1>15

LEMMA LastEnds ==
  ASSUME Shape, NEW l \in Lanes, ~Idle(l), At(l) \in {"mark", "clear"}, NEW t, NEW u,
         Render(t, Proceed(l, flows[l], u))
  PROVE  OthersKept(l) /\ Ends(l) /\ tab' = IF tab.screen = "blank" THEN tab ELSE t
<1>1. /\ AreFlows(flows) /\ Formed(flows[l]) /\ IsPlan(flows[l].plan) /\ flows[l].plan # <<>>
  BY ShapeFlows DEF AreFlows, IsFlow, Formed, Idle
<1>2. Len(flows[l].plan) = 1
  <2> SUFFICES ASSUME Len(flows[l].plan) # 1 PROVE FALSE
    OBVIOUS
  <2>1. Follows(At(l), flows[l].plan[2])
    BY <1>1, PlanGoesOn DEF At
  <2> QED
    BY <2>1 DEF Follows
<1>3. PICK pr : pr = Proceed(l, flows[l], u)
  OBVIOUS
<1>4. AreFlows(pr) /\ pr[l] = NoFlow /\ \A m \in Lanes \ {l} : pr[m] = flows[m]
  BY <1>1, <1>2, <1>3, ProceedGoesOn
<1>5. /\ AreFlows(flows') /\ \A m \in Lanes : Same(pr[m], flows'[m])
      /\ tab' = IF tab.screen = "blank" THEN tab ELSE t
  BY <1>3, <1>4, RenderKeeps
<1> QED
  BY <1>4, <1>5, NoFlowIsFlow DEF OthersKept, Ends, Same, Kept

LEMMA ClearDoes ==
  ASSUME Shape, NEW l \in Lanes, Clear(l)
  PROVE  /\ ~Idle(l) /\ At(l) = "clear" /\ OthersKept(l) /\ Ends(l)
         /\ token' = NoOne
         /\ tab' = IF tab.screen = "blank" THEN tab ELSE Forget(tab)
         /\ mixed' = (mixed \/ ~Others(l))
         /\ trusted' = FALSE
         /\ UNCHANGED <<db, budget, saves>>
<1>1. ~Idle(l) /\ At(l) = "clear"
  BY DEF Clear, Doing, At
<1>2. Render(Forget(tab), Proceed(l, flows[l], NoOne))
  BY DEF Clear
<1>3. OthersKept(l) /\ Ends(l) /\ tab' = IF tab.screen = "blank" THEN tab ELSE Forget(tab)
  BY <1>1, <1>2, LastEnds
<1>4. mixed' = (mixed \/ ~Others(l))
  <2>1. (\E k \in Lanes \ {l} : ~Idle(k)) <=> ~Others(l)
    BY DEF Others
  <2> QED
    BY <2>1 DEF Clear, Shape
<1> QED
  BY <1>1, <1>3, <1>4 DEF Clear

MarkedRows(rows) ==
  [rows EXCEPT !.notifications = {[n EXCEPT !.status = "read"] : n \in @}]

LEMMA MarkDoes ==
  ASSUME Shape, NEW l \in Lanes, Mark(l)
  PROVE  /\ ~Idle(l) /\ At(l) = "mark" /\ OthersKept(l) /\ Ends(l)
         /\ tab' = IF tab.screen = "blank" THEN tab
                   ELSE [tab EXCEPT !.rows = MarkedRows(tab.rows)]
         /\ trusted' = (trusted /\ flows[l].alone)
         /\ UNCHANGED <<db, token, budget, mixed, saves>>
<1>1. ~Idle(l) /\ At(l) = "mark"
  BY DEF Mark, Doing, At
<1>2. PICK t : t = [tab EXCEPT !.rows.notifications =
                                 {[n EXCEPT !.status = "read"] : n \in @}]
  OBVIOUS
<1>3. t = [tab EXCEPT !.rows = MarkedRows(tab.rows)]
  BY <1>2 DEF MarkedRows, Shape, IsTab
<1>4. Render(t, Proceed(l, flows[l], token))
  BY <1>2 DEF Mark
<1>5. OthersKept(l) /\ Ends(l) /\ tab' = IF tab.screen = "blank" THEN tab ELSE t
  BY <1>1, <1>4, LastEnds
<1> QED
  BY <1>1, <1>3, <1>5 DEF Mark

-----------------------------------------------------------------------------
(* What becomes of the tab *)

LEMMA SetPage ==
  ASSUME NEW t, IsTab(t), NEW p, NEW n, n = [t EXCEPT !.page = p]
  PROVE  /\ IsTab(n) /\ n.screen = t.screen /\ n.me = t.me /\ n.rows = t.rows
         /\ n.listsFor = t.listsFor /\ n.credits = t.credits /\ n.creditsFor = t.creditsFor
<1>1. n = [screen |-> t.screen, me |-> t.me, page |-> p, guest |-> t.guest, rows |-> t.rows,
           listsFor |-> t.listsFor, credits |-> t.credits, creditsFor |-> t.creditsFor]
  BY DEF IsTab
<1>2. /\ n.screen = t.screen /\ n.me = t.me /\ n.page = p /\ n.guest = t.guest
      /\ n.rows = t.rows
      /\ n.listsFor = t.listsFor /\ n.credits = t.credits /\ n.creditsFor = t.creditsFor
  BY <1>1
<1>3. IsTab(n)
  BY <1>1, <1>2 DEF IsTab
<1> QED
  BY <1>2, <1>3

LEMMA SetGuest ==
  ASSUME NEW t, IsTab(t), NEW p, NEW n, n = [t EXCEPT !.guest = p]
  PROVE  /\ IsTab(n) /\ n.screen = t.screen /\ n.me = t.me /\ n.rows = t.rows
         /\ n.listsFor = t.listsFor /\ n.credits = t.credits /\ n.creditsFor = t.creditsFor
<1>1. n = [screen |-> t.screen, me |-> t.me, page |-> t.page, guest |-> p, rows |-> t.rows,
           listsFor |-> t.listsFor, credits |-> t.credits, creditsFor |-> t.creditsFor]
  BY DEF IsTab
<1>2. /\ n.screen = t.screen /\ n.me = t.me /\ n.page = t.page /\ n.guest = p
      /\ n.rows = t.rows
      /\ n.listsFor = t.listsFor /\ n.credits = t.credits /\ n.creditsFor = t.creditsFor
  BY <1>1
<1>3. IsTab(n)
  BY <1>1, <1>2 DEF IsTab
<1> QED
  BY <1>2, <1>3

LEMMA SetMe ==
  ASSUME NEW t, IsTab(t), NEW u, NEW n, n = [t EXCEPT !.me = u]
  PROVE  /\ IsTab(n) /\ n.screen = t.screen /\ n.me = u /\ n.rows = t.rows
         /\ n.listsFor = t.listsFor /\ n.credits = t.credits /\ n.creditsFor = t.creditsFor
<1>1. n = [screen |-> t.screen, me |-> u, page |-> t.page, guest |-> t.guest, rows |-> t.rows,
           listsFor |-> t.listsFor, credits |-> t.credits, creditsFor |-> t.creditsFor]
  BY DEF IsTab
<1>2. /\ n.screen = t.screen /\ n.me = u /\ n.page = t.page /\ n.guest = t.guest
      /\ n.rows = t.rows
      /\ n.listsFor = t.listsFor /\ n.credits = t.credits /\ n.creditsFor = t.creditsFor
  BY <1>1
<1>3. IsTab(n)
  BY <1>1, <1>2 DEF IsTab
<1> QED
  BY <1>2, <1>3

LEMMA SetScreen ==
  ASSUME NEW t, IsTab(t), NEW s, NEW n, n = [t EXCEPT !.screen = s]
  PROVE  /\ IsTab(n) /\ n.screen = s /\ n.me = t.me /\ n.rows = t.rows
         /\ n.listsFor = t.listsFor /\ n.credits = t.credits /\ n.creditsFor = t.creditsFor
<1>1. n = [screen |-> s, me |-> t.me, page |-> t.page, guest |-> t.guest, rows |-> t.rows,
           listsFor |-> t.listsFor, credits |-> t.credits, creditsFor |-> t.creditsFor]
  BY DEF IsTab
<1>2. /\ n.screen = s /\ n.me = t.me /\ n.page = t.page /\ n.guest = t.guest /\ n.rows = t.rows
      /\ n.listsFor = t.listsFor /\ n.credits = t.credits /\ n.creditsFor = t.creditsFor
  BY <1>1
<1>3. IsTab(n)
  BY <1>1, <1>2 DEF IsTab
<1> QED
  BY <1>2, <1>3

LEMMA SetRows ==
  ASSUME NEW t, IsTab(t), NEW rows, rows = [s \in Shown |-> rows[s]], NEW n, n = [t EXCEPT !.rows = rows]
  PROVE  /\ IsTab(n) /\ n.screen = t.screen /\ n.me = t.me /\ n.rows = rows
         /\ n.listsFor = t.listsFor /\ n.credits = t.credits /\ n.creditsFor = t.creditsFor
<1>1. n = [screen |-> t.screen, me |-> t.me, page |-> t.page, guest |-> t.guest, rows |-> rows,
           listsFor |-> t.listsFor, credits |-> t.credits, creditsFor |-> t.creditsFor]
  BY DEF IsTab
<1>2. /\ n.screen = t.screen /\ n.me = t.me /\ n.page = t.page /\ n.guest = t.guest
      /\ n.rows = rows
      /\ n.listsFor = t.listsFor /\ n.credits = t.credits /\ n.creditsFor = t.creditsFor
  BY <1>1
<1>3. IsTab(n)
  BY <1>1, <1>2 DEF IsTab
<1> QED
  BY <1>2, <1>3

LEMMA SetListsFor ==
  ASSUME NEW t, IsTab(t), NEW u, NEW n, n = [t EXCEPT !.listsFor = u]
  PROVE  /\ IsTab(n) /\ n.screen = t.screen /\ n.me = t.me /\ n.rows = t.rows
         /\ n.listsFor = u /\ n.credits = t.credits /\ n.creditsFor = t.creditsFor
<1>1. n = [screen |-> t.screen, me |-> t.me, page |-> t.page, guest |-> t.guest, rows |-> t.rows,
           listsFor |-> u, credits |-> t.credits, creditsFor |-> t.creditsFor]
  BY DEF IsTab
<1>2. /\ n.screen = t.screen /\ n.me = t.me /\ n.page = t.page /\ n.guest = t.guest
      /\ n.rows = t.rows
      /\ n.listsFor = u /\ n.credits = t.credits /\ n.creditsFor = t.creditsFor
  BY <1>1
<1>3. IsTab(n)
  BY <1>1, <1>2 DEF IsTab
<1> QED
  BY <1>2, <1>3

LEMMA FreshTab ==
  ASSUME NEW screen, NEW n, n = Fresh(screen)
  PROVE  /\ IsTab(n) /\ n.screen = screen /\ n.me = NoOne
         /\ n.rows = [s \in Shown |-> {}]
         /\ n.listsFor = NoOne /\ n.creditsFor = NoOne
<1>1. PICK none : none = [s \in Shown |-> {}]
  OBVIOUS
<1>2. n = [screen |-> screen, me |-> NoOne, page |-> "dashboard", guest |-> "login", rows |-> none,
           listsFor |-> NoOne, credits |-> 0, creditsFor |-> NoOne]
  BY <1>1 DEF Fresh
<1>3. /\ n.screen = screen /\ n.me = NoOne /\ n.page = "dashboard" /\ n.guest = "login"
      /\ n.rows = none
      /\ n.listsFor = NoOne /\ n.credits = 0 /\ n.creditsFor = NoOne
  BY <1>2
<1>4. none = [s \in Shown |-> none[s]]
  BY <1>1
<1>5. IsTab(n)
  BY <1>2, <1>3, <1>4 DEF IsTab
<1> QED
  BY <1>1, <1>3, <1>5

LEMMA ForgetTab ==
  ASSUME NEW t, IsTab(t), NEW n, n = Forget(t)
  PROVE  /\ IsTab(n) /\ n.screen = t.screen /\ n.me = NoOne
         /\ \A s \in Personal : n.rows[s] = {}
         /\ n.listsFor = NoOne /\ n.creditsFor = NoOne
<1>1. PICK f, h, g : /\ f = Fresh(t.screen)
                     /\ h = [f EXCEPT !.page = t.page] /\ g = [h EXCEPT !.guest = t.guest]
  OBVIOUS
<1>2. PICK rows : rows = [f.rows EXCEPT !["availabilities"] = t.rows["availabilities"]]
  OBVIOUS
<1>3. /\ IsTab(g) /\ g.screen = t.screen /\ g.me = NoOne /\ g.rows = [s \in Shown |-> {}]
      /\ g.listsFor = NoOne /\ g.creditsFor = NoOne /\ g.rows = f.rows
  <2>1. /\ IsTab(f) /\ f.screen = t.screen /\ f.me = NoOne /\ f.rows = [s \in Shown |-> {}]
        /\ f.listsFor = NoOne /\ f.creditsFor = NoOne
    BY <1>1, FreshTab
  <2>2. /\ IsTab(h) /\ h.screen = f.screen /\ h.me = f.me /\ h.rows = f.rows
        /\ h.listsFor = f.listsFor /\ h.creditsFor = f.creditsFor
    BY <1>1, <2>1, SetPage
  <2>3. /\ IsTab(g) /\ g.screen = h.screen /\ g.me = h.me /\ g.rows = h.rows
        /\ g.listsFor = h.listsFor /\ g.creditsFor = h.creditsFor
    <3>1. PICK guest : guest = t.guest
      OBVIOUS
    <3>2. g = [h EXCEPT !.guest = guest]
      BY <1>1, <3>1
    <3> QED
      BY <2>2, <3>2, SetGuest
  <2> QED
    BY <2>1, <2>2, <2>3
<1>4. n = [g EXCEPT !.rows = rows]
  BY <1>1, <1>2, <1>3 DEF Forget, IsTab
<1>5. /\ rows = [s \in Shown |-> rows[s]]
      /\ \A s \in Personal : rows[s] = {}
  BY <1>2, <1>3 DEF Personal
<1> QED
  BY <1>3, <1>4, <1>5, SetRows

-----------------------------------------------------------------------------
(* What the other steps do *)

LEMMA MovedDoes ==
  ASSUME Shape, Moved
  PROVE  /\ AreFlows(flows') /\ \A m \in Lanes : Same(flows[m], flows'[m])
         /\ IsTab(tab') /\ tab'.screen = "shown" /\ tab'.me = tab.me /\ tab'.rows = tab.rows
         /\ tab'.listsFor = tab.listsFor
         /\ tab'.credits = tab.credits /\ tab'.creditsFor = tab.creditsFor
<1>1. PICK page : Navigate(page) \/ Render([tab EXCEPT !.guest = page], flows)
  BY DEF Moved
<1>2. PICK t : /\ t = [tab EXCEPT !.page = page] \/ t = [tab EXCEPT !.guest = page]
               /\ Render(t, flows)
  BY <1>1 DEF Navigate
<1>3. tab.screen = "shown"
  BY DEF Moved
<1>4. AreFlows(flows') /\ (\A m \in Lanes : Same(flows[m], flows'[m])) /\ tab' = t
  BY <1>2, <1>3, ShapeFlows, RenderKeeps
<1>5. /\ IsTab(t) /\ t.screen = tab.screen /\ t.me = tab.me /\ t.rows = tab.rows
      /\ t.listsFor = tab.listsFor /\ t.credits = tab.credits /\ t.creditsFor = tab.creditsFor
  BY <1>2, SetPage, SetGuest DEF Shape
<1> QED
  BY <1>3, <1>4, <1>5

\* A button has started flow l; op and plan are as Starts has them.
Started(l, op, plan) ==
  /\ AreFlows(flows')
  /\ flows'[l].op = op /\ flows'[l].plan = plan /\ flows'[l].as = token
  /\ flows'[l].alone = Quiet
  /\ \A m \in Lanes \ {l} : Disturbed(flows[m], flows'[m])

LEMMA PressedDoes ==
  ASSUME Shape, NEW l \in Lanes, Pressed(l)
  PROVE  /\ Idle(l) /\ tab.me # NoOne /\ tab.screen = "shown" /\ NoFault
         /\ \E op, plan :
              /\ op # "boot" /\ plan # <<>>
              /\ Head(plan) \in (Calls \ SignIns) \cup {"clear"}
              /\ saves' = IF Head(plan) = "createRoom" /\ token \in Admins THEN saves + 1
                          ELSE saves
              /\ Started(l, op, plan)
         /\ IsTab(tab') /\ tab'.screen = "shown" /\ tab'.me = tab.me /\ tab'.rows = tab.rows
         /\ tab'.listsFor = tab.listsFor
         /\ tab'.credits = tab.credits /\ tab'.creditsFor = tab.creditsFor
         /\ UNCHANGED <<db, token, trusted, mixed>>
<1>1. PICK op, arg, form, plan : Starts(l, op, arg, form, plan)
  BY DEF Pressed
<1>2. tab.me # NoOne /\ tab.screen = "shown" /\ NoFault /\ UNCHANGED <<db, token, trusted, mixed>>
  BY DEF Pressed, SignedInUser
<1>3. PICK fl : fl = Begun(l, op, arg, form, plan)
  OBVIOUS
<1>4. /\ Idle(l) /\ op # "boot" /\ IsPlan(plan) /\ plan # <<>>
      /\ Head(plan) \in (Calls \ SignIns) \cup {"clear"}
      /\ saves' = IF Head(plan) = "createRoom" /\ token \in Admins THEN saves + 1 ELSE saves
      /\ \/ tab' = tab /\ flows' = fl
         \/ Render([tab EXCEPT !.page = "notifications"], fl)
  BY <1>1, <1>3 DEF Starts
<1>5. Head(plan) \notin SignIns
  BY <1>4 DEF SignIns
<1>6. /\ AreFlows(fl)
      /\ fl[l].op = op /\ fl[l].plan = plan /\ fl[l].as = token /\ fl[l].alone = Quiet
      /\ \A m \in Lanes \ {l} : Disturbed(flows[m], fl[m])
  BY <1>3, <1>4, <1>5, ShapeFlows, BegunStarts DEF SignIns
<1>7. CASE tab' = tab /\ flows' = fl
  <2>1. Started(l, op, plan)
    BY <1>6, <1>7 DEF Started
  <2> QED
    BY <1>2, <1>4, <1>7, <2>1 DEF Shape
<1>8. CASE Render([tab EXCEPT !.page = "notifications"], fl)
  <2>1. PICK t, p : p = "notifications" /\ t = [tab EXCEPT !.page = p]
    OBVIOUS
  <2>2. AreFlows(flows') /\ (\A m \in Lanes : Same(fl[m], flows'[m])) /\ tab' = t
    BY <1>2, <1>6, <1>8, <2>1, RenderKeeps
  <2>3. Started(l, op, plan)
    BY <1>6, <2>2 DEF Started, Same, Kept, Disturbed
  <2>4. /\ IsTab(t) /\ t.screen = tab.screen /\ t.me = tab.me /\ t.rows = tab.rows
        /\ t.listsFor = tab.listsFor /\ t.credits = tab.credits /\ t.creditsFor = tab.creditsFor
    BY <2>1, SetPage DEF Shape
  <2> QED
    BY <1>2, <1>4, <2>2, <2>3, <2>4
<1> QED
  BY <1>4, <1>7, <1>8

LEMMA SignedInDoes ==
  ASSUME Shape, NEW l \in Lanes, SignedIn(l)
  PROVE  /\ Idle(l) /\ tab.me = NoOne /\ tab.screen = "shown" /\ NoFault
         /\ \E plan : plan # <<>> /\ Head(plan) \in SignIns /\ Started(l, "", plan)
         /\ mixed' = (mixed \/ ~Quiet)
         /\ UNCHANGED <<db, token, tab, trusted, saves>>
<1>1. PICK u \in Users : \E plan :
        /\ IsPlan(plan) /\ plan # <<>> /\ Head(plan) \in SignIns
        /\ Head(plan) = "register" => u \in Admins
        /\ flows' = Begun(l, "", u, "guest", plan)
  BY DEF SignedIn
<1>2. PICK plan :
        /\ IsPlan(plan) /\ plan # <<>> /\ Head(plan) \in SignIns
        /\ Head(plan) = "register" => u \in Admins
        /\ flows' = Begun(l, "", u, "guest", plan)
  BY <1>1
<1>3. PICK fl, none, form : fl = flows' /\ none = "" /\ form = "guest"
  OBVIOUS
<1>4. /\ AreFlows(fl)
      /\ fl[l].op = none /\ fl[l].plan = plan /\ fl[l].as = token /\ fl[l].alone = Quiet
      /\ \A m \in Lanes \ {l} : Disturbed(flows[m], fl[m])
  <2>1. fl = Begun(l, none, u, form, plan)
    BY <1>2, <1>3
  <2>2. AreFlows(flows) /\ IsPlan(plan) /\ plan # <<>>
    BY <1>2, ShapeFlows
  <2>3. u \in Users /\ (Head(plan) = "register" => u \in Admins)
    BY <1>1, <1>2
  <2> QED
    BY <2>1, <2>2, <2>3, BegunStarts
<1>5. Started(l, "", plan)
  BY <1>3, <1>4 DEF Started
<1> QED
  BY <1>2, <1>5 DEF SignedIn

LEMMA CrashedDoes ==
  ASSUME Crashed
  PROVE  /\ tab.me # NoOne /\ tab.screen = "shown"
         /\ IsTab(tab') /\ tab'.screen = "blank" /\ tab'.me = NoOne
         /\ tab'.rows = [s \in Shown |-> {}]
         /\ tab'.listsFor = NoOne /\ tab'.creditsFor = NoOne
         /\ UNCHANGED <<db, token, flows, budget, trusted, mixed, saves>>
<1>1. PICK f, t : f = Fresh("blank") /\ t = [f EXCEPT !.page = tab.page]
  OBVIOUS
<1>2. /\ IsTab(f) /\ f.screen = "blank" /\ f.me = NoOne /\ f.rows = [s \in Shown |-> {}]
      /\ f.listsFor = NoOne /\ f.creditsFor = NoOne
  BY <1>1, FreshTab
<1>3. /\ IsTab(t) /\ t.screen = f.screen /\ t.me = f.me /\ t.rows = f.rows
      /\ t.listsFor = f.listsFor /\ t.creditsFor = f.creditsFor
  BY <1>1, <1>2, SetPage
<1>4. tab' = t /\ tab.me # NoOne /\ tab.screen = "shown"
      /\ UNCHANGED <<db, token, flows, budget, trusted, mixed, saves>>
  BY <1>1 DEF Crashed, Crash, SignedInUser
<1> QED
  BY <1>2, <1>3, <1>4

LEMMA ReloadDoes ==
  ASSUME Shape, NEW l \in Lanes, Reload(l)
  PROVE  /\ Quiet
         /\ IsTab(tab') /\ tab'.me = NoOne
         /\ tab'.rows = [s \in Shown |-> {}]
         /\ tab'.listsFor = NoOne /\ tab'.creditsFor = NoOne
         /\ trusted' = FALSE
         /\ UNCHANGED <<db, token, budget, mixed, saves>>
         /\ \/ token = NoOne /\ flows' = flows /\ tab'.screen = "shown"
            \/ /\ token # NoOne /\ tab'.screen = "booting"
               /\ \E plan :
                    /\ plan # <<>> /\ Head(plan) = "me"
                    /\ \A i \in DOMAIN plan : plan[i] \in {"me", "lists", "rest", "wallet", "open"}
                    /\ Started(l, "boot", plan)
<1>1. PICK screen : /\ screen = IF token = NoOne THEN "shown" ELSE "booting"
                    /\ tab' = Fresh(screen)
  BY DEF Reload
<1>2. /\ IsTab(tab') /\ tab'.screen = screen /\ tab'.me = NoOne
      /\ tab'.rows = [s \in Shown |-> {}] /\ tab'.listsFor = NoOne /\ tab'.creditsFor = NoOne
  <2>1. PICK t : t = tab'
    OBVIOUS
  <2>2. /\ IsTab(t) /\ t.screen = screen /\ t.me = NoOne
        /\ t.rows = [s \in Shown |-> {}] /\ t.listsFor = NoOne /\ t.creditsFor = NoOne
    BY <1>1, <2>1, FreshTab
  <2> QED
    BY <2>1, <2>2
<1>3. Quiet /\ trusted' = FALSE /\ UNCHANGED <<db, token, budget, mixed, saves>>
  BY DEF Reload
<1>4. CASE token = NoOne
  BY <1>1, <1>2, <1>3, <1>4 DEF Reload
<1>5. CASE token # NoOne
  <2>1. PICK plan, fl, boot, none :
          plan = Hydrate \o <<"open">> /\ fl = flows' /\ boot = "boot" /\ none = ""
    OBVIOUS
  <2>2. /\ IsPlan(plan) /\ plan # <<>> /\ Head(plan) = "me"
        /\ \A i \in DOMAIN plan : plan[i] \in {"me", "lists", "rest", "wallet", "open"}
    BY <2>1, BootPlan
  <2>3. fl = Begun(l, boot, none, none, plan)
    BY <1>5, <2>1 DEF Reload, Begin
  <2>4. Head(plan) \notin SignIns /\ Head(plan) # "register"
    BY <2>2 DEF SignIns
  <2>5. /\ AreFlows(fl)
        /\ fl[l].op = boot /\ fl[l].plan = plan /\ fl[l].as = token /\ fl[l].alone = Quiet
        /\ \A m \in Lanes \ {l} : Disturbed(flows[m], fl[m])
    BY <2>2, <2>3, <2>4, ShapeFlows, BegunStarts
  <2>6. Started(l, "boot", plan)
    BY <2>1, <2>5 DEF Started
  <2> QED
    BY <1>1, <1>2, <1>3, <1>5, <2>2, <2>6
<1> QED
  BY <1>4, <1>5

LEMMA ElsewhereDoes ==
  ASSUME Shape, Elsewhere
  PROVE  /\ tab.me # NoOne /\ NoFault
         /\ \E call \in OtherCalls : \E arg, u : db' \in Outcomes(call, arg, u, db)
         /\ AreFlows(flows') /\ \A m \in Lanes : Disturbed(flows[m], flows'[m])
         /\ trusted' = FALSE
         /\ UNCHANGED <<token, tab, mixed, saves>>
<1>1. AreFlows(flows)
  BY ShapeFlows
<1>2. PICK fl : /\ \E d : fl \in Overtaken(d, flows)
                /\ flows' = [l \in Lanes |-> [fl[l] EXCEPT !.alone = FALSE]]
  <2>1. PICK fl \in Overtaken(db', flows) :
          flows' = [l \in Lanes |-> [fl[l] EXCEPT !.alone = FALSE]]
    BY DEF Elsewhere
  <2> QED
    BY <2>1
<1>3. AreFlows(fl) /\ \A m \in Lanes : Kept(flows[m], fl[m])
  BY <1>1, <1>2, OvertakenKeeps
<1>4. ASSUME NEW m \in Lanes
      PROVE  IsFlow(flows'[m]) /\ Disturbed(flows[m], flows'[m])
  <2>1. PICK f, no, h : f = fl[m] /\ no = FALSE /\ h = flows'[m]
    OBVIOUS
  <2>2. h = [f EXCEPT !.alone = no]
    BY <1>2, <2>1
  <2>3. IsFlow(f)
    BY <1>3, <2>1 DEF AreFlows
  <2>4. [f EXCEPT !.alone = no] =
          [op |-> f.op, arg |-> f.arg, form |-> f.form, plan |-> f.plan, as |-> f.as,
           who |-> f.who, for |-> f.for, got |-> f.got, alone |-> no]
    BY <2>3 DEF IsFlow, Formed
  <2>5. /\ h = [op |-> h.op, arg |-> h.arg, form |-> h.form, plan |-> h.plan, as |-> h.as,
                who |-> h.who, for |-> h.for, got |-> h.got, alone |-> h.alone]
        /\ h.op = f.op /\ h.arg = f.arg /\ h.plan = f.plan /\ h.as = f.as
        /\ h.who = f.who /\ h.for = f.for /\ h.got = f.got /\ h.alone = FALSE
    BY <2>1, <2>2, <2>4
  <2>6. IsFlow(h)
    BY <2>3, <2>5 DEF IsFlow, Formed
  <2> QED
    BY <1>3, <2>1, <2>5, <2>6 DEF Kept, Disturbed
<1>5. AreFlows(flows')
  BY <1>2, <1>4 DEF AreFlows
<1>6. NoFault
  BY SpendsNoFault DEF Elsewhere, Shape
<1>7. \E call \in OtherCalls : \E arg, u : db' \in Outcomes(call, arg, u, db)
  BY DEF Elsewhere
<1> QED
  BY <1>4, <1>5, <1>6, <1>7 DEF Elsewhere

Showing(t, lists, u) == [t EXCEPT !.rows = Mapped(lists), !.listsFor = u]

LEMMA ShownTab ==
  ASSUME NEW t, IsTab(t), NEW lists, NEW u, NEW n
  PROVE  n = Showing(t, lists, u) =>
           /\ IsTab(n) /\ n.screen = t.screen /\ n.me = t.me /\ n.rows = Mapped(lists)
           /\ n.listsFor = u /\ n.credits = t.credits /\ n.creditsFor = t.creditsFor
<1>0. SUFFICES ASSUME n = Showing(t, lists, u)
               PROVE  /\ IsTab(n) /\ n.screen = t.screen /\ n.me = t.me
                      /\ n.rows = Mapped(lists) /\ n.listsFor = u
                      /\ n.credits = t.credits /\ n.creditsFor = t.creditsFor
  OBVIOUS
<1>1. PICK rows, m : rows = Mapped(lists) /\ m = [t EXCEPT !.rows = rows]
  OBVIOUS
<1>2. rows = [s \in Shown |-> rows[s]]
  BY <1>1, MappedShape
<1>3. /\ IsTab(m) /\ m.screen = t.screen /\ m.me = t.me /\ m.rows = rows
      /\ m.credits = t.credits /\ m.creditsFor = t.creditsFor
  BY <1>1, <1>2, SetRows
<1>4. n = [m EXCEPT !.listsFor = u]
  BY <1>0, <1>1 DEF Showing
<1>5. /\ IsTab(n) /\ n.screen = m.screen /\ n.me = m.me /\ n.rows = m.rows
      /\ n.listsFor = u /\ n.credits = m.credits /\ n.creditsFor = m.creditsFor
  BY <1>3, <1>4, SetListsFor
<1> QED
  BY <1>1, <1>3, <1>5

LEMMA GivenUpTab ==
  ASSUME NEW t, IsTab(t), NEW n
  PROVE  n = [t EXCEPT !.screen = "shown", !.me = NoOne] =>
           /\ IsTab(n) /\ n.screen = "shown" /\ n.me = NoOne /\ n.rows = t.rows
           /\ n.listsFor = t.listsFor /\ n.credits = t.credits /\ n.creditsFor = t.creditsFor
<1>0. SUFFICES ASSUME n = [t EXCEPT !.screen = "shown", !.me = NoOne]
               PROVE  /\ IsTab(n) /\ n.screen = "shown" /\ n.me = NoOne /\ n.rows = t.rows
                      /\ n.listsFor = t.listsFor /\ n.credits = t.credits
                      /\ n.creditsFor = t.creditsFor
  OBVIOUS
<1>1. PICK s, m : s = "shown" /\ m = [t EXCEPT !.screen = s]
  OBVIOUS
<1>2. /\ IsTab(m) /\ m.screen = s /\ m.me = t.me /\ m.rows = t.rows
      /\ m.listsFor = t.listsFor /\ m.credits = t.credits /\ m.creditsFor = t.creditsFor
  BY <1>1, SetScreen
<1>3. n = [m EXCEPT !.me = NoOne]
  BY <1>0, <1>1
<1>4. /\ IsTab(n) /\ n.screen = m.screen /\ n.me = NoOne /\ n.rows = m.rows
      /\ n.listsFor = m.listsFor /\ n.credits = m.credits /\ n.creditsFor = m.creditsFor
  BY <1>2, <1>3, SetMe
<1> QED
  BY <1>1, <1>2, <1>4

LEMMA MarkedTab ==
  ASSUME NEW t, IsTab(t), NEW n, n = [t EXCEPT !.rows = MarkedRows(t.rows)]
  PROVE  /\ IsTab(n) /\ n.screen = t.screen /\ n.me = t.me /\ n.rows = MarkedRows(t.rows)
         /\ n.listsFor = t.listsFor /\ n.credits = t.credits /\ n.creditsFor = t.creditsFor
         /\ \A s \in Shown : n.rows[s] # {} => t.rows[s] # {}
<1>1. PICK rows, old : rows = MarkedRows(t.rows) /\ old = t.rows
  OBVIOUS
<1>2. old = [s \in Shown |-> old[s]]
  BY <1>1 DEF IsTab
<1>3. PICK marked : marked = {[r EXCEPT !.status = "read"] : r \in old["notifications"]}
  OBVIOUS
<1>4. "notifications" \in Shown
  BY DEF Shown, Lists
<1>5. rows = [old EXCEPT !["notifications"] = marked]
  BY <1>1, <1>2, <1>3, <1>4 DEF MarkedRows
<1>6. rows = [s \in Shown |-> rows[s]]
  BY <1>2, <1>5
<1>7. marked # {} => old["notifications"] # {}
  BY <1>3
<1>8. \A s \in Shown : rows[s] # {} => old[s] # {}
  BY <1>2, <1>5, <1>7
<1>9. n = [t EXCEPT !.rows = rows]
  BY <1>1
<1> QED
  BY <1>1, <1>6, <1>8, <1>9, SetRows

-----------------------------------------------------------------------------
(* The shape of the state, and what the database never holds twice *)

Sound == Shape /\ OneHour(db) /\ OneAccount(db)

LEMMA SoundKeeps ==
  ASSUME IsDb(db'), OneHour(db'), OneAccount(db'), IsTab(tab'), AreFlows(flows'),
         trusted' \in BOOLEAN, mixed' \in BOOLEAN, saves' \in Nat, IsBudget(budget')
  PROVE  Sound'
BY DEF Sound, Shape, AreFlows

\* The call of a flow keeps the database good.
LEMMA CallKeeps ==
  ASSUME Sound, NEW l \in Lanes, ~Idle(l), At(l) \in Calls,
         db' \in Outcomes(At(l), flows[l].arg, flows[l].as, db)
  PROVE  /\ IsDb(db') /\ OneHour(db') /\ OneAccount(db')
         /\ At(l) # "createRoom" => NewRooms(db') = NewRooms(db)
         /\ At(l) = "createRoom" => \A n \in Nat : Numbered(db, n) => Numbered(db', n + 1)
<1>1. PICK d, e, call, arg, u :
        /\ d = db /\ e = db' /\ call = At(l) /\ arg = flows[l].arg /\ u = flows[l].as
  OBVIOUS
<1>2. call = "register" => arg \in Admins
  BY <1>1 DEF Sound, Shape, IsFlow, Idle, At
<1>3. Good(d) /\ call \in Calls /\ e \in Outcomes(call, arg, u, d)
  BY <1>1 DEF Sound, Shape, Good
<1>4. /\ Good(e)
      /\ call # "createRoom" => NewRooms(e) = NewRooms(d)
      /\ call = "createRoom" => \A n \in Nat : Numbered(d, n) => Numbered(e, n + 1)
  BY <1>2, <1>3, OutcomesKeep
<1> QED
  BY <1>1, <1>4 DEF Good

\* So does a call from elsewhere, which makes no room unless it is asked to.
LEMMA OtherCallKeeps ==
  ASSUME Sound, NEW call \in OtherCalls, NEW arg, NEW u, db' \in Outcomes(call, arg, u, db)
  PROVE  /\ IsDb(db') /\ OneHour(db') /\ OneAccount(db')
         /\ call # "createRoom" => NewRooms(db') = NewRooms(db)
<1>1. PICK d, e : d = db /\ e = db'
  OBVIOUS
<1>2. call \in Calls /\ call # "register"
  BY OtherCallsAssumption DEF OtherCallsAssumption
<1>3. Good(d) /\ e \in Outcomes(call, arg, u, d)
  BY <1>1 DEF Sound, Shape, Good
<1>4. Good(e) /\ (call # "createRoom" => NewRooms(e) = NewRooms(d))
  BY <1>2, <1>3, OutcomesKeep
<1> QED
  BY <1>1, <1>4 DEF Good

LEMMA FailedAsKeeps ==
  ASSUME Sound, NEW l \in Lanes, FailedAs(l)
  PROVE  /\ AreFlows(flows') /\ IsTab(tab')
         /\ trusted' \in BOOLEAN /\ mixed' \in BOOLEAN /\ saves' \in Nat
<1>1. IsTab(tab)
  BY DEF Sound, Shape
<1>2. IsTab(tab')
  BY <1>1, GivenUpTab DEF FailedAs
<1> QED
  BY <1>2 DEF FailedAs, OthersKept, Sound, Shape

LEMMA ContinueSound ==
  ASSUME Sound, NEW l \in Lanes, Continue(l)
  PROVE  Sound'
<1>0. /\ Shape /\ IsDb(db) /\ OneHour(db) /\ OneAccount(db) /\ IsTab(tab)
      /\ trusted \in BOOLEAN /\ mixed \in BOOLEAN /\ saves \in Nat /\ IsBudget(budget)
  BY DEF Sound, Shape
<1>1. CASE Answered(l)
  <2>1. /\ ~Idle(l) /\ At(l) \in Calls /\ OthersKept(l)
        /\ db' \in Outcomes(At(l), flows[l].arg, flows[l].as, db)
        /\ trusted' = (trusted /\ flows[l].alone)
        /\ UNCHANGED <<tab, budget, mixed, saves>>
    BY <1>0, <1>1, AnsweredDoes
  <2>2. IsDb(db') /\ OneHour(db') /\ OneAccount(db')
    BY <2>1, CallKeeps
  <2> QED
    BY <1>0, <2>1, <2>2, SoundKeeps DEF OthersKept
<1>2. CASE Refused(l)
  <2>1. FailedAs(l) /\ UNCHANGED <<db, budget>>
    BY <1>0, <1>2, RefusedDoes
  <2> QED
    BY <1>0, <2>1, FailedAsKeeps, SoundKeeps
<1>3. CASE RequestLost(l)
  <2>1. FailedAs(l) /\ db' = db /\ IsBudget(budget')
    BY <1>0, <1>3, RequestLostDoes
  <2> QED
    BY <1>0, <2>1, FailedAsKeeps, SoundKeeps
<1>4. CASE AnswerLost(l)
  <2>1. /\ FailedAs(l) /\ ~Idle(l) /\ At(l) \in Calls /\ IsBudget(budget')
        /\ db' \in Outcomes(At(l), flows[l].arg, flows[l].as, db)
    BY <1>0, <1>4, AnswerLostDoes
  <2>2. IsDb(db') /\ OneHour(db') /\ OneAccount(db')
    BY <2>1, CallKeeps
  <2> QED
    BY <2>1, <2>2, FailedAsKeeps, SoundKeeps
<1>5. CASE ReadMe(l)
  <2>1. /\ OthersKept(l) /\ UNCHANGED <<db, token, budget, trusted, mixed, saves>>
        /\ tab' = IF tab.screen = "blank" THEN tab ELSE [tab EXCEPT !.me = flows[l].as]
    BY <1>0, <1>5, ReadMeDoes
  <2>2. IsTab(tab')
    BY <1>0, <2>1, SetMe
  <2> QED
    BY <1>0, <2>1, <2>2, SoundKeeps DEF OthersKept
<1>6. CASE ReadLists(l)
  <2>1. OthersKept(l) /\ FaultsKept /\ UNCHANGED <<db, token, tab, trusted, mixed, saves>>
    BY <1>0, <1>6, ReadListsDoes
  <2> QED
    BY <1>0, <2>1, SoundKeeps DEF OthersKept, FaultsKept
<1>7. CASE ShowLists(l)
  <2>1. /\ OthersKept(l) /\ FaultsKept /\ UNCHANGED <<db, token, trusted, mixed, saves>>
        /\ \E lists :
             tab' = IF tab.screen = "blank" THEN tab
                    ELSE [tab EXCEPT !.rows = Mapped(lists), !.listsFor = flows[l].for]
    BY <1>0, <1>7, ShowListsDoes
  <2>2. IsTab(tab')
    <3>1. PICK t, n, lists, u :
            /\ t = tab /\ n = tab' /\ u = flows[l].for
            /\ n = IF t.screen = "blank" THEN t
                   ELSE [t EXCEPT !.rows = Mapped(lists), !.listsFor = u]
      BY <2>1
    <3>2. CASE t.screen = "blank"
      BY <1>0, <3>1, <3>2
    <3>3. CASE t.screen # "blank"
      <4>1. IsTab(t) /\ n = Showing(t, lists, u)
        BY <1>0, <3>1, <3>3 DEF Showing
      <4>2. IsTab(n)
        BY <4>1, ShownTab
      <4> QED
        BY <3>1, <4>2
    <3> QED
      BY <3>2, <3>3
  <2> QED
    BY <1>0, <2>1, <2>2, SoundKeeps DEF OthersKept, FaultsKept
<1>8. CASE ShowCredits(l)
  <2>1. /\ OthersKept(l) /\ FaultsKept /\ UNCHANGED <<db, token, mixed, saves>>
        /\ \E t : CreditsShown(l, t) /\ tab' = IF tab.screen = "blank" THEN tab ELSE t
    BY <1>0, <1>8, ShowCreditsDoes
  <2>2. IsTab(tab')
    BY <1>0, <2>1 DEF CreditsShown
  <2>3. trusted' \in BOOLEAN
    BY <2>1 DEF CreditsShown
  <2> QED
    BY <1>0, <2>1, <2>2, <2>3, SoundKeeps DEF OthersKept, FaultsKept
<1>9. CASE Clear(l)
  <2>1. /\ OthersKept(l) /\ UNCHANGED <<db, budget, saves>> /\ trusted' = FALSE
        /\ mixed' = (mixed \/ ~Others(l))
        /\ tab' = IF tab.screen = "blank" THEN tab ELSE Forget(tab)
    BY <1>0, <1>9, ClearDoes
  <2>2. IsTab(tab')
    BY <1>0, <2>1, ForgetTab
  <2>3. mixed' \in BOOLEAN
    BY <2>1
  <2> QED
    BY <1>0, <2>1, <2>2, <2>3, SoundKeeps DEF OthersKept
<1>10. CASE Mark(l)
  <2>1. /\ OthersKept(l) /\ UNCHANGED <<db, token, budget, mixed, saves>>
        /\ trusted' = (trusted /\ flows[l].alone)
        /\ tab' = IF tab.screen = "blank" THEN tab
                  ELSE [tab EXCEPT !.rows = MarkedRows(tab.rows)]
    BY <1>0, <1>10, MarkDoes
  <2>2. IsTab(tab')
    BY <1>0, <2>1, MarkedTab
  <2> QED
    BY <1>0, <2>1, <2>2, SoundKeeps DEF OthersKept
<1> QED
  BY <1>1, <1>2, <1>3, <1>4, <1>5, <1>6, <1>7, <1>8, <1>9, <1>10 DEF Continue

LEMMA NextSound == Sound /\ [Next]_vars => Sound'
<1> SUFFICES ASSUME Sound, [Next]_vars PROVE Sound'
  OBVIOUS
<1>0. /\ Shape /\ IsDb(db) /\ OneHour(db) /\ OneAccount(db) /\ IsTab(tab)
      /\ trusted \in BOOLEAN /\ mixed \in BOOLEAN /\ saves \in Nat /\ IsBudget(budget)
  BY DEF Sound, Shape
<1>1. ASSUME NEW l \in Lanes, AppRoutes(l) PROVE Sound'
  <2>1. CASE Moved
    BY <1>0, <2>1, MovedDoes, SoundKeeps DEF Moved, NoFault
  <2>2. CASE Pressed(l)
    <3>1. /\ IsTab(tab') /\ NoFault /\ UNCHANGED <<db, token, trusted, mixed>>
          /\ saves' \in {saves, saves + 1} /\ AreFlows(flows')
      BY <1>0, <2>2, PressedDoes DEF Started
    <3> QED
      BY <1>0, <3>1, SoundKeeps DEF NoFault
  <2>3. CASE SignedIn(l)
    <3>1. /\ AreFlows(flows') /\ NoFault /\ UNCHANGED <<db, tab, trusted, saves>>
          /\ mixed' = (mixed \/ ~Quiet)
      BY <1>0, <2>3, SignedInDoes DEF Started
    <3> QED
      BY <1>0, <3>1, SoundKeeps DEF NoFault
  <2>4. CASE Crashed
    BY <1>0, <2>4, CrashedDoes, ShapeFlows, SoundKeeps
  <2> QED
    BY <1>0, <1>1, <2>1, <2>2, <2>3, <2>4, PagesMove
<1>2. ASSUME NEW l \in Lanes, Reload(l) PROVE Sound'
  <2>1. AreFlows(flows')
    BY <1>0, <1>2, ReloadDoes, ShapeFlows DEF Started
  <2> QED
    BY <1>0, <1>2, <2>1, ReloadDoes, SoundKeeps
<1>3. CASE Elsewhere
  <2>1. /\ AreFlows(flows') /\ NoFault /\ UNCHANGED <<token, tab, mixed, saves>>
        /\ trusted' = FALSE
        /\ \E call \in OtherCalls : \E arg, u : db' \in Outcomes(call, arg, u, db)
    BY <1>0, <1>3, ElsewhereDoes
  <2>2. IsDb(db') /\ OneHour(db') /\ OneAccount(db')
    BY <2>1, OtherCallKeeps
  <2> QED
    BY <1>0, <2>1, <2>2, SoundKeeps DEF NoFault
<1>4. CASE UNCHANGED vars
  BY <1>0, <1>4, ShapeFlows, SoundKeeps DEF vars
<1> QED
  BY <1>1, <1>2, <1>3, <1>4, ContinueSound DEF Next

LEMMA InitSound == Init => Sound /\ Numbered(db, 0)
<1> SUFFICES ASSUME Init PROVE Sound /\ Numbered(db, 0)
  OBVIOUS
<1>1. IsTab(tab)
  BY FreshTab DEF Init
<1>2. AreFlows(flows) /\ \A l \in Lanes : Idle(l)
  BY NoFlowIsFlow DEF Init, AreFlows, Idle
<1>3. IsBudget(budget) /\ saves \in Nat /\ trusted \in BOOLEAN /\ mixed \in BOOLEAN
  BY DEF Init, IsBudget
<1>4. PICK rows : rows = [s \in Lists |-> FirstRows(s)]
  OBVIOUS
<1>4a. /\ db = [admins |-> {}, balance |-> [u \in Clients |-> 1], rows |-> rows]
       /\ db.rows = rows /\ db.admins = {}
  BY <1>4 DEF Init
<1>5. Lists = {"rooms", "availabilities", "reservations", "contracts", "invoices", "payments",
               "notifications", "people"}
  BY DEF Lists
<1>6. /\ rows = [s \in Lists |-> rows[s]]
      /\ rows["reservations"] = {} /\ rows["notifications"] = {}
      /\ rows["rooms"] = {Row("room", 1, NoOne, "AVAILABLE"), Row("details", 1, NoOne, "old")}
      /\ rows["availabilities"] = {Row("monday", 1, NoOne, "active")}
      /\ rows["contracts"] = {Row("first", 1, u, "ACTIVE") : u \in Clients}
      /\ rows["invoices"] = {Row("month", 1, u, "PENDING") : u \in Clients}
      /\ rows["payments"] = {Row("month", 1, u, "UNDER_REVIEW") : u \in Clients}
      /\ rows["people"] = {Row(w, 1, u, "old") : w \in {"name", "profession"}, u \in Clients}
  BY <1>4, <1>5 DEF FirstRows
<1>7. \A s \in Lists : \A r \in rows[s] : IsRow(r)
  BY <1>5, <1>6, RowFields
<1>8. db.admins = {} /\ db.rows = rows /\ IsDb(db)
  BY <1>4, <1>4a, <1>6, <1>7 DEF IsDb, IsLists
<1>9. OneHour(db)
  BY <1>6, <1>8 DEF OneHour, Live
<1>10. OneAccount(db)
  <2>1. \A r \in Named(db, "people", "name") : r.owner \in Clients
    BY <1>6, <1>8 DEF Named, Row
  <2> QED
    BY <2>1, ClientStoreAssumption DEF OneAccount, ClientStoreAssumption, Users
<1>11. Numbered(db, 0)
  BY <1>6, <1>8 DEF Numbered, NewRooms, Named, Row
<1> QED
  BY <1>1, <1>2, <1>3, <1>8, <1>9, <1>10, <1>11 DEF Sound, Shape, AreFlows


-----------------------------------------------------------------------------
(* Whose flows these are *)

\* The tab's part of Session.
OwnTab ==
  /\ tab.me \in {NoOne, token}
  /\ tab.screen = "blank" => tab.me = NoOne
  /\ {tab.listsFor, tab.creditsFor} \subseteq {NoOne, tab.me}
  /\ \A s \in Personal : tab.rows[s] # {} => tab.listsFor # NoOne

LEMMA SessionIs ==
  Session <=> (~mixed => OwnTab /\ \A l \in Lanes : ~Idle(l) => FlowOwned(l))
BY DEF Session, OwnTab

LEMMA SessionAfter ==
  ASSUME ~mixed' => OwnTab' /\ \A l \in Lanes : flows'[l].plan # <<>> => FlowOwned(l)'
  PROVE  Session'
BY DEF Session, OwnTab, Idle

\* Flow g is flow f as far as FlowOwned goes.
Alike(f, g) == g.op = f.op /\ g.plan = f.plan /\ g.as = f.as /\ g.for = f.for

LEMMA AlikeAre ==
  ASSUME NEW f, NEW g
  PROVE  /\ Kept(f, g) => Alike(f, g)
         /\ Same(f, g) => Alike(f, g)
         /\ Disturbed(f, g) => Alike(f, g)
BY DEF Kept, Same, Disturbed, Alike

\* A flow under way beside another one is of somebody who is signed in.
LEMMA Alongside ==
  ASSUME Session, ~mixed, NEW l \in Lanes, NEW m \in Lanes \ {l}, ~Idle(l), ~Idle(m),
         Alike(flows[m], flows'[m]), token' = token,
         tab'.me = tab.me \/ (tab'.me = token /\ token # NoOne),
         \/ tab'.screen = tab.screen
         \/ tab'.screen = "shown" /\ tab.screen # "blank" /\ tab'.me # NoOne
  PROVE  FlowOwned(m)'
<1>1. FlowOwned(m) /\ ~Others(m)
  BY DEF Session, Others
<1>2. /\ At(m) \notin SignIns /\ flows[m].as = token /\ flows[m].op # "boot"
      /\ At(m) \in {"lists", "rest", "wallet"} =>
           /\ flows[m].for = token /\ token # NoOne
           /\ tab.screen # "blank" => tab.me = token
      /\ ~(tab.me = NoOne /\ tab.screen = "shown")
  BY <1>1 DEF FlowOwned
<1>3. /\ flows'[m].as = flows[m].as /\ flows'[m].op = flows[m].op
      /\ flows'[m].for = flows[m].for /\ At(m)' = At(m)
  BY DEF Alike, At
<1> QED
  BY <1>2, <1>3 DEF FlowOwned

\* What a user who is signed in does changes nothing of the flows under way.
LEMMA UserKeeps ==
  ASSUME Session, ~mixed, tab.me # NoOne, tab.screen = "shown", NEW m \in Lanes, ~Idle(m),
         Alike(flows[m], flows'[m]), token' = token,
         \/ tab'.screen = "shown" /\ tab'.me = tab.me
         \/ tab'.screen = "blank"
  PROVE  FlowOwned(m)'
<1>1. FlowOwned(m)
  BY DEF Session
<1>2. /\ At(m) \notin SignIns /\ flows[m].as = token /\ flows[m].op # "boot"
      /\ At(m) \in {"lists", "rest", "wallet"} =>
           flows[m].for = token /\ token # NoOne /\ tab.me = token
  BY <1>1 DEF FlowOwned
<1>3. /\ flows'[m].as = flows[m].as /\ flows'[m].op = flows[m].op
      /\ flows'[m].for = flows[m].for /\ At(m)' = At(m)
  BY DEF Alike, At
<1> QED
  BY <1>2, <1>3 DEF FlowOwned

\* Neither does what touches neither the tokens nor any flow's plan, nor what the tab
\* shows of anybody.
LEMMA NothingTouched ==
  ASSUME Session, ~mixed, NEW m \in Lanes, ~Idle(m),
         \A k \in Lanes : Alike(flows[k], flows'[k]),
         token' = token, tab'.screen = tab.screen, tab'.me = tab.me, tab'.rows = tab.rows,
         tab'.listsFor = tab.listsFor, tab'.creditsFor = tab.creditsFor
  PROVE  FlowOwned(m)'
<1>1. FlowOwned(m)
  BY DEF Session
<1>2. /\ flows'[m].as = flows[m].as /\ flows'[m].op = flows[m].op
      /\ flows'[m].for = flows[m].for /\ flows'[m].plan = flows[m].plan /\ At(m)' = At(m)
  BY DEF Alike, At
<1>3. Others(m) => Others(m)'
  BY DEF Others, Idle, Alike
<1>4. Unshown => Unshown'
  BY DEF Unshown
<1> QED
  BY <1>1, <1>2, <1>3, <1>4 DEF FlowOwned

\* A flow goes on after its call.
LEMMA CallGoesOn ==
  ASSUME Session, ~mixed, NEW l \in Lanes, ~Idle(l), At(l) \in Calls, OthersKept(l), GoesOn(l),
         Shape, tab' = tab, At(l) \in SignIns \/ token' = token
  PROVE  FlowOwned(l)'
<1>1. FlowOwned(l) /\ flows[l].plan # <<>> /\ IsPlan(flows[l].plan)
  BY DEF Session, Shape, IsFlow, Formed, Idle
<1>2. flows[l].plan[1] = At(l) /\ 1 \in DOMAIN flows[l].plan
  BY <1>1, PlanGoesOn DEF At, IsPlan
<1>3. flows[l].op # "boot"
  BY <1>1, <1>2 DEF FlowOwned, Calls
<1>4. /\ flows'[l].op = flows[l].op /\ flows'[l].as = token'
      /\ Follows(At(l), At(l)') /\ At(l)' \notin SignIns \cup {"createRoom"}
  BY DEF GoesOn, Onward, At
<1>5. At(l)' \in {"me", "putProfile", "mark", "clear"} /\ (At(l) \in SignIns => At(l)' = "me")
  BY <1>4 DEF Follows, Calls, SignIns
<1>6. Others(l) => Others(l)'
  BY DEF Others, Idle, OthersKept, Kept
<1>7. tab'.me = NoOne /\ tab'.screen = "shown" =>
        At(l) \in SignIns /\ Others(l)
  BY <1>1 DEF FlowOwned, Calls
<1> QED
  BY <1>3, <1>4, <1>5, <1>6, <1>7 DEF FlowOwned

LEMMA AnsweredOwns ==
  ASSUME Shape, Session, NEW l \in Lanes, Answered(l)
  PROVE  Session'
<1> SUFFICES ASSUME ~mixed'
             PROVE  OwnTab' /\ \A m \in Lanes : flows'[m].plan # <<>> => FlowOwned(m)'
  BY SessionAfter
<1>1. /\ ~Idle(l) /\ At(l) \in Calls
      /\ OthersKept(l) /\ GoesOn(l)
      /\ token' = IF At(l) \in SignIns THEN flows[l].arg ELSE token
      /\ UNCHANGED <<tab, mixed>>
  BY AnsweredDoes
<1>2. ~mixed /\ OwnTab /\ FlowOwned(l)
  BY <1>1, SessionIs
<1>3. OwnTab'
  BY <1>1, <1>2 DEF OwnTab, FlowOwned
<1>4. FlowOwned(l)'
  BY <1>1, <1>2, CallGoesOn
<1>5. ASSUME NEW m \in Lanes \ {l}, flows'[m].plan # <<>> PROVE FlowOwned(m)'
  <2>1. Kept(flows[m], flows'[m]) /\ ~Idle(m)
    BY <1>1, <1>5 DEF OthersKept, Kept, Idle
  <2>2. ~Others(l)
    BY <2>1 DEF Others
  <2>3. token' = token
    BY <1>1, <1>2, <2>2 DEF FlowOwned
  <2> QED
    BY <1>1, <1>2, <2>1, <2>3, Alongside, AlikeAre
<1> QED
  BY <1>3, <1>4, <1>5

LEMMA FailedOwns ==
  ASSUME Shape, Session, NEW l \in Lanes, FailedAs(l), ~Idle(l), At(l) \in Calls \cup {"me", "lists"}
  PROVE  Session'
<1> SUFFICES ASSUME ~mixed'
             PROVE  OwnTab' /\ \A m \in Lanes : flows'[m].plan # <<>> => FlowOwned(m)'
  BY SessionAfter
<1>1. OthersKept(l) /\ ~mixed /\ OwnTab /\ FlowOwned(l)
  BY SessionIs DEF FailedAs
<1>2. CASE flows[l].op = "boot"
  <2>1. /\ tab.screen = "booting" /\ Others(l)
        /\ \A i \in DOMAIN flows[l].plan :
             flows[l].plan[i] \in {"me", "lists", "rest", "wallet", "open"}
        /\ At(l) \in {"me", "lists"} => Unshown
    BY <1>1, <1>2 DEF FlowOwned
  <2>2. flows[l].plan # <<>> /\ IsPlan(flows[l].plan)
    BY DEF Shape, IsFlow, Formed, Idle
  <2>3. flows[l].plan[1] = At(l) /\ 1 \in DOMAIN flows[l].plan
    BY <2>2, PlanGoesOn DEF At, IsPlan
  <2>4. Unshown
    BY <2>1, <2>3 DEF Calls
  <2>5. token' = NoOne /\ Ends(l) /\ tab' = [tab EXCEPT !.screen = "shown", !.me = NoOne]
    BY <1>2, <2>1 DEF FailedAs
  <2>6. IsTab(tab)
    BY DEF Shape
  <2>7. /\ tab'.me = NoOne /\ tab'.rows = tab.rows /\ tab'.screen = "shown"
        /\ tab'.listsFor = tab.listsFor /\ tab'.creditsFor = tab.creditsFor
    BY <2>5, <2>6, GivenUpTab
  <2>8. OwnTab'
    BY <2>4, <2>7 DEF OwnTab, Unshown
  <2>9. \A m \in Lanes : flows'[m].plan = <<>>
    BY <1>1, <2>1, <2>5 DEF Others, OthersKept, Kept, Ends, Idle
  <2> QED
    BY <2>8, <2>9
<1>3. CASE flows[l].op # "boot"
  <2>1. /\ token' = token /\ tab' = tab
        /\ \/ Ends(l)
           \/ At(l) \in Calls /\ GoesOn(l)
    BY <1>3 DEF FailedAs
  <2>2. OwnTab'
    BY <1>1, <2>1 DEF OwnTab
  <2>3. flows'[l].plan # <<>> => FlowOwned(l)'
    BY <1>1, <2>1, CallGoesOn DEF Ends
  <2>4. ASSUME NEW m \in Lanes \ {l}, flows'[m].plan # <<>> PROVE FlowOwned(m)'
    <3>1. Kept(flows[m], flows'[m]) /\ ~Idle(m)
      BY <1>1, <2>4 DEF OthersKept, Kept, Idle
    <3> QED
      BY <1>1, <2>1, <3>1, Alongside, AlikeAre
  <2> QED
    BY <2>2, <2>3, <2>4
<1> QED
  BY <1>2, <1>3

LEMMA ReadMeOwns ==
  ASSUME Shape, Session, NEW l \in Lanes, ReadMe(l)
  PROVE  Session'
<1> SUFFICES ASSUME ~mixed'
             PROVE  OwnTab' /\ \A m \in Lanes : flows'[m].plan # <<>> => FlowOwned(m)'
  BY SessionAfter
<1>1. /\ ~Idle(l) /\ At(l) = "me" /\ flows[l].as # NoOne
      /\ OthersKept(l) /\ GoesOn(l) /\ flows'[l].for = token
      /\ tab' = IF tab.screen = "blank" THEN tab ELSE [tab EXCEPT !.me = flows[l].as]
      /\ UNCHANGED <<token, mixed>>
  BY ReadMeDoes
<1>2. ~mixed /\ OwnTab /\ FlowOwned(l)
  BY <1>1, SessionIs
<1>3. flows[l].as = token /\ token # NoOne
  BY <1>1, <1>2 DEF FlowOwned, SignIns
<1>4. /\ tab'.screen = tab.screen /\ tab'.rows = tab.rows
      /\ tab'.listsFor = tab.listsFor /\ tab'.creditsFor = tab.creditsFor
      /\ tab.screen = "blank" => tab'.me = tab.me
      /\ tab.screen # "blank" => tab'.me = token
  <2>1. PICK t, n, u : t = tab /\ n = tab' /\ u = flows[l].as
    OBVIOUS
  <2>2. IsTab(t)
    BY <2>1 DEF Shape
  <2>3. t.screen # "blank" =>
          /\ n.screen = t.screen /\ n.me = u /\ n.rows = t.rows
          /\ n.listsFor = t.listsFor /\ n.creditsFor = t.creditsFor
    BY <1>1, <2>1, <2>2, SetMe
  <2>4. t.screen = "blank" => n = t
    BY <1>1, <2>1
  <2> QED
    BY <1>3, <2>1, <2>3, <2>4
<1>5. OwnTab'
  BY <1>1, <1>2, <1>4 DEF OwnTab
<1>6. FlowOwned(l)'
  <2>1. /\ At(l)' = "lists" /\ flows'[l].as = token /\ flows'[l].op = flows[l].op
        /\ \A i \in DOMAIN flows'[l].plan :
             \E j \in DOMAIN flows[l].plan : flows'[l].plan[i] = flows[l].plan[j]
    BY <1>1 DEF GoesOn, Onward, At, Follows
  <2>2. Others(l) => Others(l)'
    BY <1>1 DEF Others, Idle, OthersKept, Kept
  <2>3. Unshown => Unshown'
    BY <1>4 DEF Unshown
  <2>4. flows[l].op = "boot" =>
          /\ \A i \in DOMAIN flows[l].plan :
               flows[l].plan[i] \in {"me", "lists", "rest", "wallet", "open"}
          /\ tab.screen = "booting" /\ Others(l) /\ Unshown
    BY <1>1, <1>2 DEF FlowOwned
  <2>5. flows'[l].op = "boot" =>
          /\ \A i \in DOMAIN flows'[l].plan :
               flows'[l].plan[i] \in {"me", "lists", "rest", "wallet", "open"}
          /\ tab'.screen = "booting" /\ Others(l)' /\ Unshown'
    BY <1>4, <2>1, <2>2, <2>3, <2>4
  <2> QED
    BY <1>1, <1>3, <1>4, <2>1, <2>5 DEF FlowOwned, SignIns
<1>7. ASSUME NEW m \in Lanes \ {l}, flows'[m].plan # <<>> PROVE FlowOwned(m)'
  <2>1. Kept(flows[m], flows'[m]) /\ ~Idle(m)
    BY <1>1, <1>7 DEF OthersKept, Kept, Idle
  <2> QED
    BY <1>1, <1>2, <1>3, <1>4, <2>1, Alongside, AlikeAre
<1> QED
  BY <1>5, <1>6, <1>7


\* A flow past its first read, with the lists of the user shown.
LEMMA ReaderIs ==
  ASSUME Session, ~mixed, NEW l \in Lanes, ~Idle(l), At(l) \in {"lists", "rest", "wallet"}
  PROVE  /\ flows[l].as = token /\ flows[l].for = token /\ token # NoOne
         /\ tab.screen # "blank" => tab.me = token
         /\ tab.screen = "blank" => tab.me = NoOne
         /\ flows[l].op = "boot" =>
              /\ \A i \in DOMAIN flows[l].plan :
                   flows[l].plan[i] \in {"me", "lists", "rest", "wallet", "open"}
              /\ tab.screen = "booting" /\ Others(l)
BY DEF Session, FlowOwned, SignIns

\* Such a flow goes on with its next read.
LEMMA ReaderGoesOn ==
  ASSUME Session, ~mixed, NEW l \in Lanes, ~Idle(l), At(l) \in {"lists", "rest"},
         OthersKept(l), GoesOn(l), flows'[l].for = flows[l].for, token' = token,
         tab'.screen = tab.screen, tab'.me = tab.me
  PROVE  FlowOwned(l)'
<1>1. /\ flows[l].as = token /\ flows[l].for = token /\ token # NoOne
      /\ tab.screen # "blank" => tab.me = token
      /\ flows[l].op = "boot" =>
           /\ \A i \in DOMAIN flows[l].plan :
                flows[l].plan[i] \in {"me", "lists", "rest", "wallet", "open"}
           /\ tab.screen = "booting" /\ Others(l)
  BY ReaderIs
<1>2. /\ At(l)' \in {"rest", "wallet"} /\ flows'[l].as = token /\ flows'[l].op = flows[l].op
      /\ \A i \in DOMAIN flows'[l].plan :
           \E j \in DOMAIN flows[l].plan : flows'[l].plan[i] = flows[l].plan[j]
  BY DEF GoesOn, Onward, At, Follows
<1>3. Others(l) => Others(l)'
  BY DEF Others, Idle, OthersKept, Kept
<1>4. flows'[l].op = "boot" =>
        /\ \A i \in DOMAIN flows'[l].plan :
             flows'[l].plan[i] \in {"me", "lists", "rest", "wallet", "open"}
        /\ tab'.screen = "booting" /\ Others(l)'
  BY <1>1, <1>2, <1>3
<1> QED
  BY <1>1, <1>2, <1>4 DEF FlowOwned, SignIns

LEMMA ReadListsOwns ==
  ASSUME Shape, Session, NEW l \in Lanes, ReadLists(l)
  PROVE  Session'
<1> SUFFICES ASSUME ~mixed'
             PROVE  OwnTab' /\ \A m \in Lanes : flows'[m].plan # <<>> => FlowOwned(m)'
  BY SessionAfter
<1>1. /\ ~Idle(l) /\ At(l) = "lists" /\ OthersKept(l) /\ GoesOn(l)
      /\ flows'[l].for = flows[l].for /\ UNCHANGED <<token, tab, mixed>>
  BY ReadListsDoes
<1>2. ~mixed /\ OwnTab
  BY <1>1, SessionIs
<1>3. OwnTab'
  BY <1>1, <1>2 DEF OwnTab
<1>4. FlowOwned(l)'
  BY <1>1, <1>2, ReaderGoesOn
<1>5. ASSUME NEW m \in Lanes \ {l}, flows'[m].plan # <<>> PROVE FlowOwned(m)'
  <2>1. Kept(flows[m], flows'[m]) /\ ~Idle(m)
    BY <1>1, <1>5 DEF OthersKept, Kept, Idle
  <2> QED
    BY <1>1, <1>2, <2>1, Alongside, AlikeAre
<1> QED
  BY <1>3, <1>4, <1>5

LEMMA ShowListsOwns ==
  ASSUME Shape, Session, NEW l \in Lanes, ShowLists(l)
  PROVE  Session'
<1> SUFFICES ASSUME ~mixed'
             PROVE  OwnTab' /\ \A m \in Lanes : flows'[m].plan # <<>> => FlowOwned(m)'
  BY SessionAfter
<1>1. /\ ~Idle(l) /\ At(l) = "rest" /\ OthersKept(l) /\ GoesOn(l)
      /\ flows'[l].for = flows[l].for /\ UNCHANGED <<token, mixed>>
      /\ \E lists :
           tab' = IF tab.screen = "blank" THEN tab
                  ELSE [tab EXCEPT !.rows = Mapped(lists), !.listsFor = flows[l].for]
  BY ShowListsDoes
<1>2. ~mixed /\ OwnTab
  BY <1>1, SessionIs
<1>3. /\ flows[l].for = token /\ token # NoOne
      /\ tab.screen # "blank" => tab.me = token
  BY <1>1, <1>2, ReaderIs
<1>4. /\ tab'.screen = tab.screen /\ tab'.me = tab.me
      /\ tab.screen = "blank" => tab' = tab
      /\ tab.screen # "blank" => tab'.listsFor = token /\ tab'.creditsFor = tab.creditsFor
  <2>1. PICK t, n, lists, u :
          /\ t = tab /\ n = tab' /\ u = flows[l].for
          /\ n = IF t.screen = "blank" THEN t
                 ELSE [t EXCEPT !.rows = Mapped(lists), !.listsFor = u]
    BY <1>1
  <2>2. CASE t.screen = "blank"
    BY <2>1, <2>2
  <2>3. CASE t.screen # "blank"
    <3>1. IsTab(t) /\ n = Showing(t, lists, u)
      BY <2>1, <2>3 DEF Shape, Showing
    <3>2. /\ IsTab(n) /\ n.screen = t.screen /\ n.me = t.me /\ n.rows = Mapped(lists)
          /\ n.listsFor = u /\ n.credits = t.credits /\ n.creditsFor = t.creditsFor
      BY <3>1, ShownTab
    <3> QED
      BY <1>3, <2>1, <2>3, <3>2
  <2> QED
    BY <2>2, <2>3
<1>5. OwnTab'
  BY <1>1, <1>2, <1>3, <1>4 DEF OwnTab
<1>6. FlowOwned(l)'
  BY <1>1, <1>2, <1>4, ReaderGoesOn
<1>7. ASSUME NEW m \in Lanes \ {l}, flows'[m].plan # <<>> PROVE FlowOwned(m)'
  <2>1. Kept(flows[m], flows'[m]) /\ ~Idle(m)
    BY <1>1, <1>7 DEF OthersKept, Kept, Idle
  <2> QED
    BY <1>1, <1>2, <1>4, <2>1, Alongside, AlikeAre
<1> QED
  BY <1>5, <1>6, <1>7

LEMMA ShowCreditsOwns ==
  ASSUME Shape, Session, NEW l \in Lanes, ShowCredits(l)
  PROVE  Session'
<1> SUFFICES ASSUME ~mixed'
             PROVE  OwnTab' /\ \A m \in Lanes : flows'[m].plan # <<>> => FlowOwned(m)'
  BY SessionAfter
<1>1. /\ ~Idle(l) /\ At(l) = "wallet" /\ OthersKept(l)
      /\ Ends(l) \/ (GoesOn(l) /\ At(l)' = "addPhotos")
      /\ \E t : CreditsShown(l, t) /\ tab' = IF tab.screen = "blank" THEN tab ELSE t
      /\ UNCHANGED <<token, mixed>>
  BY ShowCreditsDoes DEF At
<1>2. ~mixed /\ OwnTab
  BY <1>1, SessionIs
<1>3. /\ flows[l].as = token /\ flows[l].for = token /\ token # NoOne
      /\ tab.screen # "blank" => tab.me = token
      /\ flows[l].op = "boot" =>
           \A i \in DOMAIN flows[l].plan :
             flows[l].plan[i] \in {"me", "lists", "rest", "wallet", "open"}
  BY <1>1, <1>2, ReaderIs
<1>4. /\ tab.screen = "blank" => tab' = tab
      /\ tab.screen # "blank" =>
           /\ tab'.me = token /\ tab'.rows = tab.rows /\ tab'.listsFor = tab.listsFor
           /\ tab'.creditsFor = token /\ tab'.screen \in {"shown", tab.screen}
  BY <1>1, <1>3 DEF CreditsShown
<1>5. OwnTab'
  BY <1>1, <1>2, <1>3, <1>4 DEF OwnTab
<1>6. ASSUME flows'[l].plan # <<>> PROVE FlowOwned(l)'
  <2>1. GoesOn(l) /\ At(l)' = "addPhotos"
    BY <1>1, <1>6 DEF Ends
  <2>2. /\ flows'[l].as = token /\ flows'[l].op = flows[l].op
        /\ \A i \in DOMAIN flows'[l].plan :
             \E j \in DOMAIN flows[l].plan : flows'[l].plan[i] = flows[l].plan[j]
    BY <1>1, <2>1 DEF GoesOn, Onward
  <2>3. IsPlan(flows'[l].plan)
    BY <1>1 DEF OthersKept, AreFlows, IsFlow, Formed
  <2>4. flows'[l].plan[1] = "addPhotos" /\ 1 \in DOMAIN flows'[l].plan
    <3>1. PICK plan : plan = flows'[l].plan
      OBVIOUS
    <3>2. plan \in Seq(Steps) /\ plan # <<>> /\ IsPlan(plan) /\ Head(plan) = "addPhotos"
      BY <1>6, <2>1, <2>3, <3>1 DEF IsPlan, At
    <3>3. plan[1] = Head(plan) /\ 1 \in DOMAIN plan
      BY <3>2
    <3> QED
      BY <3>1, <3>2, <3>3
  <2>5. flows'[l].op # "boot"
    BY <1>3, <2>2, <2>4
  <2>6. ~(tab'.me = NoOne /\ tab'.screen = "shown")
    BY <1>3, <1>4
  <2> QED
    BY <1>1, <2>1, <2>2, <2>5, <2>6 DEF FlowOwned, SignIns
<1>7. ASSUME NEW m \in Lanes \ {l}, flows'[m].plan # <<>> PROVE FlowOwned(m)'
  <2>1. Kept(flows[m], flows'[m]) /\ ~Idle(m)
    BY <1>1, <1>7 DEF OthersKept, Kept, Idle
  <2>2. \/ tab'.screen = tab.screen
        \/ tab'.screen = "shown" /\ tab.screen # "blank" /\ tab'.me # NoOne
    BY <1>3, <1>4
  <2> QED
    BY <1>1, <1>2, <1>3, <1>4, <2>1, <2>2, Alongside, AlikeAre
<1> QED
  BY <1>5, <1>6, <1>7

LEMMA ClearOwns ==
  ASSUME Shape, Session, NEW l \in Lanes, Clear(l)
  PROVE  Session'
<1> SUFFICES ASSUME ~mixed'
             PROVE  OwnTab' /\ \A m \in Lanes : flows'[m].plan # <<>> => FlowOwned(m)'
  BY SessionAfter
<1>1. /\ OthersKept(l) /\ Ends(l) /\ token' = NoOne
      /\ tab' = IF tab.screen = "blank" THEN tab ELSE Forget(tab)
      /\ mixed' = (mixed \/ ~Others(l))
  BY ClearDoes
<1>2. ~mixed /\ OwnTab /\ Others(l)
  BY <1>1, SessionIs
<1>3. IsTab(tab)
  BY DEF Shape
<1>4. /\ tab'.me = NoOne /\ tab'.listsFor = NoOne /\ tab'.creditsFor = NoOne
      /\ \A s \in Personal : tab'.rows[s] = {}
  <2>1. tab.screen = "blank" => tab' = tab
    BY <1>1
  <2>2. PICK t, n : t = tab /\ n = tab'
    OBVIOUS
  <2>3. t.screen # "blank" => IsTab(t) /\ n = Forget(t)
    BY <1>1, <1>3, <2>2
  <2>4. t.screen # "blank" =>
          /\ n.me = NoOne /\ n.listsFor = NoOne /\ n.creditsFor = NoOne
          /\ \A s \in Personal : n.rows[s] = {}
    BY <2>3, ForgetTab
  <2> QED
    BY <1>2, <2>1, <2>2, <2>4 DEF OwnTab
<1>5. \A m \in Lanes : flows'[m].plan = <<>>
  BY <1>1, <1>2 DEF Others, OthersKept, Kept, Ends, Idle
<1> QED
  BY <1>4, <1>5 DEF OwnTab

LEMMA MarkOwns ==
  ASSUME Shape, Session, NEW l \in Lanes, Mark(l)
  PROVE  Session'
<1> SUFFICES ASSUME ~mixed'
             PROVE  OwnTab' /\ \A m \in Lanes : flows'[m].plan # <<>> => FlowOwned(m)'
  BY SessionAfter
<1>1. /\ ~Idle(l) /\ OthersKept(l) /\ Ends(l)
      /\ tab' = IF tab.screen = "blank" THEN tab
                ELSE [tab EXCEPT !.rows = MarkedRows(tab.rows)]
      /\ UNCHANGED <<token, mixed>>
  BY MarkDoes
<1>2. ~mixed /\ OwnTab
  BY <1>1, SessionIs
<1>3. /\ tab'.screen = tab.screen /\ tab'.me = tab.me
      /\ tab'.listsFor = tab.listsFor /\ tab'.creditsFor = tab.creditsFor
      /\ \A s \in Shown : tab'.rows[s] # {} => tab.rows[s] # {}
  <2>1. PICK t, n : t = tab /\ n = tab'
    OBVIOUS
  <2>2. CASE t.screen = "blank"
    BY <1>1, <2>1, <2>2
  <2>3. CASE t.screen # "blank"
    <3>1. IsTab(t) /\ n = [t EXCEPT !.rows = MarkedRows(t.rows)]
      BY <1>1, <2>1, <2>3 DEF Shape
    <3>2. /\ n.screen = t.screen /\ n.me = t.me
          /\ n.listsFor = t.listsFor /\ n.creditsFor = t.creditsFor
          /\ \A s \in Shown : n.rows[s] # {} => t.rows[s] # {}
      BY <3>1, MarkedTab
    <3> QED
      BY <2>1, <3>2
  <2> QED
    BY <2>2, <2>3
<1>4. OwnTab'
  BY <1>1, <1>2, <1>3 DEF OwnTab, Personal
<1>5. ASSUME NEW m \in Lanes, flows'[m].plan # <<>> PROVE FlowOwned(m)'
  <2>1. m # l /\ Kept(flows[m], flows'[m]) /\ ~Idle(m)
    BY <1>1, <1>5 DEF OthersKept, Kept, Idle, Ends
  <2> QED
    BY <1>1, <1>2, <1>3, <2>1, Alongside, AlikeAre
<1> QED
  BY <1>4, <1>5


LEMMA ContinueOwns ==
  ASSUME Shape, Session, NEW l \in Lanes, Continue(l)
  PROVE  Session'
<1>1. Refused(l) \/ RequestLost(l) \/ AnswerLost(l) => Session'
  BY RefusedDoes, RequestLostDoes, AnswerLostDoes, FailedOwns
<1> QED
  BY <1>1, AnsweredOwns, ReadMeOwns, ReadListsOwns, ShowListsOwns, ShowCreditsOwns, ClearOwns,
     MarkOwns DEF Continue

LEMMA PressedOwns ==
  ASSUME Shape, Session, NEW l \in Lanes, Pressed(l)
  PROVE  Session'
<1> SUFFICES ASSUME ~mixed'
             PROVE  OwnTab' /\ \A m \in Lanes : flows'[m].plan # <<>> => FlowOwned(m)'
  BY SessionAfter
<1>1. /\ tab.me # NoOne /\ tab.screen = "shown"
      /\ tab'.screen = "shown" /\ tab'.me = tab.me /\ tab'.rows = tab.rows
      /\ tab'.listsFor = tab.listsFor /\ tab'.creditsFor = tab.creditsFor
      /\ UNCHANGED <<token, mixed>>
  BY PressedDoes
<1>2. PICK op, plan :
        /\ op # "boot" /\ plan # <<>>
        /\ Head(plan) \in (Calls \ SignIns) \cup {"clear"}
        /\ Started(l, op, plan)
  BY PressedDoes
<1>3. ~mixed /\ OwnTab /\ tab.me = token
  BY <1>1, SessionIs DEF OwnTab
<1>4. OwnTab'
  BY <1>1, <1>3 DEF OwnTab
<1>5. FlowOwned(l)'
  <2>1. /\ At(l)' = Head(plan) /\ flows'[l].op # "boot" /\ flows'[l].as = token'
    BY <1>1, <1>2 DEF Started, At
  <2>2. At(l)' \notin SignIns \cup {"lists", "rest", "wallet"}
    BY <1>2, <2>1 DEF Calls, SignIns
  <2> QED
    BY <1>1, <1>2, <1>3, <2>1, <2>2 DEF FlowOwned
<1>6. ASSUME NEW m \in Lanes \ {l}, flows'[m].plan # <<>> PROVE FlowOwned(m)'
  <2>1. Disturbed(flows[m], flows'[m]) /\ ~Idle(m)
    BY <1>2, <1>6 DEF Started, Disturbed, Idle
  <2> QED
    BY <1>1, <1>3, <2>1, UserKeeps, AlikeAre
<1> QED
  BY <1>4, <1>5, <1>6

LEMMA SignedInOwns ==
  ASSUME Shape, Session, NEW l \in Lanes, SignedIn(l)
  PROVE  Session'
<1> SUFFICES ASSUME ~mixed'
             PROVE  OwnTab' /\ \A m \in Lanes : flows'[m].plan # <<>> => FlowOwned(m)'
  BY SessionAfter
<1>1. /\ tab.me = NoOne /\ tab.screen = "shown" /\ UNCHANGED <<token, tab>>
      /\ mixed' = (mixed \/ ~Quiet)
  BY SignedInDoes
<1>2. PICK plan : plan # <<>> /\ Head(plan) \in SignIns /\ Started(l, "", plan)
  BY SignedInDoes
<1>3. ~mixed /\ OwnTab
  BY <1>1, SessionIs
<1>4. OwnTab'
  BY <1>1, <1>3 DEF OwnTab
<1>5. \A m \in Lanes : Idle(m)
  BY <1>1 DEF Quiet
<1>6. \A m \in Lanes \ {l} : flows'[m].plan = <<>>
  BY <1>2, <1>5 DEF Started, Disturbed, Idle
<1>7. Others(l)'
  BY <1>6 DEF Others, Idle
<1>8. FlowOwned(l)'
  <2>1. At(l)' = Head(plan) /\ flows'[l].op # "boot"
    BY <1>2 DEF Started, At
  <2> QED
    BY <1>1, <1>2, <1>7, <2>1 DEF FlowOwned, SignIns
<1> QED
  BY <1>4, <1>6, <1>8

LEMMA ReloadOwns ==
  ASSUME Shape, Session, NEW l \in Lanes, Reload(l)
  PROVE  Session'
<1> SUFFICES ASSUME ~mixed'
             PROVE  OwnTab' /\ \A m \in Lanes : flows'[m].plan # <<>> => FlowOwned(m)'
  BY SessionAfter
<1>1. /\ Quiet /\ tab'.me = NoOne /\ tab'.rows = [s \in Shown |-> {}]
      /\ tab'.listsFor = NoOne /\ tab'.creditsFor = NoOne /\ UNCHANGED <<token, mixed>>
      /\ \/ token = NoOne /\ flows' = flows /\ tab'.screen = "shown"
         \/ /\ token # NoOne /\ tab'.screen = "booting"
            /\ \E plan :
                 /\ plan # <<>> /\ Head(plan) = "me"
                 /\ \A i \in DOMAIN plan : plan[i] \in {"me", "lists", "rest", "wallet", "open"}
                 /\ Started(l, "boot", plan)
  BY ReloadDoes
<1>2. \A s \in Personal : tab'.rows[s] = {}
  BY <1>1 DEF Personal
<1>3. OwnTab' /\ Unshown'
  BY <1>1, <1>2 DEF OwnTab, Unshown
<1>4. CASE flows' = flows
  BY <1>1, <1>3, <1>4 DEF Quiet, Idle
<1>5. CASE token # NoOne /\ tab'.screen = "booting"
  <2>1. PICK plan :
          /\ plan # <<>> /\ Head(plan) = "me"
          /\ \A i \in DOMAIN plan : plan[i] \in {"me", "lists", "rest", "wallet", "open"}
          /\ Started(l, "boot", plan)
    BY <1>1, <1>5
  <2>2. \A m \in Lanes \ {l} : flows'[m].plan = <<>>
    BY <1>1, <2>1 DEF Started, Disturbed, Idle, Quiet
  <2>3. Others(l)'
    BY <2>2 DEF Others, Idle
  <2>4. At(l)' = "me" /\ flows'[l].plan = plan /\ flows'[l].as = token'
    BY <1>1, <2>1 DEF Started, At
  <2>5. FlowOwned(l)'
    BY <1>3, <1>5, <2>1, <2>3, <2>4 DEF FlowOwned, SignIns
  <2> QED
    BY <1>3, <2>2, <2>5
<1> QED
  BY <1>1, <1>4, <1>5

LEMMA NextOwns == Shape /\ Session /\ [Next]_vars => Session'
<1> SUFFICES ASSUME Shape, Session, [Next]_vars PROVE Session'
  OBVIOUS
<1>1. CASE Moved
  <2> SUFFICES ASSUME ~mixed'
               PROVE  OwnTab' /\ \A m \in Lanes : flows'[m].plan # <<>> => FlowOwned(m)'
    BY SessionAfter
  <2>1. /\ tab.screen = "shown" /\ UNCHANGED <<token, mixed>>
        /\ \A m \in Lanes : Same(flows[m], flows'[m])
        /\ tab'.screen = "shown" /\ tab'.me = tab.me /\ tab'.rows = tab.rows
        /\ tab'.listsFor = tab.listsFor /\ tab'.creditsFor = tab.creditsFor
    BY <1>1, MovedDoes DEF Moved
  <2>2. ~mixed /\ OwnTab
    BY <2>1, SessionIs
  <2>3. OwnTab'
    BY <2>1, <2>2 DEF OwnTab
  <2>4. \A m \in Lanes : Alike(flows[m], flows'[m])
    BY <2>1, AlikeAre
  <2>5. ASSUME NEW m \in Lanes, flows'[m].plan # <<>> PROVE FlowOwned(m)'
    BY <2>1, <2>2, <2>4, <2>5, NothingTouched DEF Alike, Idle
  <2> QED
    BY <2>3, <2>5
<1>2. CASE Crashed
  <2> SUFFICES ASSUME ~mixed'
               PROVE  OwnTab' /\ \A m \in Lanes : flows'[m].plan # <<>> => FlowOwned(m)'
    BY SessionAfter
  <2>1. /\ tab.me # NoOne /\ tab.screen = "shown"
        /\ tab'.screen = "blank" /\ tab'.me = NoOne /\ tab'.rows = [s \in Shown |-> {}]
        /\ tab'.listsFor = NoOne /\ tab'.creditsFor = NoOne
        /\ UNCHANGED <<token, flows, mixed>>
    BY <1>2, CrashedDoes
  <2>2. OwnTab'
    BY <2>1 DEF OwnTab, Personal
  <2>3. ASSUME NEW m \in Lanes, flows'[m].plan # <<>> PROVE FlowOwned(m)'
    BY <2>1, <2>3, UserKeeps DEF Alike, Idle
  <2> QED
    BY <2>2, <2>3
<1>3. CASE Elsewhere
  <2> SUFFICES ASSUME ~mixed'
               PROVE  OwnTab' /\ \A m \in Lanes : flows'[m].plan # <<>> => FlowOwned(m)'
    BY SessionAfter
  <2>1. /\ tab.me # NoOne /\ \A m \in Lanes : Disturbed(flows[m], flows'[m])
        /\ UNCHANGED <<token, tab, mixed>>
    BY <1>3, ElsewhereDoes
  <2>2. ~mixed /\ OwnTab
    BY <2>1, SessionIs
  <2>3. OwnTab'
    BY <2>1, <2>2 DEF OwnTab
  <2>4. \A m \in Lanes : Alike(flows[m], flows'[m])
    BY <2>1, AlikeAre
  <2>5. ASSUME NEW m \in Lanes, flows'[m].plan # <<>> PROVE FlowOwned(m)'
    BY <2>1, <2>2, <2>4, <2>5, NothingTouched DEF Alike, Idle
  <2> QED
    BY <2>3, <2>5
<1>4. CASE UNCHANGED vars
  <2> SUFFICES ASSUME ~mixed'
               PROVE  OwnTab' /\ \A m \in Lanes : flows'[m].plan # <<>> => FlowOwned(m)'
    BY SessionAfter
  <2>1. ~mixed /\ OwnTab /\ UNCHANGED <<tab, token, flows, mixed>>
    BY <1>4, SessionIs DEF vars
  <2>2. OwnTab'
    BY <2>1 DEF OwnTab
  <2>3. ASSUME NEW m \in Lanes, flows'[m].plan # <<>> PROVE FlowOwned(m)'
    BY <2>1, <2>3, NothingTouched DEF Alike, Idle
  <2> QED
    BY <2>2, <2>3
<1>5. ASSUME NEW l \in Lanes, AppRoutes(l) PROVE Session'
  BY <1>1, <1>2, <1>5, PagesMove, PressedOwns, SignedInOwns
<1> QED
  BY <1>3, <1>4, <1>5, ReloadOwns, ContinueOwns DEF Next

LEMMA InitOwns == Init => Session
<1> SUFFICES ASSUME Init PROVE Session
  OBVIOUS
<1>1. /\ tab.me = NoOne /\ tab.screen = "shown" /\ tab.rows = [s \in Shown |-> {}]
      /\ tab.listsFor = NoOne /\ tab.creditsFor = NoOne
  BY FreshTab DEF Init
<1>2. \A l \in Lanes : Idle(l)
  BY NoFlowIsFlow DEF Init, Idle
<1> QED
  BY <1>1, <1>2 DEF Session, Personal

LEMMA AlwaysSession == Spec => [](Sound /\ Session)
<1>1. Init => Sound /\ Session
  BY InitSound, InitOwns
<1>2. (Sound /\ Session) /\ [Next]_vars => (Sound /\ Session)'
  BY NextSound, NextOwns DEF Sound
<1> QED
  BY <1>1, <1>2, PTL DEF Spec

\* What the tab shows was read with the tokens of the user who is signed in, and a guest
\* is shown nothing of anybody, as long as every logout has waited for the operations
\* under way, and every sign-in for the one before it (store.tsx:190, store.tsx:327): for
\* any number of users, and of operations under way.
THEOREM OwnDataOnly == Spec => []ShownIsOwn
<1>1. Session => ShownIsOwn
  BY DEF Session, ShownIsOwn
<1> QED
  BY <1>1, AlwaysSession, PTL


-----------------------------------------------------------------------------
(* What is made of each intent *)

Making(l) == ~Idle(l) /\ At(l) = "createRoom" /\ flows[l].as \in Admins

LEMMA UnmadeIs ==
  /\ Unmade = {l \in Lanes : Making(l)}
  /\ IsFiniteSet(Unmade) /\ Cardinality(Unmade) \in Nat
<1>1. Unmade \subseteq Lanes /\ IsFiniteSet(Lanes)
  BY ClientStoreAssumption DEF Unmade, ClientStoreAssumption
<1> QED
  BY <1>1, FS_Subset, FS_CardinalityType DEF Unmade, Making

LEMMA UnmadeNext ==
  /\ Unmade' = {l \in Lanes : Making(l)'}
  /\ IsFiniteSet(Unmade') /\ Cardinality(Unmade') \in Nat
<1>1. Unmade' \subseteq Lanes /\ IsFiniteSet(Lanes)
  BY ClientStoreAssumption DEF Unmade, ClientStoreAssumption
<1> QED
  BY <1>1, FS_Subset, FS_CardinalityType DEF Unmade, Making

\* A form less, and a form more.
LEMMA OneLess ==
  ASSUME NEW l \in Lanes, Making(l), ~Making(l)',
         \A m \in Lanes \ {l} : Making(m)' <=> Making(m)
  PROVE  Cardinality(Unmade') = Cardinality(Unmade) - 1
<1>1. Unmade' = Unmade \ {l} /\ l \in Unmade
  BY UnmadeIs, UnmadeNext
<1> QED
  BY <1>1, UnmadeIs, FS_RemoveElement

LEMMA OneMore ==
  ASSUME NEW l \in Lanes, ~Making(l), Making(l)',
         \A m \in Lanes \ {l} : Making(m)' <=> Making(m)
  PROVE  Cardinality(Unmade') = Cardinality(Unmade) + 1
<1>1. Unmade' = Unmade \cup {l} /\ l \notin Unmade
  BY UnmadeIs, UnmadeNext
<1> QED
  BY <1>1, UnmadeIs, FS_AddElement

\* Nothing has happened to the new rooms or to the forms.
LEMMA RoomsSame ==
  ASSUME RoomsMade, NewRooms(db') = NewRooms(db), \A m \in Lanes : Making(m)' <=> Making(m),
         saves' = saves, budget'.faults = 0 => budget.faults = 0
  PROVE  RoomsMade'
<1>1. PICK n : /\ Numbered(db, n)
               /\ n + Cardinality(Unmade) <= saves
               /\ budget.faults = 0 => n + Cardinality(Unmade) = saves
  BY DEF RoomsMade
<1>2. Unmade' = Unmade
  BY UnmadeIs, UnmadeNext
<1>3. Numbered(db', n) /\ n \in Nat
  BY <1>1 DEF Numbered
<1>4. /\ n + Cardinality(Unmade') <= saves'
      /\ budget'.faults = 0 => n + Cardinality(Unmade') = saves'
  BY <1>1, <1>2
<1> QED
  BY <1>3, <1>4 DEF RoomsMade

\* The other flows are where they were.
LEMMA OthersMake ==
  ASSUME NEW l \in Lanes, OthersKept(l)
  PROVE  \A m \in Lanes \ {l} : Making(m)' <=> Making(m)
BY DEF OthersKept, Kept, Making, Idle, At

LEMMA GoingOnMakesNone ==
  ASSUME NEW l \in Lanes, Ends(l) \/ GoesOn(l)
  PROVE  ~Making(l)'
BY DEF Ends, GoesOn, Onward, Making, Idle, At

\* A flow that is not about to make a room takes a step that is no call.
LEMMA OtherStep ==
  ASSUME RoomsMade, NEW l \in Lanes, OthersKept(l), Ends(l) \/ GoesOn(l), At(l) # "createRoom",
         NewRooms(db') = NewRooms(db), saves' = saves, budget'.faults = 0 => budget.faults = 0
  PROVE  RoomsMade'
<1>1. ~Making(l) /\ ~Making(l)'
  BY GoingOnMakesNone DEF Making
<1>2. \A m \in Lanes : Making(m)' <=> Making(m)
  BY <1>1, OthersMake
<1> QED
  BY <1>2, RoomsSame

LEMMA AnsweredMakes ==
  ASSUME Sound, RoomsMade, NEW l \in Lanes, Answered(l)
  PROVE  RoomsMade'
<1>1. /\ ~Idle(l) /\ At(l) \in Calls /\ OthersKept(l) /\ GoesOn(l)
      /\ db' \in Outcomes(At(l), flows[l].arg, flows[l].as, db)
      /\ UNCHANGED <<budget, saves>>
  BY AnsweredDoes DEF Sound
<1>2. /\ At(l) # "createRoom" => NewRooms(db') = NewRooms(db)
      /\ At(l) = "createRoom" => \A n \in Nat : Numbered(db, n) => Numbered(db', n + 1)
  BY <1>1, CallKeeps
<1>3. CASE At(l) # "createRoom"
  BY <1>1, <1>2, <1>3, OtherStep
<1>4. CASE At(l) = "createRoom"
  <2>0. flows[l].as \in Admins
    BY <1>1, <1>4 DEF Outcomes
  <2>1. Cardinality(Unmade') = Cardinality(Unmade) - 1
    BY <1>1, <1>4, <2>0, OneLess, OthersMake, GoingOnMakesNone DEF Making
  <2>2. PICK n : /\ Numbered(db, n)
                 /\ n + Cardinality(Unmade) <= saves
                 /\ budget.faults = 0 => n + Cardinality(Unmade) = saves
    BY DEF RoomsMade
  <2>3. PICK k, d : k = n + 1 /\ d = db'
    OBVIOUS
  <2>4. Numbered(d, k) /\ n \in Nat
    BY <1>2, <1>4, <2>2, <2>3 DEF Numbered
  <2>5. saves \in Nat
    BY DEF Sound, Shape
  <2>6. /\ k + Cardinality(Unmade') <= saves'
        /\ budget'.faults = 0 => k + Cardinality(Unmade') = saves'
    BY <1>1, <2>1, <2>2, <2>3, <2>4, <2>5, UnmadeIs
  <2> QED
    BY <2>3, <2>4, <2>6 DEF RoomsMade
<1> QED
  BY <1>3, <1>4

\* A form whose room is not made, or not heard of, costs a fault or was refused.
LEMMA FailedMakes ==
  ASSUME Sound, RoomsMade, NEW l \in Lanes, FailedAs(l), ~Idle(l),
         IsBudget(budget'), budget'.faults = 0 => budget.faults = 0,
         \/ db' = db
         \/ At(l) \in Calls /\ db' \in Outcomes(At(l), flows[l].arg, flows[l].as, db),
         At(l) = "createRoom" => budget'.faults # 0 \/ flows[l].as \notin Admins
  PROVE  RoomsMade'
<1>1. /\ OthersKept(l) /\ saves' = saves /\ (Ends(l) \/ GoesOn(l))
  BY DEF FailedAs
<1>2. /\ At(l) # "createRoom" => NewRooms(db') = NewRooms(db)
      /\ At(l) = "createRoom" =>
           db' = db \/ \A n \in Nat : Numbered(db, n) => Numbered(db', n + 1)
  BY CallKeeps
<1>3. CASE At(l) # "createRoom"
  BY <1>1, <1>2, <1>3, OtherStep
<1>4. CASE At(l) = "createRoom" /\ flows[l].as \notin Admins
  <2>1. db' = db
    BY <1>4 DEF Outcomes
  <2>2. \A m \in Lanes : Making(m)' <=> Making(m)
    BY <1>1, <1>4, OthersMake, GoingOnMakesNone DEF Making
  <2> QED
    BY <1>1, <2>1, <2>2, RoomsSame
<1>5. CASE At(l) = "createRoom" /\ flows[l].as \in Admins
  <2>1. Cardinality(Unmade') = Cardinality(Unmade) - 1
    BY <1>1, <1>5, OneLess, OthersMake, GoingOnMakesNone DEF Making
  <2>2. budget'.faults # 0
    BY <1>5
  <2>3. PICK n : /\ Numbered(db, n)
                 /\ n + Cardinality(Unmade) <= saves
    BY DEF RoomsMade
  <2>4. n \in Nat /\ saves \in Nat
    BY <2>3 DEF Numbered, Sound, Shape
  <2>5. PICK d : d = db'
    OBVIOUS
  <2>6. PICK k \in {n, n + 1} : Numbered(d, k)
    BY <1>2, <1>5, <2>3, <2>4, <2>5
  <2>7. k + Cardinality(Unmade') <= saves'
    BY <1>1, <2>1, <2>3, <2>4, <2>6, UnmadeIs
  <2> QED
    BY <2>2, <2>4, <2>5, <2>6, <2>7 DEF RoomsMade
<1> QED
  BY <1>3, <1>4, <1>5

LEMMA ContinueMakes ==
  ASSUME Sound, RoomsMade, NEW l \in Lanes, Continue(l)
  PROVE  RoomsMade'
<1>0. Shape
  BY DEF Sound
<1>1. CASE Refused(l)
  <2>1. /\ FailedAs(l) /\ ~Idle(l) /\ UNCHANGED <<db, budget>>
        /\ \/ At(l) \in Calls /\ Outcomes(At(l), flows[l].arg, flows[l].as, db) = {}
           \/ At(l) \in {"me", "lists"}
    BY <1>0, <1>1, RefusedDoes
  <2>2. At(l) = "createRoom" => flows[l].as \notin Admins
    BY <2>1 DEF Outcomes
  <2>3. IsBudget(budget')
    BY <1>0, <2>1 DEF Shape
  <2> QED
    BY <2>1, <2>2, <2>3, FailedMakes
<1>2. CASE RequestLost(l)
  BY <1>0, <1>2, RequestLostDoes, FailedMakes
<1>3. CASE AnswerLost(l)
  BY <1>0, <1>3, AnswerLostDoes, FailedMakes
<1>4. CASE ReadMe(l)
  <2>1. /\ At(l) = "me" /\ OthersKept(l) /\ GoesOn(l) /\ UNCHANGED <<db, budget, saves>>
    BY <1>0, <1>4, ReadMeDoes
  <2> QED
    BY <2>1, OtherStep
<1>5. CASE ReadLists(l)
  <2>1. /\ At(l) = "lists" /\ OthersKept(l) /\ GoesOn(l) /\ FaultsKept
        /\ UNCHANGED <<db, saves>>
    BY <1>0, <1>5, ReadListsDoes
  <2> QED
    BY <2>1, OtherStep DEF FaultsKept
<1>6. CASE ShowLists(l)
  <2>1. /\ At(l) = "rest" /\ OthersKept(l) /\ GoesOn(l) /\ FaultsKept
        /\ UNCHANGED <<db, saves>>
    BY <1>0, <1>6, ShowListsDoes
  <2> QED
    BY <2>1, OtherStep DEF FaultsKept
<1>7. CASE ShowCredits(l)
  <2>1. /\ At(l) = "wallet" /\ OthersKept(l) /\ (Ends(l) \/ GoesOn(l)) /\ FaultsKept
        /\ UNCHANGED <<db, saves>>
    BY <1>0, <1>7, ShowCreditsDoes
  <2> QED
    BY <2>1, OtherStep DEF FaultsKept
<1>8. CASE Clear(l)
  <2>1. /\ At(l) = "clear" /\ OthersKept(l) /\ Ends(l) /\ UNCHANGED <<db, budget, saves>>
    BY <1>0, <1>8, ClearDoes
  <2> QED
    BY <2>1, OtherStep
<1>9. CASE Mark(l)
  <2>1. /\ At(l) = "mark" /\ OthersKept(l) /\ Ends(l) /\ UNCHANGED <<db, budget, saves>>
    BY <1>0, <1>9, MarkDoes
  <2> QED
    BY <2>1, OtherStep
<1> QED
  BY <1>1, <1>2, <1>3, <1>4, <1>5, <1>6, <1>7, <1>8, <1>9, AnsweredMakes DEF Continue

LEMMA PressedMakes ==
  ASSUME Sound, RoomsMade, NEW l \in Lanes, Pressed(l)
  PROVE  RoomsMade'
<1>1. Idle(l) /\ NoFault /\ db' = db
  BY PressedDoes DEF Sound
<1>2. PICK op, plan :
        /\ plan # <<>>
        /\ saves' = IF Head(plan) = "createRoom" /\ token \in Admins THEN saves + 1 ELSE saves
        /\ Started(l, op, plan)
  BY PressedDoes DEF Sound
<1>3. /\ ~Making(l) /\ (Making(l)' <=> Head(plan) = "createRoom" /\ token \in Admins)
      /\ \A m \in Lanes \ {l} : Making(m)' <=> Making(m)
  BY <1>1, <1>2 DEF Making, Idle, At, Started, Disturbed
<1>4. CASE ~(Head(plan) = "createRoom" /\ token \in Admins)
  <2>1. \A m \in Lanes : Making(m)' <=> Making(m)
    BY <1>3, <1>4
  <2> QED
    BY <1>1, <1>2, <1>4, <2>1, RoomsSame DEF NoFault
<1>5. CASE Head(plan) = "createRoom" /\ token \in Admins
  <2>1. Cardinality(Unmade') = Cardinality(Unmade) + 1
    BY <1>3, <1>5, OneMore
  <2>2. PICK n : /\ Numbered(db, n)
                 /\ n + Cardinality(Unmade) <= saves
                 /\ budget.faults = 0 => n + Cardinality(Unmade) = saves
    BY DEF RoomsMade
  <2>3. n \in Nat /\ saves \in Nat
    BY <2>2 DEF Numbered, Sound, Shape
  <2>4. PICK d : d = db' /\ Numbered(d, n)
    BY <1>1, <2>2
  <2>5. /\ n + Cardinality(Unmade') <= saves'
        /\ budget'.faults = 0 => n + Cardinality(Unmade') = saves'
    BY <1>1, <1>2, <1>5, <2>1, <2>2, <2>3, UnmadeIs DEF NoFault
  <2> QED
    BY <2>3, <2>4, <2>5 DEF RoomsMade
<1> QED
  BY <1>4, <1>5


LEMMA NextMakes ==
  ASSUME "createRoom" \notin OtherCalls, Sound, RoomsMade, [Next]_vars
  PROVE  RoomsMade'
<1>0. Shape
  BY DEF Sound
<1>1. CASE Moved
  <2>1. /\ \A m \in Lanes : Same(flows[m], flows'[m])
        /\ budget'.faults = budget.faults /\ UNCHANGED <<db, saves>>
    BY <1>0, <1>1, MovedDoes DEF Moved, NoFault
  <2>2. \A m \in Lanes : Making(m)' <=> Making(m)
    BY <2>1 DEF Same, Kept, Making, Idle, At
  <2> QED
    BY <2>1, <2>2, RoomsSame
<1>2. CASE Crashed \/ UNCHANGED vars
  <2>1. UNCHANGED <<db, flows, budget, saves>>
    BY <1>2, CrashedDoes DEF vars
  <2>2. \A m \in Lanes : Making(m)' <=> Making(m)
    BY <2>1 DEF Making, Idle, At
  <2> QED
    BY <2>1, <2>2, RoomsSame
<1>3. ASSUME NEW l \in Lanes, SignedIn(l) PROVE RoomsMade'
  <2>1. Idle(l) /\ NoFault /\ UNCHANGED <<db, saves>>
    BY <1>0, <1>3, SignedInDoes
  <2>2. PICK plan : plan # <<>> /\ Head(plan) \in SignIns /\ Started(l, "", plan)
    BY <1>0, <1>3, SignedInDoes
  <2>3. \A m \in Lanes : Making(m)' <=> Making(m)
    BY <2>1, <2>2 DEF Making, Idle, At, Started, Disturbed, SignIns
  <2> QED
    BY <2>1, <2>3, RoomsSame DEF NoFault
<1>4. ASSUME NEW l \in Lanes, Reload(l) PROVE RoomsMade'
  <2>1. /\ Quiet /\ UNCHANGED <<db, budget, saves>>
        /\ \/ flows' = flows
           \/ \E plan : plan # <<>> /\ Head(plan) = "me" /\ Started(l, "boot", plan)
    BY <1>0, <1>4, ReloadDoes
  <2>2. \A m \in Lanes : Making(m)' <=> Making(m)
    BY <2>1 DEF Making, Idle, At, Started, Disturbed, Quiet
  <2> QED
    BY <2>1, <2>2, RoomsSame
<1>5. CASE Elsewhere
  <2>1. /\ NoFault /\ \A m \in Lanes : Disturbed(flows[m], flows'[m])
        /\ \E call \in OtherCalls : \E arg, u : db' \in Outcomes(call, arg, u, db)
        /\ saves' = saves
    BY <1>0, <1>5, ElsewhereDoes
  <2>2. NewRooms(db') = NewRooms(db)
    BY <2>1, OtherCallKeeps
  <2>3. \A m \in Lanes : Making(m)' <=> Making(m)
    BY <2>1 DEF Making, Idle, At, Disturbed
  <2> QED
    BY <2>1, <2>2, <2>3, RoomsSame DEF NoFault
<1>6. ASSUME NEW l \in Lanes, AppRoutes(l) PROVE RoomsMade'
  BY <1>0, <1>1, <1>2, <1>3, <1>6, PagesMove, PressedMakes
<1> QED
  BY <1>2, <1>4, <1>5, <1>6, ContinueMakes DEF Next

LEMMA InitMakes == Init => RoomsMade
<1> SUFFICES ASSUME Init PROVE RoomsMade
  OBVIOUS
<1>1. Numbered(db, 0)
  BY InitSound
<1>2. \A l \in Lanes : Idle(l)
  BY NoFlowIsFlow DEF Init, Idle
<1>3. Unmade = {}
  BY <1>2 DEF Unmade
<1>4. Cardinality(Unmade) = 0
  BY <1>3, FS_EmptySet
<1>5. saves = 0
  BY DEF Init
<1> QED
  BY <1>1, <1>4, <1>5 DEF RoomsMade

LEMMA AtMostOne ==
  ASSUME NEW S, \A r, q \in S : r = q
  PROVE  Cardinality(S) <= 1
<1>1. CASE S = {}
  BY <1>1, FS_EmptySet
<1>2. CASE S # {}
  <2>1. PICK r : S = {r}
    BY <1>2
  <2> QED
    BY <2>1, FS_Singleton
<1> QED
  BY <1>1, <1>2

LEMMA MadeOnce == Sound /\ RoomsMade => OnePerIntent
<1> SUFFICES ASSUME Sound, RoomsMade PROVE OnePerIntent
  OBVIOUS
<1>1. Cardinality(Live(db)) <= 1
  BY AtMostOne DEF Sound, OneHour
<1>2. Cardinality({r \in Named(db, "people", "name") : r.owner = Newcomer}) <= 1
  <2>1. PICK S : S = {r \in Named(db, "people", "name") : r.owner = Newcomer}
    OBVIOUS
  <2>2. \A r, q \in S : r = q
    BY <2>1 DEF Sound, OneAccount
  <2> QED
    BY <2>1, <2>2, AtMostOne
<1>3. PICK n : /\ Numbered(db, n)
               /\ n + Cardinality(Unmade) <= saves
               /\ budget.faults = 0 => n + Cardinality(Unmade) = saves
  BY DEF RoomsMade
<1>4. n \in Nat /\ saves \in Nat
  BY <1>3 DEF Numbered, Sound, Shape
<1>5. Cardinality(Named(db, "rooms", "added")) = n
  BY <1>3, <1>4, NumberedCount DEF NewRooms
<1>6. Quiet => Cardinality(Unmade) = 0
  <2>1. Quiet => Unmade = {}
    BY DEF Quiet, Unmade
  <2> QED
    BY <2>1, FS_EmptySet
<1>7. /\ n <= saves
      /\ Quiet /\ budget.faults = 0 => n = saves
  BY <1>3, <1>4, <1>6, UnmadeIs
<1> QED
  BY <1>1, <1>2, <1>5, <1>7 DEF OnePerIntent

\* However often the user presses, whatever is lost, and although every error invites to
\* try again: an hour is reserved once, a client has one account, and there are no more
\* new rooms than forms an administrator's tokens have sent; exactly as many once nothing
\* was lost and all has ended, whoever is signed in or out meanwhile (RoomForm.tsx:155,
\* NewClient.tsx:29, modals.tsx:52).  Rooms that other browsers make are of no form of
\* this one.
THEOREM IntentsMadeOnce ==
  ASSUME "createRoom" \notin OtherCalls
  PROVE  Spec => []OnePerIntent
<1>1. Init => Sound /\ RoomsMade
  BY InitSound, InitMakes
<1>2. (Sound /\ RoomsMade) /\ [Next]_vars => (Sound /\ RoomsMade)'
  BY NextSound, NextMakes
<1> QED
  BY <1>1, <1>2, MadeOnce, PTL DEF Spec


-----------------------------------------------------------------------------
(* What is shown of lists that were read *)

RoomsShown(rows) == {[r EXCEPT !.status = mapRoom(r.status)] : r \in rows}

OpenShown(rows) == {a \in rows : a.status # "inactive"}

ReservationsShown(rows) == {[r EXCEPT !.status = reservationStatus(r.status)] : r \in rows}

ContractsShown(rows) == {[r EXCEPT !.status = contractStatus(r.status)] : r \in rows}

NotesShown(rows) == {[r EXCEPT !.status = mapNotification(r.status)] : r \in rows}

PaymentsShown(invoices, payments) ==
  LET PaymentOf(i) == LET mine == {p \in payments : p.what = i.what /\ p.copy = i.copy}
                      IN IF mine = {} THEN "none" ELSE (CHOOSE p \in mine : TRUE).status
  IN {[i EXCEPT !.status = mergeInvoicePayment(i.status, PaymentOf(i))] : i \in invoices}

LEMMA MappedIs ==
  ASSUME NEW lists
  PROVE  Mapped(lists) =
           [rooms |-> RoomsShown(lists["rooms"]),
            availabilities |-> OpenShown(lists["availabilities"]),
            reservations |-> ReservationsShown(lists["reservations"]),
            contracts |-> ContractsShown(lists["contracts"]),
            payments |-> PaymentsShown(lists["invoices"], lists["payments"]),
            notifications |-> NotesShown(lists["notifications"]),
            clients |-> lists["people"]]
BY Zenon DEF Mapped, RoomsShown, OpenShown, ReservationsShown, ContractsShown, NotesShown, PaymentsShown

\* The credits computed depend on the reservations and the contracts only.
LEMMA ComputedOf ==
  ASSUME NEW a, NEW b, a["reservations"] = b["reservations"], a["contracts"] = b["contracts"]
  PROVE  ComputedCredits(Mapped(a)) = ComputedCredits(Mapped(b))
<1>1. PICK m, n : m = Mapped(a) /\ n = Mapped(b)
  OBVIOUS
<1>2. /\ m.reservations = ReservationsShown(a["reservations"])
      /\ m.contracts = ContractsShown(a["contracts"])
      /\ n.reservations = ReservationsShown(b["reservations"])
      /\ n.contracts = ContractsShown(b["contracts"])
  BY <1>1, MappedIs
<1>3. m.reservations = n.reservations /\ m.contracts = n.contracts
  BY <1>2
<1>4. ComputedCredits(m) = ComputedCredits(n)
  BY <1>3 DEF ComputedCredits
<1> QED
  BY <1>1, <1>4

\* The lists that u is sent of database d.
AllOf(d, u) == [s \in Lists |-> Allowed(d, u, s)]

NotesRead(rows) == {[n EXCEPT !.status = "read"] : n \in rows}

LEMMA NotesAreMarked ==
  ASSUME NEW rows
  PROVE  /\ NotesRead(rows) = {Marked(r, "read") : r \in rows}
         /\ NotesShown(rows) = {Marked(r, mapNotification(r.status)) : r \in rows}
BY Zenon DEF NotesRead, NotesShown, Marked

LEMMA ReadNotes ==
  ASSUME NEW rows, \A r \in rows : IsRow(r)
  PROVE  NotesShown(NotesRead(rows)) = NotesRead(NotesShown(rows))
<1>1. mapNotification("read") = "read"
  BY DEF mapNotification
<1>2. ASSUME NEW r \in rows
      PROVE  LET q == Marked(r, "read")
             IN Marked(q, mapNotification(q.status)) =
                  Marked(Marked(r, mapNotification(r.status)), "read")
  <2>1. PICK a, b, m : m = mapNotification(r.status) /\ a = Marked(r, "read") /\ b = Marked(r, m)
    OBVIOUS
  <2>2. /\ IsRow(a) /\ a.what = r.what /\ a.copy = r.copy /\ a.owner = r.owner /\ a.status = "read"
        /\ IsRow(b) /\ b.what = r.what /\ b.copy = r.copy /\ b.owner = r.owner
    BY <2>1, MarkedFields
  <2>3. /\ Marked(a, "read") = Row(a.what, a.copy, a.owner, "read")
        /\ Marked(b, "read") = Row(b.what, b.copy, b.owner, "read")
    BY <2>2, MarkedRow
  <2> QED
    BY <1>1, <2>1, <2>2, <2>3
<1>3. NotesShown(NotesRead(rows)) =
        {Marked(Marked(r, "read"), mapNotification(Marked(r, "read").status)) : r \in rows}
  BY NotesAreMarked
<1>4. NotesRead(NotesShown(rows)) =
        {Marked(Marked(r, mapNotification(r.status)), "read") : r \in rows}
  BY NotesAreMarked
<1> QED
  BY <1>2, <1>3, <1>4

LEMMA MarkedRowsIs ==
  ASSUME NEW rows
  PROVE  MarkedRows(rows) = [rows EXCEPT !.notifications = NotesRead(rows.notifications)]
BY Zenon DEF MarkedRows, NotesRead

\* When u has read the notifications, what is shown differs only in that.
LEMMA ReadShown ==
  ASSUME NEW a, NEW b,
         \A s \in Lists \ {"notifications"} : a[s] = b[s],
         b["notifications"] = NotesRead(a["notifications"]),
         \A r \in a["notifications"] : IsRow(r)
  PROVE  Mapped(b) = MarkedRows(Mapped(a))
<1>1. PICK m, n, p, q :
        /\ m = Mapped(a) /\ n = Mapped(b)
        /\ p = NotesShown(a["notifications"]) /\ q = NotesShown(b["notifications"])
  OBVIOUS
<1>2. PICK ro, av, re, co, pa, cl :
        /\ ro = RoomsShown(a["rooms"]) /\ av = OpenShown(a["availabilities"])
        /\ re = ReservationsShown(a["reservations"]) /\ co = ContractsShown(a["contracts"])
        /\ pa = PaymentsShown(a["invoices"], a["payments"]) /\ cl = a["people"]
  OBVIOUS
<1>3. /\ a["rooms"] = b["rooms"] /\ a["availabilities"] = b["availabilities"]
      /\ a["reservations"] = b["reservations"] /\ a["contracts"] = b["contracts"]
      /\ a["invoices"] = b["invoices"] /\ a["payments"] = b["payments"]
      /\ a["people"] = b["people"]
  BY DEF Lists
<1>4. /\ m = [rooms |-> ro, availabilities |-> av, reservations |-> re, contracts |-> co,
              payments |-> pa, notifications |-> p, clients |-> cl]
      /\ n = [rooms |-> ro, availabilities |-> av, reservations |-> re, contracts |-> co,
              payments |-> pa, notifications |-> q, clients |-> cl]
  BY <1>1, <1>2, <1>3, MappedIs
<1>5. q = NotesRead(p)
  BY <1>1, ReadNotes
<1>6. m.notifications = p /\ n = [m EXCEPT !.notifications = q]
  BY <1>4
<1>7. n = [m EXCEPT !.notifications = NotesRead(m.notifications)]
  BY <1>5, <1>6
<1> QED
  BY <1>1, <1>7, MarkedRowsIs

LEMMA ReadAll ==
  ASSUME NEW d, IsDb(d), NEW u, NEW e,
         e = Patch(d, "notifications", Allowed(d, u, "notifications"), "read")
  PROVE  /\ e.balance = d.balance
         /\ Mapped(AllOf(e, u)) = MarkedRows(Mapped(AllOf(d, u)))
         /\ ComputedCredits(Mapped(AllOf(e, u))) = ComputedCredits(Mapped(AllOf(d, u)))
<1>1. PICK old, mine : old = d.rows["notifications"] /\ mine = Allowed(d, u, "notifications")
  OBVIOUS
<1>2. mine = {r \in old : r.owner = u}
  BY <1>1 DEF Allowed
<1>3. /\ "notifications" \in Lists /\ "reservations" \in Lists /\ "contracts" \in Lists
      /\ mine \in SUBSET d.rows["notifications"]
      /\ \A r \in old : IsRow(r)
  BY <1>1, <1>2 DEF Lists, IsDb, IsLists
<1>4. /\ e.rows["notifications"] = Remarked(old, mine, "read")
      /\ \A t \in Lists \ {"notifications"} : e.rows[t] = d.rows[t]
      /\ e.balance = d.balance
  <2>1. PICK s, st, p : s = "notifications" /\ st = "read" /\ p = Patch(d, s, mine, st)
    OBVIOUS
  <2>2. s \in Lists /\ mine \in SUBSET d.rows[s]
    BY <1>3, <2>1
  <2>3. /\ Becomes(d, p, s, Remarked(d.rows[s], mine, st))
        /\ \A t \in Lists \ {s} : p.rows[t] = d.rows[t]
        /\ p.balance = d.balance
    BY <2>1, <2>2, PatchBecomes
  <2>4. p.rows[s] = Remarked(d.rows[s], mine, st)
    BY <2>3 DEF Becomes
  <2>5. e = p
    BY <1>1, <2>1
  <2> QED
    BY <1>1, <2>1, <2>3, <2>4, <2>5
<1>5. Allowed(e, u, "notifications") = NotesRead(mine)
  <2>1. Allowed(e, u, "notifications") = {r \in Remarked(old, mine, "read") : r.owner = u}
    BY <1>4 DEF Allowed
  <2>2. \A r \in mine : Marked(r, "read").owner = u
    BY <1>2, <1>3, MarkedFields
  <2>3. PICK read : read = {Marked(r, "read") : r \in mine}
    OBVIOUS
  <2>4. Remarked(old, mine, "read") = (old \ mine) \cup read
    BY <2>3 DEF Remarked
  <2>5. \A r \in read : r.owner = u
    BY <2>2, <2>3
  <2>6. {r \in (old \ mine) \cup read : r.owner = u} = read
    BY <1>2, <2>5
  <2> QED
    BY <2>1, <2>3, <2>4, <2>6, NotesAreMarked
<1>6. ASSUME NEW s \in Lists \ {"notifications"} PROVE Allowed(e, u, s) = Allowed(d, u, s)
  <2>1. e.rows[s] = d.rows[s]
    BY <1>4
  <2> QED
    BY <2>1 DEF Allowed, Lists
<1>7. PICK a, b : a = AllOf(d, u) /\ b = AllOf(e, u)
  OBVIOUS
<1>8. /\ \A s \in Lists \ {"notifications"} : a[s] = b[s]
      /\ a["notifications"] = mine /\ b["notifications"] = NotesRead(mine)
  BY <1>1, <1>3, <1>5, <1>6, <1>7 DEF AllOf
<1>9. Mapped(b) = MarkedRows(Mapped(a))
  BY <1>2, <1>3, <1>8, ReadShown
<1>10. ComputedCredits(Mapped(b)) = ComputedCredits(Mapped(a))
  BY <1>3, <1>8, ComputedOf
<1> QED
  BY <1>4, <1>7, <1>9, <1>10


-----------------------------------------------------------------------------
(* What a flow that is alone knows *)

Knowing == AloneReads /\ Faithful

AloneKnows(l) ==
  /\ Others(l)
  /\ At(l) \in SignIns \/ flows[l].as = token
  /\ At(l) \in {"lists", "rest", "wallet"} => HasRead(l)

MarksRight(l) ==
  /\ At(l) = "read" => Matches
  /\ At(l) = "mark" => MatchesUnmarked

LEMMA KnowingIs ==
  /\ AloneReads <=> \A l \in Lanes : ~Idle(l) /\ flows[l].alone => AloneKnows(l)
  /\ Faithful <=>
       (trusted /\ tab.screen = "shown" =>
          /\ Quiet => Matches
          /\ \A l \in Lanes : ~Idle(l) /\ flows[l].alone => MarksRight(l))
BY DEF AloneReads, Faithful, AloneKnows, MarksRight

LEMMA KnowingAfter ==
  ASSUME \A l \in Lanes : flows'[l].plan # <<>> /\ flows'[l].alone => AloneKnows(l)',
         trusted' /\ tab'.screen = "shown" =>
           /\ Quiet' => Matches'
           /\ \A l \in Lanes : flows'[l].plan # <<>> /\ flows'[l].alone => MarksRight(l)'
  PROVE  Knowing'
BY DEF Knowing, AloneReads, Faithful, AloneKnows, MarksRight, Idle

\* The step of a flow, which no other one is alone beside.
LEMMA StepKnows ==
  ASSUME Knowing, NEW l \in Lanes, ~Idle(l), OthersKept(l), Ends(l) \/ GoesOn(l),
         GoesOn(l) /\ flows'[l].alone /\ At(l)' \in {"lists", "rest", "wallet"} => HasRead(l)',
         trusted' /\ tab'.screen = "shown" /\ Ends(l) => Matches',
         trusted' /\ tab'.screen = "shown" /\ GoesOn(l) /\ flows'[l].alone /\ At(l)' = "mark" =>
           MatchesUnmarked'
  PROVE  Knowing'
<1>1. ASSUME NEW m \in Lanes, flows'[m].plan # <<>>, flows'[m].alone PROVE m = l
  <2> SUFFICES ASSUME m # l PROVE FALSE
    OBVIOUS
  <2>1. ~Idle(m) /\ flows[m].alone
    BY <1>1 DEF OthersKept, Kept, Idle
  <2>2. Others(m)
    BY <2>1, KnowingIs DEF Knowing, AloneKnows
  <2> QED
    BY <2>2 DEF Others
<1>2. ASSUME flows'[l].plan # <<>>, flows'[l].alone PROVE AloneKnows(l)'
  <2>1. GoesOn(l)
    BY <1>2 DEF Ends
  <2>2. flows[l].alone /\ flows'[l].as = token'
    BY <1>2, <2>1 DEF GoesOn, Onward
  <2>3. Others(l)
    BY <2>2, KnowingIs DEF Knowing, AloneKnows
  <2>4. Others(l)'
    BY <2>3 DEF Others, OthersKept, Kept, Idle
  <2> QED
    BY <1>2, <2>1, <2>2, <2>4 DEF AloneKnows
<1>3. ASSUME trusted', tab'.screen = "shown", flows'[l].plan # <<>>, flows'[l].alone
      PROVE  MarksRight(l)'
  <2>1. GoesOn(l) /\ At(l)' # "read"
    BY <1>3 DEF Ends, GoesOn, Onward, At
  <2> QED
    BY <1>3, <2>1 DEF MarksRight
<1>4. Quiet' => Ends(l)
  BY DEF Quiet, Idle, Ends
<1> QED
  BY <1>1, <1>2, <1>3, <1>4, KnowingAfter

\* After a call a flow is not about to read what hydrate reads after the profile, and is
\* about to mark the notifications only if it has called for that.
LEMMA AfterCall ==
  ASSUME NEW l \in Lanes, At(l) \in Calls, GoesOn(l)
  PROVE  /\ At(l)' \notin {"lists", "rest", "wallet"}
         /\ At(l)' = "mark" => At(l) = "read"
<1>1. Follows(At(l), At(l)')
  BY DEF GoesOn, Onward, At
<1> QED
  BY <1>1 DEF Follows, Calls

LEMMA AnsweredKnows ==
  ASSUME Shape, Knowing, NEW l \in Lanes, Answered(l)
  PROVE  Knowing'
<1>1. /\ ~Idle(l) /\ At(l) \in Calls /\ OthersKept(l) /\ GoesOn(l)
      /\ token' = IF At(l) \in SignIns THEN flows[l].arg ELSE token
      /\ db' \in Outcomes(At(l), flows[l].arg, flows[l].as, db)
      /\ trusted' = (trusted /\ flows[l].alone)
      /\ UNCHANGED tab
  BY AnsweredDoes
<1>2. ~Ends(l)
  BY <1>1 DEF GoesOn, Onward, Ends
<1>3. ASSUME trusted', tab'.screen = "shown", At(l)' = "mark" PROVE MatchesUnmarked'
  <2>1. At(l) = "read" /\ trusted /\ flows[l].alone /\ tab.screen = "shown"
    BY <1>1, <1>3, AfterCall
  <2>2. Matches /\ flows[l].as = token
    BY <1>1, <2>1, KnowingIs DEF Knowing, AloneKnows, MarksRight, SignIns
  <2>3. token' = token
    BY <1>1, <2>1 DEF SignIns
  <2>4. PICK d, u, e : d = db /\ u = token /\ e = db'
    OBVIOUS
  <2>5. e \in Outcomes("read", flows[l].arg, u, d)
    BY <1>1, <2>1, <2>2, <2>4
  <2>6. e = Patch(d, "notifications", Allowed(d, u, "notifications"), "read")
    BY <2>5 DEF Outcomes
  <2>7. /\ e.balance = d.balance
        /\ Mapped(AllOf(e, u)) = MarkedRows(Mapped(AllOf(d, u)))
        /\ ComputedCredits(Mapped(AllOf(e, u))) = ComputedCredits(Mapped(AllOf(d, u)))
    BY <2>4, <2>6, ReadAll DEF Shape
  <2>8. /\ tab.me # NoOne /\ tab.me = u
        /\ tab.rows = Mapped(AllOf(d, u))
        /\ tab.credits = IF u \in Clients THEN d.balance[u]
                         ELSE ComputedCredits(Mapped(AllOf(d, u)))
    BY <2>2, <2>4 DEF Matches, AllAllowed, AllOf, Credits
  <2>9. MarkedRows(tab.rows) = Mapped(AllOf(e, u))
    BY <2>7, <2>8
  <2>10. tab.credits = IF u \in Clients THEN e.balance[u]
                       ELSE ComputedCredits(Mapped(AllOf(e, u)))
    BY <2>7, <2>8
  <2>11. /\ tab'.me # NoOne /\ tab'.me = token' /\ tab'.me = u
         /\ MarkedRows(tab'.rows) = Mapped(AllOf(db', u))
         /\ tab'.credits = IF u \in Clients THEN db'.balance[u]
                           ELSE ComputedCredits(Mapped(AllOf(db', u)))
    BY <1>1, <2>3, <2>4, <2>8, <2>9, <2>10
  <2> QED
    BY <2>11 DEF MatchesUnmarked, MarkedRows, AllAllowed, AllOf, Credits
<1> QED
  BY <1>1, <1>2, <1>3, AfterCall, StepKnows

LEMMA FailedKnows ==
  ASSUME Shape, Knowing, NEW l \in Lanes, FailedAs(l), ~Idle(l)
  PROVE  Knowing'
<1>1. OthersKept(l) /\ trusted' = FALSE /\ (Ends(l) \/ (At(l) \in Calls /\ GoesOn(l)))
  BY DEF FailedAs
<1>2. GoesOn(l) => ~Ends(l)
  BY DEF GoesOn, Onward, Ends
<1> QED
  BY <1>1, <1>2, AfterCall, StepKnows


LEMMA AllowedNext ==
  ASSUME UNCHANGED <<db, token>>
  PROVE  \A s : Allowed(db, token, s)' = Allowed(db, token, s)
<1>1. PICK d, e, u, v : d = db /\ e = db' /\ u = token /\ v = token'
  OBVIOUS
<1>2. \A s : Allowed(e, v, s) = Allowed(d, u, s)
  BY <1>1
<1> QED
  BY <1>1, <1>2

LEMMA ReadMeKnows ==
  ASSUME Shape, Knowing, NEW l \in Lanes, ReadMe(l)
  PROVE  Knowing'
<1>1. /\ ~Idle(l) /\ At(l) = "me" /\ flows[l].as # NoOne /\ OthersKept(l) /\ GoesOn(l)
      /\ flows'[l].who = flows[l].as /\ flows'[l].for = token
      /\ \A s \in Together : flows'[l].got[s] = Allowed(db, token, s)
      /\ flows'[l].got["people"] = Allowed(db, flows[l].as, "people")
      /\ tab' = IF tab.screen = "blank" THEN tab ELSE [tab EXCEPT !.me = flows[l].as]
      /\ UNCHANGED <<db, token, trusted>>
  BY ReadMeDoes
<1>2. ~Ends(l) /\ At(l)' = "lists" /\ (flows'[l].alone => flows[l].alone)
  BY <1>1 DEF GoesOn, Onward, Ends, At, Follows
<1>3. ASSUME flows'[l].alone PROVE HasRead(l)'
  <2>1. flows[l].as = token
    BY <1>1, <1>2, <1>3, KnowingIs DEF Knowing, AloneKnows, SignIns
  <2>2. tab'.screen # "blank" => tab'.me = token
    <3>1. PICK t, n, u : t = tab /\ n = tab' /\ u = flows[l].as
      OBVIOUS
    <3>2. IsTab(t) /\ (t.screen = "blank" => n = t) /\ (t.screen # "blank" => n = [t EXCEPT !.me = u])
      BY <1>1, <3>1 DEF Shape
    <3>3. t.screen # "blank" => n.me = u
      BY <3>2, SetMe
    <3> QED
      BY <2>1, <3>1, <3>2, <3>3
  <2>3. /\ flows'[l].who = token' /\ flows'[l].for = token' /\ token' # NoOne
        /\ tab'.screen # "blank" => tab'.me = token'
        /\ At(l)' # "wallet"
    BY <1>1, <1>2, <2>1, <2>2
  <2>4. \A s \in Together \cup {"people"} : flows'[l].got[s] = Allowed(db, token, s)'
    BY <1>1, <2>1, AllowedNext
  <2> QED
    BY <2>3, <2>4 DEF HasRead
<1> QED
  BY <1>1, <1>2, <1>3, StepKnows

LEMMA ReadListsKnows ==
  ASSUME Shape, Knowing, NEW l \in Lanes, ReadLists(l)
  PROVE  Knowing'
<1>1. /\ ~Idle(l) /\ At(l) = "lists" /\ OthersKept(l) /\ GoesOn(l)
      /\ flows'[l].who = flows[l].who /\ flows'[l].for = flows[l].for
      /\ flows'[l].alone => flows'[l].got = flows[l].got
      /\ UNCHANGED <<db, token, tab, trusted>>
  BY ReadListsDoes
<1>2. ~Ends(l) /\ At(l)' = "rest" /\ (flows'[l].alone => flows[l].alone)
  BY <1>1 DEF GoesOn, Onward, Ends, At, Follows
<1>3. ASSUME flows'[l].alone PROVE HasRead(l)'
  <2>1. HasRead(l)
    BY <1>1, <1>2, <1>3, KnowingIs DEF Knowing, AloneKnows
  <2>2. \A s \in Together \cup {"people"} : flows'[l].got[s] = Allowed(db, token, s)'
    BY <1>1, <1>3, <2>1, AllowedNext DEF HasRead
  <2> QED
    BY <1>1, <1>2, <2>1, <2>2 DEF HasRead
<1> QED
  BY <1>1, <1>2, <1>3, StepKnows

LEMMA ShowListsKnows ==
  ASSUME Shape, Knowing, NEW l \in Lanes, ShowLists(l)
  PROVE  Knowing'
<1>1. /\ ~Idle(l) /\ At(l) = "rest" /\ OthersKept(l) /\ GoesOn(l)
      /\ flows'[l].who = flows[l].who /\ flows'[l].for = flows[l].for
      /\ flows'[l].got = flows[l].got
      /\ UNCHANGED <<db, token, trusted>>
  BY ShowListsDoes
<1>2. PICK lists :
        /\ lists = [s \in Lists |-> lists[s]]
        /\ \A s \in Lists \ {"availabilities", "people"} : lists[s] = flows[l].got[s]
        /\ flows'[l].alone =>
             /\ lists["availabilities"] = db.rows["availabilities"]
             /\ lists["people"] = IF flows[l].who \in Admins
                                  THEN Allowed(db, flows[l].as, "people")
                                  ELSE flows[l].got["people"]
        /\ tab' = IF tab.screen = "blank" THEN tab
                  ELSE [tab EXCEPT !.rows = Mapped(lists), !.listsFor = flows[l].for]
  BY ShowListsDoes
<1>3. ~Ends(l) /\ At(l)' = "wallet" /\ (flows'[l].alone => flows[l].alone)
  BY <1>1 DEF GoesOn, Onward, Ends, At, Follows
<1>4. ASSUME flows'[l].alone PROVE HasRead(l)'
  <2>1. HasRead(l) /\ flows[l].as = token
    BY <1>1, <1>3, <1>4, KnowingIs DEF Knowing, AloneKnows, SignIns
  <2>2. /\ \A s \in Together \cup {"people"} : flows[l].got[s] = Allowed(db, token, s)
        /\ flows[l].who = token /\ flows[l].for = token /\ token # NoOne
        /\ tab.screen # "blank" => tab.me = token
    BY <2>1 DEF HasRead
  <2>3. \A s \in Together \cup {"people"} : flows'[l].got[s] = Allowed(db, token, s)'
    BY <1>1, <2>2, AllowedNext
  <2>4. \A s \in Lists : lists[s] = Allowed(db, token, s)
    <3>1. Lists = Together \cup {"availabilities", "people"}
      BY DEF Lists, Together
    <3>2. \A s \in Together : s \in Lists \ {"availabilities", "people"}
      BY DEF Lists, Together
    <3>3. \A s \in Together : lists[s] = Allowed(db, token, s)
      BY <1>2, <2>2, <3>2
    <3>4. lists["people"] = Allowed(db, token, "people")
      BY <1>2, <1>4, <2>1, <2>2
    <3>5. lists["availabilities"] = Allowed(db, token, "availabilities")
      BY <1>2, <1>4 DEF Allowed
    <3> QED
      BY <3>1, <3>3, <3>4, <3>5
  <2>5. lists = AllOf(db, token)
    BY <1>2, <2>4 DEF AllOf
  <2>6. /\ tab'.screen = tab.screen
        /\ tab.screen # "blank" => tab'.me = tab.me /\ tab'.rows = Mapped(lists)
    <3>1. PICK t, n, u : t = tab /\ n = tab' /\ u = flows[l].for
      OBVIOUS
    <3>2. /\ IsTab(t) /\ (t.screen = "blank" => n = t)
          /\ t.screen # "blank" => n = Showing(t, lists, u)
      BY <1>2, <3>1 DEF Shape, Showing
    <3>3. t.screen # "blank" =>
            /\ IsTab(n) /\ n.screen = t.screen /\ n.me = t.me /\ n.rows = Mapped(lists)
      BY <3>2, ShownTab
    <3> QED
      BY <3>1, <3>2, <3>3
  <2>7. tab'.screen # "blank" => tab'.me = token' /\ tab'.rows = Mapped(AllOf(db', token'))
    BY <1>1, <2>2, <2>5, <2>6
  <2>8. flows'[l].who = token' /\ flows'[l].for = token' /\ token' # NoOne
    BY <1>1, <2>2
  <2> QED
    BY <2>3, <2>7, <2>8 DEF HasRead, AllAllowed, AllOf
<1> QED
  BY <1>1, <1>3, <1>4, StepKnows

LEMMA ShowCreditsKnows ==
  ASSUME Shape, Knowing, NEW l \in Lanes, ShowCredits(l)
  PROVE  Knowing'
<1>1. /\ ~Idle(l) /\ At(l) = "wallet" /\ OthersKept(l)
      /\ Ends(l) \/ (GoesOn(l) /\ At(l)' = "addPhotos")
      /\ \E t : CreditsShown(l, t) /\ tab' = IF tab.screen = "blank" THEN tab ELSE t
      /\ UNCHANGED <<db, token>>
  BY ShowCreditsDoes DEF At
<1>2. GoesOn(l) => ~Ends(l)
  BY DEF GoesOn, Onward, Ends
<1>3. ASSUME trusted', tab'.screen = "shown" PROVE Matches'
  <2>1. tab.screen # "blank"
    BY <1>1, <1>3
  <2>2. /\ tab'.me = tab.me /\ tab'.rows = tab.rows /\ flows[l].alone
        /\ tab'.credits = IF flows[l].as \in Clients THEN db.balance[flows[l].as]
                          ELSE ComputedCredits(Mapped(flows[l].got))
    BY <1>1, <1>3, <2>1 DEF CreditsShown
  <2>3. HasRead(l) /\ flows[l].as = token
    BY <1>1, <2>2, KnowingIs DEF Knowing, AloneKnows, SignIns
  <2>4. /\ token # NoOne /\ tab.me = token /\ tab.rows = Mapped(AllOf(db, token))
        /\ flows[l].got["reservations"] = Allowed(db, token, "reservations")
        /\ flows[l].got["contracts"] = Allowed(db, token, "contracts")
    BY <1>1, <2>1, <2>3 DEF HasRead, Together, AllAllowed, AllOf
  <2>5. ComputedCredits(Mapped(flows[l].got)) = ComputedCredits(Mapped(AllOf(db, token)))
    <3>1. PICK a, b : a = flows[l].got /\ b = AllOf(db, token)
      OBVIOUS
    <3>2. a["reservations"] = b["reservations"] /\ a["contracts"] = b["contracts"]
      BY <2>4, <3>1 DEF AllOf, Lists
    <3> QED
      BY <3>1, <3>2, ComputedOf
  <2>6. /\ tab'.me # NoOne /\ tab'.me = token' /\ tab'.rows = Mapped(AllOf(db', tab'.me))
        /\ tab'.credits = IF tab'.me \in Clients THEN db'.balance[tab'.me]
                          ELSE ComputedCredits(Mapped(AllOf(db', tab'.me)))
    BY <1>1, <2>2, <2>3, <2>4, <2>5
  <2> QED
    BY <2>6 DEF Matches, AllAllowed, AllOf, Credits
<1> QED
  BY <1>1, <1>2, <1>3, StepKnows

LEMMA ClearKnows ==
  ASSUME Shape, Knowing, NEW l \in Lanes, Clear(l)
  PROVE  Knowing'
<1>1. ~Idle(l) /\ OthersKept(l) /\ Ends(l) /\ trusted' = FALSE
  BY ClearDoes
<1>2. ~GoesOn(l)
  BY <1>1 DEF GoesOn, Onward, Ends
<1> QED
  BY <1>1, <1>2, StepKnows

LEMMA MarkKnows ==
  ASSUME Shape, Knowing, NEW l \in Lanes, Mark(l)
  PROVE  Knowing'
<1>1. /\ ~Idle(l) /\ At(l) = "mark" /\ OthersKept(l) /\ Ends(l)
      /\ tab' = IF tab.screen = "blank" THEN tab
                ELSE [tab EXCEPT !.rows = MarkedRows(tab.rows)]
      /\ trusted' = (trusted /\ flows[l].alone)
      /\ UNCHANGED <<db, token>>
  BY MarkDoes
<1>2. ~GoesOn(l)
  BY <1>1 DEF GoesOn, Onward, Ends
<1>3. ASSUME trusted', tab'.screen = "shown" PROVE Matches'
  <2>1. tab.screen # "blank"
    BY <1>1, <1>3
  <2>2. /\ tab'.screen = tab.screen /\ tab'.me = tab.me
        /\ tab'.rows = MarkedRows(tab.rows) /\ tab'.credits = tab.credits
    <3>1. PICK t, n : t = tab /\ n = tab'
      OBVIOUS
    <3>2. IsTab(t) /\ n = [t EXCEPT !.rows = MarkedRows(t.rows)]
      BY <1>1, <2>1, <3>1 DEF Shape
    <3>3. n.screen = t.screen /\ n.me = t.me /\ n.rows = MarkedRows(t.rows) /\ n.credits = t.credits
      BY <3>2, MarkedTab
    <3> QED
      BY <3>1, <3>3
  <2>3. trusted /\ flows[l].alone /\ tab.screen = "shown"
    BY <1>1, <1>3, <2>2
  <2>4. MatchesUnmarked
    BY <1>1, <2>3, KnowingIs DEF Knowing, MarksRight
  <2>5. /\ tab.me # NoOne /\ tab.me = token
        /\ MarkedRows(tab.rows) = Mapped(AllOf(db, tab.me))
        /\ tab.credits = IF tab.me \in Clients THEN db.balance[tab.me]
                         ELSE ComputedCredits(Mapped(AllOf(db, tab.me)))
    BY <2>4 DEF MatchesUnmarked, MarkedRows, AllAllowed, AllOf, Credits
  <2>6. /\ tab'.me # NoOne /\ tab'.me = token' /\ tab'.rows = Mapped(AllOf(db', tab'.me))
        /\ tab'.credits = IF tab'.me \in Clients THEN db'.balance[tab'.me]
                          ELSE ComputedCredits(Mapped(AllOf(db', tab'.me)))
    BY <1>1, <2>2, <2>5
  <2> QED
    BY <2>6 DEF Matches, AllAllowed, AllOf, Credits
<1> QED
  BY <1>1, <1>2, <1>3, StepKnows

LEMMA ContinueKnows ==
  ASSUME Shape, Knowing, NEW l \in Lanes, Continue(l)
  PROVE  Knowing'
<1>1. Refused(l) \/ RequestLost(l) \/ AnswerLost(l) => Knowing'
  BY RefusedDoes, RequestLostDoes, AnswerLostDoes, FailedKnows
<1> QED
  BY <1>1, AnsweredKnows, ReadMeKnows, ReadListsKnows, ShowListsKnows, ShowCreditsKnows,
     ClearKnows, MarkKnows DEF Continue


\* What the tab shows of the database is as it was.
LEMMA MatchesStill ==
  ASSUME UNCHANGED <<db, token>>, tab'.me = tab.me, tab'.rows = tab.rows,
         tab'.credits = tab.credits
  PROVE  /\ Matches => Matches'
         /\ MatchesUnmarked => MatchesUnmarked'
<1>1. ASSUME Matches PROVE Matches'
  <2>1. /\ tab.me # NoOne /\ tab.me = token /\ tab.rows = Mapped(AllOf(db, tab.me))
        /\ tab.credits = IF tab.me \in Clients THEN db.balance[tab.me]
                         ELSE ComputedCredits(Mapped(AllOf(db, tab.me)))
    BY <1>1 DEF Matches, AllAllowed, AllOf, Credits
  <2>2. /\ tab'.me # NoOne /\ tab'.me = token' /\ tab'.rows = Mapped(AllOf(db', tab'.me))
        /\ tab'.credits = IF tab'.me \in Clients THEN db'.balance[tab'.me]
                          ELSE ComputedCredits(Mapped(AllOf(db', tab'.me)))
    BY <2>1
  <2> QED
    BY <2>2 DEF Matches, AllAllowed, AllOf, Credits
<1>2. ASSUME MatchesUnmarked PROVE MatchesUnmarked'
  <2>1. /\ tab.me # NoOne /\ tab.me = token /\ MarkedRows(tab.rows) = Mapped(AllOf(db, tab.me))
        /\ tab.credits = IF tab.me \in Clients THEN db.balance[tab.me]
                         ELSE ComputedCredits(Mapped(AllOf(db, tab.me)))
    BY <1>2 DEF MatchesUnmarked, MarkedRows, AllAllowed, AllOf, Credits
  <2>2. /\ tab'.me # NoOne /\ tab'.me = token' /\ MarkedRows(tab'.rows) = Mapped(AllOf(db', tab'.me))
        /\ tab'.credits = IF tab'.me \in Clients THEN db'.balance[tab'.me]
                          ELSE ComputedCredits(Mapped(AllOf(db', tab'.me)))
    BY <2>1
  <2> QED
    BY <2>2 DEF MatchesUnmarked, MarkedRows, AllAllowed, AllOf, Credits
<1> QED
  BY <1>1, <1>2

\* Nothing has happened but that the user looks at another page, or at none.
LEMMA StillKnows ==
  ASSUME Knowing, \A m \in Lanes : Same(flows[m], flows'[m]), UNCHANGED <<db, token, trusted>>,
         \/ /\ tab'.screen = tab.screen /\ tab'.me = tab.me /\ tab'.rows = tab.rows
            /\ tab'.credits = tab.credits
         \/ tab'.screen = "blank"
  PROVE  Knowing'
<1>1. ASSUME NEW m \in Lanes, flows'[m].plan # <<>>, flows'[m].alone
      PROVE  /\ ~Idle(m) /\ flows[m].alone /\ At(m)' = At(m)
             /\ flows'[m].as = flows[m].as /\ flows'[m].who = flows[m].who
             /\ flows'[m].for = flows[m].for /\ flows'[m].got = flows[m].got
  BY <1>1 DEF Same, Kept, Idle, At
<1>2. ASSUME NEW m \in Lanes, flows'[m].plan # <<>>, flows'[m].alone PROVE AloneKnows(m)'
  <2>1. AloneKnows(m)
    BY <1>1, <1>2, KnowingIs DEF Knowing
  <2>2. Others(m)'
    BY <2>1 DEF AloneKnows, Others, Same, Kept, Idle
  <2>3. ASSUME HasRead(m) PROVE HasRead(m)'
    <3>1. /\ flows[m].who = token /\ flows[m].for = token /\ token # NoOne
          /\ tab.screen # "blank" => tab.me = token
          /\ \A s \in Together \cup {"people"} : flows[m].got[s] = Allowed(db, token, s)
          /\ At(m) = "wallet" /\ tab.screen # "blank" => tab.rows = Mapped(AllOf(db, token))
      BY <2>3 DEF HasRead, AllAllowed, AllOf
    <3>2. \A s \in Together \cup {"people"} : flows'[m].got[s] = Allowed(db, token, s)'
      BY <1>1, <1>2, <3>1, AllowedNext
    <3>3. /\ flows'[m].who = token' /\ flows'[m].for = token' /\ token' # NoOne
          /\ tab'.screen # "blank" => tab'.me = token'
          /\ At(m)' = "wallet" /\ tab'.screen # "blank" => tab'.rows = Mapped(AllOf(db', token'))
      BY <1>1, <1>2, <3>1
    <3> QED
      BY <3>2, <3>3 DEF HasRead, AllAllowed, AllOf
  <2> QED
    BY <1>1, <1>2, <2>1, <2>2, <2>3 DEF AloneKnows
<1>3. ASSUME trusted', tab'.screen = "shown"
      PROVE  /\ Quiet' => Matches'
             /\ \A m \in Lanes : flows'[m].plan # <<>> /\ flows'[m].alone => MarksRight(m)'
  <2>1. /\ trusted /\ tab.screen = "shown" /\ tab'.me = tab.me /\ tab'.rows = tab.rows
        /\ tab'.credits = tab.credits
    BY <1>3
  <2>2. (Matches => Matches') /\ (MatchesUnmarked => MatchesUnmarked')
    BY <2>1, MatchesStill
  <2>3. Quiet' => Quiet
    BY DEF Quiet, Idle, Same, Kept
  <2>4. /\ Quiet => Matches
        /\ \A m \in Lanes : ~Idle(m) /\ flows[m].alone => MarksRight(m)
    BY <2>1, KnowingIs DEF Knowing
  <2> QED
    BY <1>1, <2>2, <2>3, <2>4 DEF MarksRight
<1> QED
  BY <1>2, <1>3, KnowingAfter

\* The flow that begins is alone if no other is under way.
LEMMA StartedKnows ==
  ASSUME Knowing, NEW l \in Lanes, Idle(l), NEW op, NEW plan, plan # <<>>, Started(l, op, plan),
         token' = token, Head(plan) \notin {"lists", "rest", "wallet", "mark"},
         trusted' /\ tab'.screen = "shown" /\ Quiet /\ Head(plan) = "read" => Matches'
  PROVE  Knowing'
<1>1. /\ flows'[l].plan = plan /\ flows'[l].as = token' /\ flows'[l].alone = Quiet
      /\ At(l)' = Head(plan)
      /\ \A m \in Lanes \ {l} : flows'[m].alone = FALSE /\ (Idle(m) => flows'[m].plan = <<>>)
  BY DEF Started, Disturbed, At, Idle
<1>2. ASSUME Quiet PROVE AloneKnows(l)'
  <2>1. Others(l)'
    BY <1>1, <1>2 DEF Quiet, Others, Idle
  <2> QED
    BY <1>1, <2>1 DEF AloneKnows
<1>3. ASSUME trusted', tab'.screen = "shown", Quiet PROVE MarksRight(l)'
  BY <1>1, <1>3 DEF MarksRight
<1>4. ~Quiet'
  BY <1>1 DEF Quiet, Idle
<1> QED
  BY <1>1, <1>2, <1>3, <1>4, KnowingAfter

LEMMA NextKnows ==
  ASSUME Shape, Knowing, [Next]_vars
  PROVE  Knowing'
<1>1. CASE Moved
  <2>1. /\ \A m \in Lanes : Same(flows[m], flows'[m])
        /\ tab.screen = "shown"
        /\ tab'.screen = "shown" /\ tab'.me = tab.me /\ tab'.rows = tab.rows
        /\ tab'.credits = tab.credits /\ UNCHANGED <<db, token, trusted>>
    BY <1>1, MovedDoes DEF Moved
  <2> QED
    BY <2>1, StillKnows
<1>2. CASE Crashed \/ UNCHANGED vars
  <2>1. UNCHANGED <<db, token, flows, trusted>> /\ (tab'.screen = "blank" \/ tab' = tab)
    BY <1>2, CrashedDoes DEF vars
  <2>2. \A m \in Lanes : Same(flows[m], flows'[m])
    BY <2>1 DEF Same, Kept
  <2> QED
    BY <2>1, <2>2, StillKnows
<1>3. ASSUME NEW l \in Lanes, Pressed(l) PROVE Knowing'
  <2>1. /\ Idle(l) /\ tab.screen = "shown"
        /\ tab'.me = tab.me /\ tab'.rows = tab.rows /\ tab'.credits = tab.credits
        /\ UNCHANGED <<db, token, trusted>>
    BY <1>3, PressedDoes
  <2>2. PICK op, plan :
          /\ plan # <<>> /\ Head(plan) \in (Calls \ SignIns) \cup {"clear"}
          /\ Started(l, op, plan)
    BY <1>3, PressedDoes
  <2>3. Head(plan) \notin {"lists", "rest", "wallet", "mark"}
    BY <2>2 DEF Calls
  <2>4. trusted' /\ Quiet => Matches'
    BY <2>1, MatchesStill, KnowingIs DEF Knowing
  <2> QED
    BY <2>1, <2>2, <2>3, <2>4, StartedKnows
<1>4. ASSUME NEW l \in Lanes, SignedIn(l) PROVE Knowing'
  <2>1. Idle(l) /\ token' = token
    BY <1>4, SignedInDoes
  <2>2. PICK plan : plan # <<>> /\ Head(plan) \in SignIns /\ Started(l, "", plan)
    BY <1>4, SignedInDoes
  <2>3. Head(plan) \notin {"lists", "rest", "wallet", "mark", "read"}
    BY <2>2 DEF SignIns
  <2> QED
    BY <2>1, <2>2, <2>3, StartedKnows
<1>5. ASSUME NEW l \in Lanes, Reload(l) PROVE Knowing'
  <2>1. /\ Quiet /\ trusted' = FALSE /\ token' = token
        /\ \/ flows' = flows
           \/ \E plan : plan # <<>> /\ Head(plan) = "me" /\ Started(l, "boot", plan)
    BY <1>5, ReloadDoes
  <2>2. CASE flows' = flows
    BY <2>1, <2>2, KnowingAfter DEF Quiet, Idle
  <2>3. CASE \E plan : plan # <<>> /\ Head(plan) = "me" /\ Started(l, "boot", plan)
    <3>1. PICK plan : plan # <<>> /\ Head(plan) = "me" /\ Started(l, "boot", plan)
      BY <2>3
    <3>2. Idle(l)
      BY <2>1 DEF Quiet
    <3> QED
      BY <2>1, <3>1, <3>2, StartedKnows
  <2> QED
    BY <2>1, <2>2, <2>3
<1>6. CASE Elsewhere
  <2>1. (\A m \in Lanes : Disturbed(flows[m], flows'[m])) /\ trusted' = FALSE
    BY <1>6, ElsewhereDoes
  <2> QED
    BY <2>1, KnowingAfter DEF Disturbed
<1>7. ASSUME NEW l \in Lanes, AppRoutes(l) PROVE Knowing'
  BY <1>1, <1>2, <1>3, <1>4, <1>7, PagesMove
<1> QED
  BY <1>2, <1>5, <1>6, <1>7, ContinueKnows DEF Next

LEMMA InitKnows == Init => Knowing
<1> SUFFICES ASSUME Init PROVE Knowing
  OBVIOUS
<1>1. ~trusted /\ \A l \in Lanes : Idle(l)
  BY NoFlowIsFlow DEF Init, Idle
<1> QED
  BY <1>1, KnowingIs DEF Knowing

\* After an operation that had the tab to itself, whatever page the user has moved to,
\* every list and the balance on the screen are what the database holds: no operation
\* leaves behind a list that it has changed (store.tsx:179, store.tsx:628); for any
\* number of users, of operations under way and of calls from other browsers.
THEOREM ShownIsStored == Spec => []ShowsTheDatabase
<1>1. Init => Sound /\ Knowing
  BY InitSound, InitKnows
<1>2. (Sound /\ Knowing) /\ [Next]_vars => (Sound /\ Knowing)'
  BY NextSound, NextKnows DEF Sound
<1>3. Knowing => ShowsTheDatabase
  BY DEF Knowing, Faithful, Matches, AllAllowed, ShowsTheDatabase
<1> QED
  BY <1>1, <1>2, <1>3, PTL DEF Spec

===============================================================================
