---------------------------- MODULE ClientStore -----------------------------
(***************************************************************************)
(* The browser application's state: AppProvider of store.tsx and the       *)
(* mappers of api/mappers.ts.  One tab, against the database it works on.  *)
(* What store.tsx awaits is a flow: it occupies a lane, and its plan lists *)
(* what it has still to do, a call or a change of the state at a time; the *)
(* other lanes, the user and other browsers move between two of them.  The *)
(* pages that start flows are in module Pages.                             *)
(***************************************************************************)
EXTENDS Naturals, Sequences, FiniteSets

CONSTANTS
  Clients,       \* users of role CLIENT
  Admins,        \* users of role ADMIN
  Newcomer,      \* a client whom an administrator may register
  NoOne,
  Lanes,         \* bound: flows under way together
  MonthlyHours,  \* of every contract
  MaxLogins,     \* bound: logins and registrations
  MaxPresses,    \* bound: presses of buttons that write
  MaxFaults,     \* bound: calls whose request or answer is lost
  MaxEvents,     \* bound: all of these together
  MaxElsewhere,  \* bound: calls made from other browsers
  OtherCalls     \* bound: the calls those make

Users == Clients \cup Admins

ASSUME ClientStoreAssumption ==
  /\ Clients \cap Admins = {}
  /\ NoOne \notin Users \cup {Newcomer} /\ Newcomer \notin Users
  /\ IsFiniteSet(Lanes)
  /\ {MonthlyHours, MaxLogins, MaxPresses, MaxEvents, MaxFaults, MaxElsewhere} \subseteq Nat

VARIABLES
  db,         \* the database: rows of each list, balance of each client, admins signed up
  token,      \* the user whose tokens are stored, or NoOne
  tab,        \* what the tab shows
  flows,      \* flows[l]: the flow of lane l
  budget,     \* logins, presses, faults and changes from elsewhere so far
  trusted,    \* ghost: the last thing that touched the lists read all of them, alone
  mixed,      \* ghost: a logout ended, or a sign-in began, while another flow was under way
  saves       \* ghost: times a form at rest asked for a new room, with tokens that may

vars == <<db, token, tab, flows, budget, trusted, mixed, saves>>

-----------------------------------------------------------------------------
(* Rows, and what they are mapped to *)

\* The lists of GET /rooms, /reservations, ...; "people" is GET /users?role=CLIENT.
Lists == {"rooms", "availabilities", "reservations", "contracts", "invoices", "payments",
          "notifications", "people"}

\* A row is one thing a page shows of a list: a room, its details, a photo of it, ...;
\* copy numbers those that differ in nothing else.
Row(what, copy, owner, status) ==
  [what |-> what, copy |-> copy, owner |-> owner, status |-> status]

\* The state of the store; "payments" merges invoices and payments.
Shown == (Lists \ {"invoices", "people"}) \cup {"clients"}

mapRole(u) == IF u \in Admins THEN "admin" ELSE "client"

reservationStatus(s) ==
  CASE s = "PENDING" -> "solicitado"    [] s = "CONFIRMED" -> "confirmado"
    [] s = "COMPLETED" -> "concluido"   [] s \in {"CANCELLED", "REJECTED"} -> "cancelado"
    [] s = "NO_SHOW" -> "nao_compareceu"

contractStatus(s) ==
  CASE s = "ACTIVE" -> "ativo"     [] s = "EXPIRING_SOON" -> "vence_em_breve"
    [] s = "EXPIRED" -> "vencido"  [] s = "RENEWAL" -> "renovacao"

invoiceStatus(s) ==
  CASE s = "PENDING" -> "pendente"  [] s = "PAID" -> "pago"         [] s = "OVERDUE" -> "vencido"
    [] s = "UNDER_REVIEW" -> "em_analise"  [] s = "CANCELLED" -> "recusado"

\* p: the status of the invoice's payment, "none" if it has none.
mergeInvoicePayment(i, p) ==
  IF p = "UNDER_REVIEW" THEN "em_analise"
  ELSE IF p = "REJECTED" /\ i # "PAID" THEN "recusado"
  ELSE IF p = "APPROVED" \/ i = "PAID" THEN "pago"
  ELSE invoiceStatus(i)

mapRoom(s) == IF s = "MAINTENANCE" THEN "blocked" ELSE s

mapNotification(s) == IF s = "read" THEN "read" ELSE "unread"

\* The state made of lists that were read.
Mapped(lists) ==
  LET Each(s, map(_)) == {[r EXCEPT !.status = map(r.status)] : r \in lists[s]}
      PaymentOf(i) == LET mine == {p \in lists["payments"] : p.what = i.what /\ p.copy = i.copy}
                      IN IF mine = {} THEN "none" ELSE (CHOOSE p \in mine : TRUE).status
  IN [rooms |-> Each("rooms", mapRoom),
      availabilities |-> {a \in lists["availabilities"] : a.status # "inactive"},
      reservations |-> Each("reservations", reservationStatus),
      contracts |-> Each("contracts", contractStatus),
      payments |-> {[i EXCEPT !.status = mergeInvoicePayment(i.status, PaymentOf(i))] :
                      i \in lists["invoices"]},
      notifications |-> Each("notifications", mapNotification),
      clients |-> lists["people"]]

Held(reservations) == {r \in reservations : r.status # "cancelado"}

\* The credits shown when there is no wallet to ask.
ComputedCredits(shown) ==
  LET used == Cardinality(Held(shown.reservations))
      contracted == IF shown.contracts = {} THEN 0 ELSE MonthlyHours
  IN IF contracted > used THEN contracted - used ELSE 0

-----------------------------------------------------------------------------
(* The server *)

\* The rows of list s that u is sent.
Allowed(d, u, s) ==
  CASE s \in {"rooms", "availabilities"} -> d.rows[s]
    [] s = "notifications" -> {r \in d.rows[s] : r.owner = u}
    [] OTHER -> {r \in d.rows[s] : u \in Admins \/ r.owner = u}

\* credits/me; an administrator has no wallet.
Credits(u, shown) == IF u \in Clients THEN db.balance[u] ELSE ComputedCredits(shown)

Named(d, s, what) == {r \in d.rows[s] : r.what = what}

Insert(d, s, what, owner, status) ==
  [d EXCEPT !.rows[s] =
     @ \cup {Row(what, Cardinality(Named(d, s, what)) + 1, owner, status)}]

Patch(d, s, rows, status) ==
  [d EXCEPT !.rows[s] = (@ \ rows) \cup {[r EXCEPT !.status = status] : r \in rows}]

Notify(d, u) ==
  IF u \in Clients
  THEN [d EXCEPT !.rows["notifications"] = {r \in @ : r.owner # u} \cup {Row("news", 1, u, "unread")}]
  ELSE d

Live(d) == {r \in d.rows["reservations"] : r.status \in {"PENDING", "CONFIRMED"}}

Reserve(d, u) ==
  IF /\ u \in Clients /\ d.balance[u] > 0
     /\ \E c \in d.rows["contracts"] : c.owner = u /\ c.status # "EXPIRED"
     /\ Row("room", 1, NoOne, "AVAILABLE") \in d.rows["rooms"]
     /\ Live(d) = {}
  THEN {Notify(Insert([d EXCEPT !.balance[u] = @ - 1], "reservations", "hour", u, "CONFIRMED"), u)}
  ELSE {}

\* A late cancellation may not be refunded.
Cancel(d, u) ==
  LET mine == {r \in Live(d) : r.owner = u}
      cancelled == Notify(Patch(d, "reservations", mine, "CANCELLED"), u)
  IN IF mine = {} THEN {} ELSE {cancelled, [cancelled EXCEPT !.balance[u] = @ + 1]}

Approve(d) ==
  IF \E p \in d.rows["payments"] : p.status = "UNDER_REVIEW"
  THEN LET approved == Patch(d, "payments", d.rows["payments"], "APPROVED")
       IN {Notify(Patch(approved, "invoices", d.rows["invoices"], "PAID"), o) :
             o \in {p.owner : p \in d.rows["payments"]}}
  ELSE {}

\* What a call with the stored tokens of u can make of database d; none: it is refused.
Outcomes(call, arg, u, d) ==
  LET asAdmin(outcomes) == IF u \in Admins THEN outcomes ELSE {}
      whoever(outcomes) == IF u \in Users THEN outcomes ELSE {}
  IN CASE call = "login" -> IF arg \in Clients \cup d.admins THEN {d} ELSE {}
       [] call = "register" -> IF arg \in d.admins THEN {} ELSE {[d EXCEPT !.admins = @ \cup {arg}]}
       [] call = "logout" -> whoever({d})
       [] call = "reserve" -> whoever(Reserve(d, u))
       [] call = "cancel" -> whoever(Cancel(d, u))
       [] call = "read" -> whoever({Patch(d, "notifications", Allowed(d, u, "notifications"), "read")})
       [] call = "patchMe" ->
            whoever({Patch(d, "people", {r \in Named(d, "people", "name") : r.owner = u}, "new")})
       [] call = "putProfile" ->
            whoever({Patch(d, "people", {r \in Named(d, "people", "profession") : r.owner = u}, "new")})
       [] call = "approve" -> asAdmin(Approve(d))
       [] call = "patchContract" -> asAdmin({Patch(d, "contracts", Named(d, "contracts", "first"), arg)})
       [] call = "patchRoom" -> asAdmin({Patch(d, "rooms", Named(d, "rooms", "room"), arg)})
       [] call = "editRoom" -> asAdmin({Patch(d, "rooms", Named(d, "rooms", "details"), "new")})
       [] call = "createRoom" -> asAdmin({Insert(d, "rooms", "added", NoOne, "AVAILABLE")})
       [] call = "addPhotos" -> asAdmin({Insert(d, "rooms", "photo", NoOne, "AVAILABLE")})
       [] call = "deletePhoto" ->
            asAdmin(IF Named(d, "rooms", "photo") = {} THEN {}
                    ELSE {[d EXCEPT !.rows["rooms"] = @ \ {p}] : p \in Named(d, "rooms", "photo")})
       [] call = "createUser" ->
            asAdmin(IF \E r \in d.rows["people"] : r.owner = arg THEN {}
                    ELSE {Insert(d, "people", "name", arg, "old")})
       [] call = "createContract" ->
            asAdmin({Notify(Insert([d EXCEPT !.balance[arg] = @ + MonthlyHours],
                                   "contracts", "further", arg, "ACTIVE"), arg)})

-----------------------------------------------------------------------------
(* Flows *)

Hydrate == <<"me", "lists", "rest", "wallet">>

Calls == {"login", "register", "logout", "reserve", "cancel", "read", "patchMe", "putProfile",
          "approve", "patchContract", "patchRoom", "editRoom", "createRoom", "addPhotos",
          "deletePhoto", "createUser", "createContract"}

\* Other browsers make calls that need no argument, or the status of a room.
ASSUME OtherCallsAssumption ==
  OtherCalls \subseteq Calls \ {"login", "register", "createUser", "createContract", "patchContract"}

NoLists == [s \in Lists |-> {}]

\* as: whose tokens the call under way carries; who: the profile that hydrate read;
\* for: whose tokens read the lists; alone: nothing else has touched the tab or the
\* database and no read of the flow has failed; form: the form disabled until it ends.
Flow(op, arg, form, plan, alone) ==
  [op |-> op, arg |-> arg, form |-> form, plan |-> plan, as |-> token, who |-> NoOne,
   for |-> NoOne, got |-> NoLists, alone |-> alone]

NoFlow == [Flow("", "", "", <<>>, FALSE) EXCEPT !.as = NoOne]

Idle(l) == flows[l].plan = <<>>

Quiet == \A l \in Lanes : Idle(l)

Doing(l, steps) == ~Idle(l) /\ Head(flows[l].plan) \in steps

\* The flow of l goes on to its next step, for which it uses the tokens of u.
Proceed(l, f, u) ==
  [flows EXCEPT ![l] = IF Len(f.plan) = 1 THEN NoFlow
                       ELSE [f EXCEPT !.plan = Tail(@), !.as = u]]

\* The six lists that hydrate asks for together.
Together == {"rooms", "reservations", "contracts", "invoices", "payments", "notifications"}

\* When the database becomes d, each read under way either came before or will come after.
Overtaken(d, fl) ==
  LET Reading == {l \in Lanes : fl[l].plan # <<>> /\ Head(fl[l].plan) = "lists"}
      changed == {s \in Together : d.rows[s] # db.rows[s]}
  IN {[l \in Lanes |->
         [fl[l] EXCEPT !.got = [s \in Lists |-> IF <<l, s>> \in later THEN Allowed(d, fl[l].as, s)
                                                ELSE @[s]]]] :
        later \in SUBSET (Reading \X changed)}

\* The state becomes t and the tab is drawn again; a tab gone blank stays blank.
\* A form that leaves the screen takes its disabled button along.
Render(t, fl) ==
  LET gone == t.page # tab.page \/ t.me # tab.me \/ t.guest # tab.guest
  IN IF tab.screen = "blank" THEN tab' = tab /\ flows' = fl
     ELSE /\ tab' = t
          /\ flows' = IF gone THEN [l \in Lanes |-> [fl[l] EXCEPT !.form = ""]] ELSE fl

Fresh(screen) ==
  [screen |-> screen, me |-> NoOne, page |-> "dashboard", guest |-> "login",
   rows |-> [s \in Shown |-> {}], listsFor |-> NoOne, credits |-> 0, creditsFor |-> NoOne]

\* A flow begins; what is under way is no longer alone.
Begun(l, op, arg, form, plan) ==
  [k \in Lanes |-> IF k = l THEN Flow(op, arg, form, plan, Quiet)
                   ELSE [flows[k] EXCEPT !.alone = FALSE]]

Begin(l, op, arg, form, plan) == Idle(l) /\ flows' = Begun(l, op, arg, form, plan)

Spent == budget.logins + budget.presses + budget.faults + budget.elsewhere

Spend(what, most) ==
  /\ budget[what] < most /\ Spent < MaxEvents
  /\ budget' = [budget EXCEPT ![what] = @ + 1]

Fault == Spend("faults", MaxFaults)

-----------------------------------------------------------------------------
(* Calls *)

\* The server has done what the call asks, and the answer arrives.
Answered(l) ==
  LET f == flows[l]
      call == Head(f.plan)
      u == IF call \in {"login", "register"} THEN f.arg ELSE token
  IN /\ Doing(l, Calls)
     /\ \E d \in Outcomes(call, f.arg, f.as, db) :
          /\ db' = d
          /\ flows' \in Overtaken(d, Proceed(l, [f EXCEPT !.arg = ""], u))
     /\ token' = u
     /\ trusted' = (trusted /\ f.alone)
     /\ UNCHANGED <<tab, budget, mixed, saves>>

\* A step of the flow throws.  logout and markRead go on all the same; boot gives the
\* session up; any other flow ends, with a message.
Throw(l, fl) ==
  LET f == flows[l]
      carriesOn == f.op \in {"logout", "markRead"} /\ Doing(l, Calls)
  IN /\ CASE carriesOn -> tab' = tab /\ flows' = [fl EXCEPT ![l] = Proceed(l, f, token)[l]]
           [] f.op = "boot" -> Render([tab EXCEPT !.screen = "shown", !.me = NoOne],
                                      [fl EXCEPT ![l] = NoFlow])
           [] OTHER -> tab' = tab /\ flows' = [fl EXCEPT ![l] = NoFlow]
     /\ token' = IF f.op = "boot" THEN NoOne ELSE token
     /\ trusted' = FALSE
     /\ UNCHANGED <<mixed, saves>>

\* The server refuses the call: a rule of its own, or nobody is signed in.
Refused(l) ==
  LET f == flows[l]
  IN /\ \/ Doing(l, Calls) /\ Outcomes(Head(f.plan), f.arg, f.as, db) = {}
        \/ Doing(l, {"me", "lists"}) /\ f.as = NoOne
     /\ Throw(l, flows)
     /\ UNCHANGED <<db, budget>>

\* The request of a call, or one the hydration needs, is lost.
RequestLost(l) ==
  /\ Doing(l, Calls \cup {"me", "lists"})
  /\ Fault
  /\ Throw(l, flows)
  /\ UNCHANGED db

\* The server has done what the call asks, and the answer is lost.
AnswerLost(l) ==
  LET f == flows[l]
  IN /\ Doing(l, Calls)
     /\ Fault
     /\ \E d \in Outcomes(Head(f.plan), f.arg, f.as, db) :
          /\ db' = d
          /\ \E fl \in Overtaken(d, flows) : Throw(l, fl)

-----------------------------------------------------------------------------
(* hydrate *)

\* A read whose failure counts as an empty list: by a fault, or refused to u.
Optional(refused, missing) ==
  /\ missing \in BOOLEAN /\ (refused => missing)
  /\ IF missing /\ ~refused THEN Fault ELSE UNCHANGED budget

\* GET /users/me; then the six lists are asked for.
ReadMe(l) ==
  LET f == flows[l]
      lists == [s \in Lists |-> IF s = "people" THEN Allowed(db, f.as, s)
                                ELSE IF s \in Together THEN Allowed(db, token, s) ELSE {}]
  IN /\ Doing(l, {"me"}) /\ f.as # NoOne
     /\ Render([tab EXCEPT !.me = f.as],
               Proceed(l, [f EXCEPT !.who = f.as, !.for = token, !.got = lists], token))
     /\ UNCHANGED <<db, token, budget, trusted, mixed, saves>>

\* Invoices, payments and notifications may fail (bound: all of them or none).
ReadLists(l) ==
  LET f == flows[l]
  IN /\ Doing(l, {"lists"}) /\ f.as # NoOne
     /\ \E lost \in {{}, {"invoices", "payments", "notifications"}} :
          /\ Optional(FALSE, lost # {})
          /\ flows' = Proceed(l, [f EXCEPT !.alone = @ /\ lost = {},
                                           !.got = [s \in Lists |-> IF s \in lost THEN {} ELSE @[s]]],
                              token)
     /\ UNCHANGED <<db, token, tab, trusted, mixed, saves>>

\* The availabilities of every room and, for an administrator, the clients are read (a
\* client's clients are the profile); then all is shown.
ShowLists(l) ==
  LET f == flows[l]
      refused == IF f.who \in Admins THEN f.as \notin Admins ELSE f.as = NoOne
  IN /\ Doing(l, {"rest"})
     /\ \E missing \in BOOLEAN :
          LET lists == [f.got EXCEPT
                !["availabilities"] = IF missing THEN {} ELSE db.rows["availabilities"],
                !["people"] = IF f.who \notin Admins THEN @
                              ELSE IF missing THEN {} ELSE Allowed(db, f.as, "people")]
          IN /\ Optional(refused, missing)
             /\ Render([tab EXCEPT !.rows = Mapped(lists), !.listsFor = f.for],
                       Proceed(l, [f EXCEPT !.alone = @ /\ ~missing], token))
     /\ UNCHANGED <<db, token, trusted, mixed, saves>>

\* What a flow does to the tab once its last hydration has ended: setPage, setBooting.
Closings == {"dashboard", "rooms", "client", "open"}

Closing(step) ==
  IF step = "open" THEN [tab EXCEPT !.screen = "shown"]
  ELSE IF step \in Closings THEN [tab EXCEPT !.page = step]
  ELSE tab

\* The credits are read and shown; what follows hydrate without another call follows at once.
ShowCredits(l) ==
  LET f == flows[l]
      next == IF Len(f.plan) > 1 THEN f.plan[2] ELSE ""
      rest == IF next \in Closings THEN [f EXCEPT !.plan = Tail(@)] ELSE f
  IN /\ Doing(l, {"wallet"})
     /\ \E missing \in BOOLEAN :
          LET asked == ~missing /\ f.as \in Clients
          IN /\ Optional(f.as = NoOne, missing)
             /\ Render([Closing(next) EXCEPT
                         !.credits = IF asked THEN db.balance[f.as] ELSE ComputedCredits(Mapped(f.got)),
                         !.creditsFor = IF asked THEN f.as ELSE f.for],
                       Proceed(l, [rest EXCEPT !.got = NoLists], token))
             /\ trusted' = (f.alone /\ ~missing)
     /\ UNCHANGED <<db, token, mixed, saves>>

-----------------------------------------------------------------------------
(* Steps that only change the state *)

\* Slip: the reservations stay.
ForgetMost(t) ==
  [Fresh(t.screen) EXCEPT !.page = t.page, !.guest = t.guest,
                          !.rows.availabilities = t.rows.availabilities,
                          !.rows.reservations = t.rows.reservations]

\* logout: the pages and the availabilities stay.
Forget(t) ==
  [Fresh(t.screen) EXCEPT !.page = t.page, !.guest = t.guest,
                          !.rows.availabilities = t.rows.availabilities]

Clear(l) ==
  /\ Doing(l, {"clear"})
  /\ token' = NoOne
  /\ Render(Forget(tab), Proceed(l, flows[l], NoOne))
  /\ mixed' = (mixed \/ \E k \in Lanes \ {l} : ~Idle(k))
  /\ trusted' = FALSE
  /\ UNCHANGED <<db, budget, saves>>

Mark(l) ==
  /\ Doing(l, {"mark"})
  /\ Render([tab EXCEPT !.rows.notifications = {[n EXCEPT !.status = "read"] : n \in @}],
            Proceed(l, flows[l], token))
  /\ trusted' = (trusted /\ flows[l].alone)
  /\ UNCHANGED <<db, token, budget, mixed, saves>>

Navigate(page) == Render([tab EXCEPT !.page = page], flows)

\* The tab is loaded again while no flow is under way, and boots with what is stored.
Reload(l) ==
  /\ Quiet
  /\ tab' = Fresh(IF token = NoOne THEN "shown" ELSE "booting")
  /\ IF token = NoOne THEN UNCHANGED flows ELSE Begin(l, "boot", "", "", Hydrate \o <<"open">>)
  /\ trusted' = FALSE
  /\ UNCHANGED <<db, token, budget, mixed, saves>>

\* A call from another browser (bound: in the first session of the tab).
Elsewhere ==
  /\ budget.logins = 1 /\ tab.me # NoOne
  /\ Spend("elsewhere", MaxElsewhere)
  /\ \E u \in Clients \cup db.admins, call \in OtherCalls : \E arg \in {"AVAILABLE", "MAINTENANCE"} :
       /\ db' \in Outcomes(call, arg, u, db) \ {db}
  /\ \E fl \in Overtaken(db', flows) :
       flows' = [l \in Lanes |-> [fl[l] EXCEPT !.alone = FALSE]]
  /\ trusted' = FALSE
  /\ UNCHANGED <<token, tab, mixed, saves>>

Continue(l) ==
  \/ Answered(l) \/ Refused(l) \/ RequestLost(l) \/ AnswerLost(l)
  \/ ReadMe(l) \/ ReadLists(l) \/ ShowLists(l) \/ ShowCredits(l) \/ Clear(l) \/ Mark(l)

=============================================================================
