------------------------------- MODULE Pages --------------------------------
(***************************************************************************)
(* What the user can do on each page: App.tsx, components/layout.tsx,      *)
(* components/modals.tsx and pages/.  An operator per component, with the  *)
(* component's name and the lane l on which it starts a flow; a modal is   *)
(* the actions that its buttons add to the page that opens it.             *)
(***************************************************************************)
EXTENDS ClientStore

Role == IF tab.me = NoOne THEN "guest" ELSE mapRole(tab.me)

Mine(rows) == {r \in rows : r.owner = tab.me}

-----------------------------------------------------------------------------
(* Presses *)

\* A button that only moves to another page (bound: while there are presses to come).
Link(pages) ==
  \E page \in pages \ {tab.page} :
    /\ budget.presses < MaxPresses /\ Spent < MaxEvents
    /\ \E l \in Lanes : Idle(l)
    /\ Navigate(page)
    /\ UNCHANGED <<db, token, budget, trusted, mixed, saves>>

\* A button that starts a flow; nothing disables it while one is under way.  The flow is
\* told by op where the way it fails depends on it.
Press(l, op, arg, form, plan) ==
  /\ Begin(l, op, arg, form, plan)
  /\ Spend("presses", MaxPresses)
  /\ UNCHANGED <<db, token, tab, trusted, mixed>>

\* Slip: the lists are not read again.
OperationUnread(l, call, arg) == Press(l, "", arg, "", <<call>>) /\ UNCHANGED saves

Operation(l, call, arg) == Press(l, "", arg, "", <<call>> \o Hydrate) /\ UNCHANGED saves

\* The button of a form at work is disabled.
Working(form) == \E l \in Lanes : flows[l].form = form

\* Slip: the button stays enabled.
SubmitAgain(l, form, arg, plan) == Press(l, "", arg, form, plan)

Submit(l, form, arg, plan) == ~Working(form) /\ Press(l, "", arg, form, plan)

-----------------------------------------------------------------------------
(* Modals *)

\* getDaySlots, for the one hour of the one room: taken, blocked, shut or free.
SlotStatus ==
  LET here == Held(tab.rows.reservations)
      room == {r \in tab.rows.rooms : r.what = "room"}
      open == tab.rows.availabilities
  IN IF here # {} THEN "taken"
     ELSE IF \E r \in room : r.status = "blocked" THEN "indisponivel"
     ELSE IF open # {} /\ ~\E a \in open : a.status = "active" THEN "indisponivel"
     ELSE "disponivel"

ReserveModal(l) ==
  /\ SlotStatus = "disponivel"
  /\ tab.rows.rooms # {}
  /\ tab.credits > 0
  /\ Operation(l, "reserve", "")

RoomModal(l) == tab.rows.rooms # {} /\ ReserveModal(l)

\* Only a reservation shown as ahead has the button.
ReservationDetailsModal(l) ==
  /\ \E r \in Mine(tab.rows.reservations) : r.status \in {"solicitado", "confirmado"}
  /\ Operation(l, "cancel", "")

\* The modal names an icon it does not import: drawing it throws, and React takes the
\* whole application down.
Crash == /\ tab' = [Fresh("blank") EXCEPT !.page = tab.page]
         /\ UNCHANGED <<db, token, flows, budget, trusted, mixed, saves>>

ReceiptModal == (\E p \in Mine(tab.rows.payments) : p.status # "pago") /\ Crash

RejectModal == (\E p \in tab.rows.payments : p.status = "em_analise") /\ Crash

-----------------------------------------------------------------------------
(* The pages of a client *)

ClientDashboard(l) == Link({"contracts", "agenda", "financial"}) \/ ReservationDetailsModal(l)

\* The button does not know of a save under way.
Profile(l) ==
  /\ tab.rows.clients # {}
  /\ Press(l, "", "", "", <<"patchMe", "putProfile">> \o Hydrate)
  /\ UNCHANGED saves

Agenda(l) == ReserveModal(l) \/ RoomModal(l)

ClientContracts == Link({"financial"})

Credit == Link({"financial"})

ClientFinancial == ReceiptModal

History(l) == ReservationDetailsModal(l)

-----------------------------------------------------------------------------
(* The pages of an administrator *)

AdminDashboard == Link({"financial", "schedule", "contracts", "clients"} \cup
                       (IF tab.rows.clients = {} THEN {} ELSE {"client"}))

\* The status sent is the opposite of the one shown.
Rooms(l) ==
  \/ Link({"new-room", "schedule"} \cup (IF tab.rows.rooms = {} THEN {} ELSE {"edit-room"}))
  \/ \E r \in tab.rows.rooms :
       /\ r.what = "room"
       /\ Operation(l, "patchRoom", IF r.status = "blocked" THEN "AVAILABLE" ELSE "MAINTENANCE")
  \/ RoomModal(l)

WithPhotos == {<<>>, <<"addPhotos">> \o Hydrate}

\* The ghost counts the saves of a form that is not at work already; after two sign-ins
\* at once the page may be an administrator's and the tokens a client's.
NewRoom(l) ==
  \/ Link({"rooms"})
  \/ /\ \E photos \in WithPhotos :
          Submit(l, "new-room", "", <<"createRoom">> \o Hydrate \o photos \o <<"rooms">>)
     /\ saves' = IF Working("new-room") \/ token \notin Admins THEN saves ELSE saves + 1

EditRoom(l) ==
  \/ Link({"rooms"})
  \/ /\ tab.rows.rooms # {}
     /\ \/ \E photos \in WithPhotos :
             Submit(l, "edit-room", "", <<"editRoom">> \o Hydrate \o photos \o <<"rooms">>)
        \/ Press(l, "", "", "", <<"addPhotos">> \o Hydrate)
        \/ /\ \E p \in tab.rows.rooms : p.what = "photo"
           /\ Press(l, "", "", "", <<"deletePhoto">> \o Hydrate)
     /\ UNCHANGED saves

AgendaGeral(l) == RoomModal(l)

ClientList == Link({"new-client"} \cup (IF tab.rows.clients = {} THEN {} ELSE {"client"}))

ClientDetail == Link({"clients"})

NewClient(l) ==
  \/ Link({"clients"})
  \/ /\ Submit(l, "new-client", Newcomer, <<"createUser">> \o Hydrate \o <<"client">>)
     /\ UNCHANGED saves

AdminContracts(l) ==
  \/ \E c \in tab.rows.contracts :
       /\ c.what = "first"
       /\ Operation(l, "patchContract", IF c.status = "ativo" THEN "EXPIRED" ELSE "ACTIVE")
  \/ \E c \in tab.rows.clients : c.owner \in Clients /\ Operation(l, "createContract", c.owner)

AdminFinancial(l) ==
  \/ /\ \E p \in tab.rows.payments : p.status = "em_analise"
     /\ Operation(l, "approve", "")
  \/ RejectModal

-----------------------------------------------------------------------------
(* What every page has around it *)

Marks == <<"read", "mark">>

MarkAllRead(l) == Press(l, "", "", "", Marks) /\ UNCHANGED saves

\* markRead marks on the screen whether the call succeeds or not.
Notifications(l) ==
  \/ MarkAllRead(l)
  \/ /\ \E n \in tab.rows.notifications : n.status = "unread"
     /\ Press(l, "markRead", "", "", Marks)
     /\ UNCHANGED saves

\* A notification of the panel is marked and leads to the page.
NotificationPanel(l) ==
  \/ MarkAllRead(l)
  \/ /\ tab.rows.notifications # {}
     /\ Idle(l)
     /\ Spend("presses", MaxPresses)
     /\ Render([tab EXCEPT !.page = "notifications"], Begun(l, "markRead", "", "", Marks))
     /\ UNCHANGED <<db, token, trusted, mixed, saves>>
  \/ Link({"notifications"})

\* Without a token there is no call.
Logout(l) ==
  /\ Begin(l, "logout", "", "", IF token = NoOne THEN <<"clear">> ELSE <<"logout", "clear">>)
  /\ UNCHANGED <<db, token, tab, budget, trusted, mixed, saves>>

AccountMenu(l) ==
  Link({"settings"} \cup (IF Role = "client" THEN {"profile"} ELSE {})) \/ Logout(l)

NavList ==
  Link(IF Role = "client"
       THEN {"dashboard", "profile", "agenda", "credits", "contracts", "financial", "history",
             "settings"}
       ELSE {"dashboard", "rooms", "schedule", "clients", "contracts", "financial", "reports",
             "settings"})

Shell(l) == NavList \/ NotificationPanel(l) \/ AccountMenu(l)

-----------------------------------------------------------------------------
(* Signing in *)

\* "Cadastre-se" and "Voltar ao login", which nothing disables, draw the other page of
\* guests, with a form at rest (bounds: while there are sign-ins to come; what is pressed
\* under way counts as a press).
Swap(page) ==
  /\ budget.logins < MaxLogins /\ Spent < MaxEvents
  /\ \E l \in Lanes : Idle(l)
  /\ IF Quiet THEN UNCHANGED budget ELSE Spend("presses", MaxPresses)
  /\ Render([tab EXCEPT !.guest = page], flows)
  /\ UNCHANGED <<db, token, trusted, mixed, saves>>

\* The form on the screen is disabled while it waits, whatever else is under way.
SignIn(l, op, users) ==
  /\ ~Working("guest")
  /\ \E u \in users : Begin(l, "", u, "guest", <<op>> \o Hydrate \o <<"dashboard">>)
  /\ Spend("logins", MaxLogins)
  /\ mixed' = (mixed \/ ~Quiet)
  /\ UNCHANGED <<db, token, tab, trusted, saves>>

Login(l) == Swap("signup") \/ SignIn(l, "login", Clients \cup db.admins)

Signup(l) == Swap("login") \/ SignIn(l, "register", Admins)

GuestRouter(l) ==
  \/ tab.guest = "login" /\ Login(l)
  \/ tab.guest = "signup" /\ Signup(l)

-----------------------------------------------------------------------------
(* Routes *)

ClientPages == {"dashboard", "profile", "agenda", "credits", "contracts", "financial", "history",
                "settings", "notifications"}

AdminPages == {"dashboard", "rooms", "new-room", "edit-room", "schedule", "clients", "client",
               "new-client", "contracts", "financial", "reports", "settings", "notifications"}

\* The page is one of the other role: its name outlives a logout.
NotFound == Link({"dashboard"})

ClientRouter(l) ==
  \/ tab.page = "dashboard" /\ ClientDashboard(l)
  \/ tab.page = "profile" /\ Profile(l)
  \/ tab.page = "agenda" /\ Agenda(l)
  \/ tab.page = "credits" /\ Credit
  \/ tab.page = "contracts" /\ ClientContracts
  \/ tab.page = "financial" /\ ClientFinancial
  \/ tab.page = "history" /\ History(l)
  \/ tab.page = "notifications" /\ Notifications(l)
  \/ tab.page \notin ClientPages /\ NotFound

AdminRouter(l) ==
  \/ tab.page = "dashboard" /\ AdminDashboard
  \/ tab.page = "rooms" /\ Rooms(l)
  \/ tab.page = "new-room" /\ NewRoom(l)
  \/ tab.page = "edit-room" /\ EditRoom(l)
  \/ tab.page = "schedule" /\ AgendaGeral(l)
  \/ tab.page = "clients" /\ ClientList
  \/ tab.page = "client" /\ ClientDetail
  \/ tab.page = "new-client" /\ NewClient(l)
  \/ tab.page = "contracts" /\ AdminContracts(l)
  \/ tab.page = "financial" /\ AdminFinancial(l)
  \/ tab.page = "notifications" /\ Notifications(l)
  \/ tab.page \notin AdminPages /\ NotFound

AppRoutes(l) ==
  /\ tab.screen = "shown"
  /\ \/ Role = "guest" /\ GuestRouter(l)
     \/ Role # "guest" /\ Shell(l)
     \/ Role = "client" /\ ClientRouter(l)
     \/ Role = "admin" /\ AdminRouter(l)

-----------------------------------------------------------------------------

\* The rows of list s at first: what the seed makes, and a month whose receipt is under review.
FirstRows(s) ==
  CASE s = "rooms" -> {Row("room", 1, NoOne, "AVAILABLE"), Row("details", 1, NoOne, "old")}
    [] s = "availabilities" -> {Row("monday", 1, NoOne, "active")}
    [] s = "reservations" -> {}
    [] s = "contracts" -> {Row("first", 1, u, "ACTIVE") : u \in Clients}
    [] s = "invoices" -> {Row("month", 1, u, "PENDING") : u \in Clients}
    [] s = "payments" -> {Row("month", 1, u, "UNDER_REVIEW") : u \in Clients}
    [] s = "notifications" -> {}
    [] s = "people" -> {Row(w, 1, u, "old") : w \in {"name", "profession"}, u \in Clients}

Init ==
  /\ db = [admins |-> {}, balance |-> [u \in Clients |-> 1],
            rows |-> [s \in Lists |-> FirstRows(s)]]
  /\ token = NoOne
  /\ tab = Fresh("shown")
  /\ flows = [l \in Lanes |-> NoFlow]
  /\ budget = [logins |-> 0, presses |-> 0, faults |-> 0, elsewhere |-> 0]
  /\ trusted = FALSE
  /\ mixed = FALSE
  /\ saves = 0

Next ==
  \/ \E l \in Lanes : AppRoutes(l) \/ Continue(l) \/ Reload(l)
  \/ Elsewhere

Spec == Init /\ [][Next]_vars

-----------------------------------------------------------------------------
(* Properties *)

\* After an operation that had the tab to itself, whatever page the user has moved to,
\* every list and the balance on the screen are what the database holds: no operation
\* leaves behind a list that it has changed (store.tsx:179, store.tsx:628).
ShowsTheDatabase ==
  trusted /\ Quiet /\ tab.screen = "shown" =>
    LET shown == Mapped([s \in Lists |-> Allowed(db, tab.me, s)])
    IN tab.me # NoOne /\ tab.rows = shown /\ tab.credits = Credits(tab.me, shown)

Personal == Shown \ {"rooms", "availabilities"}

\* What the tab shows was read with the tokens of the user who is signed in, and a guest
\* is shown nothing of anybody, as long as every logout has waited for the operations
\* under way, and every sign-in for the one before it (store.tsx:190, store.tsx:327).
ShownIsOwn ==
  tab.screen = "shown" /\ ~mixed =>
    /\ {tab.listsFor, tab.creditsFor} \subseteq {NoOne, tab.me}
    /\ \A s \in Personal : tab.rows[s] # {} => tab.listsFor # NoOne

\* However often the user presses, whatever is lost, and although every error invites to
\* try again: an hour is reserved once, a client has one account, and there are no more
\* new rooms than forms an administrator's tokens have sent; exactly as many once nothing
\* was lost and all has ended, whoever is signed in or out meanwhile (RoomForm.tsx:155,
\* NewClient.tsx:29, modals.tsx:52).
OnePerIntent ==
  /\ Cardinality(Live(db)) <= 1
  /\ Cardinality({r \in Named(db, "people", "name") : r.owner = Newcomer}) <= 1
  /\ Cardinality(Named(db, "rooms", "added")) <= saves
  /\ Quiet /\ budget.faults = 0 => Cardinality(Named(db, "rooms", "added")) = saves

=============================================================================
