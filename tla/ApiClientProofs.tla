-------------------------- MODULE ApiClientProofs ---------------------------
(***************************************************************************)
(* Theorems about ApiClient for any tabs, lanes, accounts and limits.      *)
(*                                                                         *)
(* NobodyWaitsInVain follows pc alone.  A call becomes a waiter only where *)
(* the refresh is under way or is sent in the same step; the back end      *)
(* never makes a request new; and the three steps that end a refresh end   *)
(* the waiting of its whole tab.                                           *)
(*                                                                         *)
(* Types says what a request holds at each stage (Fits), so that whatever  *)
(* a tab stores or sends names a row.  Served adds, where one request is   *)
(* served at a time, that what its handler has read is still so (Current), *)
(* on which live tokens and lockouts rest.  Unrepeated follows the tokens  *)
(* of a lone tab: those stored, the one being refreshed and those that     *)
(* answers bring have not been traded, and no two of them are the same.    *)
(***************************************************************************)
EXTENDS ApiClient, FiniteSetTheorems, TLAPS

Inv ==
  /\ pc = [q \in Requests |-> pc[q]]
  /\ NobodyWaitsInVain

\* The stages of a request that the back end has received.
ServedStages == {"issue", "burn", "rotate", "logout", "verify", "reset", "answered", "done"}

Refreshers == {Refresher(t) : t \in Tabs}

-----------------------------------------------------------------------------
(* The rows, and what a request holds *)

Kinds == {"call", "login", "register", "forgot", "logout", "refresh"}

Goals == {"page", "login", "profile", "boot", "logout", "refresh"}

Body ==
  [kind : Kinds, goal : Goals, user : Accounts, password : Passwords, token : Nat,
   retry : BOOLEAN, keep : BOOLEAN, seen : {NoLocals} \cup User, status : Nat]

\* The stages of a request that a browser sent.
CallStages == {"sent", "waiting", "answered", "issue", "burn", "rotate", "logout", "verify"}

Entries == {"login", "register"}

\* A login or a registration that was answered with a pair, which the tab has yet to store.
Admitted(s, l) == s = "answered" /\ l.kind \in Entries /\ l.status = 200

\* What request q holds at stage s, with n rows of refresh tokens and m of reset tokens.
Fits(q, s, l, n, m) ==
  /\ s \in CallStages =>
       /\ l \in Body /\ l.token <= n
       /\ l.kind = "refresh" <=> q \in Refreshers
       /\ l.kind \in {"refresh", "logout"} => l.token # 0
       /\ l.kind \in Entries /\ ~Admitted(s, l) => l.token = 0
       /\ l.goal = "login" <=> l.kind \in Entries
  /\ s \in {"burn", "rotate"} => l.kind = "refresh"
  /\ s = "logout" => l.kind = "logout"
  /\ s = "verify" => l.kind = "login" /\ l.seen \in User
  /\ s = "issue" => l.kind \in Entries \cup {"refresh"}
  /\ s = "reset" => l \in [reset : 1..m, password : Passwords]

Control ==
  /\ pc = [q \in Requests |-> pc[q]]
  /\ loc = [q \in Requests |-> loc[q]]

Rows ==
  /\ now \in Nat
  /\ users \in [Accounts -> User]
  /\ tokens \in Seq(RefreshToken)
  /\ resets \in Seq(ResetToken)
  /\ window \in [hits : 0..LoginLimit + 1, ends : Nat]
  /\ guesses \in [Accounts -> Nat]

Pairs ==
  /\ local \in 0..Len(tokens)
  /\ session \in [Tabs -> 0..Len(tokens)]
  /\ signedIn \in [Tabs -> BOOLEAN]

Bodies == \A q \in Requests : Fits(q, pc[q], loc[q], Len(tokens), Len(resets))

Types == Control /\ Rows /\ Pairs /\ Bodies

-----------------------------------------------------------------------------
(* One request served at a time *)

OneServed == \A p, q \in Serving : p = q

\* What the request being served has read is still so.
Current(q) ==
  /\ pc[q] = "verify" => /\ loc[q].seen = users[loc[q].user]
                         /\ loc[q].seen.status # "ABSENT"
                         /\ loc[q].seen.lockedUntil <= now
  /\ pc[q] = "rotate" => /\ ~tokens[loc[q].token].revoked
                         /\ loc[q].user = tokens[loc[q].token].user
                         /\ loc[q].password = tokens[loc[q].token].secret
  /\ pc[q] = "issue" => /\ Active(loc[q].user)
                        /\ loc[q].password = users[loc[q].user].password

\* A user locked out for the k-th time is so until k lockouts could have run out.
Paced(u) ==
  /\ guesses[u] = users[u].failed
  /\ users[u].failed >= MaxFailed =>
       /\ users[u].failed - MaxFailed + 1 <= users[u].lockedUntil \div LockTtl
       /\ users[u].lockedUntil <= now + LockTtl

Served ==
  /\ OneServed
  /\ \A q \in Requests : Current(q)
  /\ LiveTokensEntitled
  /\ \A u \in Accounts : Paced(u)

-----------------------------------------------------------------------------
(* One tab *)

Parents == \A n \in DOMAIN tokens : tokens[n].parent < n

\* Nobody has traded token k.
Untraded(k) == \A n \in DOMAIN tokens : tokens[n].parent # k

\* Its new pair has not come.
Unanswered(r) == ~(pc[r] = "answered" /\ loc[r].status = 200)

\* The pair that q brings and no tab has stored.
New(q) == Admitted(pc[q], loc[q])

Unrepeated(t) ==
  LET r == Refresher(t)
  IN /\ pc[r] \in {"sent", "rotate", "issue"} \/ ~Unanswered(r) => Untraded(loc[r].token)
     /\ Unanswered(r) => \A k \in {local, session[t]} \ {0} : Untraded(k)
     /\ \A q \in Requests : New(q) =>
          /\ Untraded(loc[q].token)
          /\ loc[q].token \notin {0, local, session[t]}
          /\ pc[r] \in CallStages => loc[q].token # loc[r].token
     /\ \A p, q \in Requests : New(p) /\ New(q) /\ p # q => loc[p].token # loc[q].token

-----------------------------------------------------------------------------
\* What a tab has under way is a request, and a call is not a refresh.
LEMMA TabRequests ==
  ASSUME NEW t \in Tabs
  PROVE  /\ Refresher(t) \in Requests
         /\ Calls(t) \subseteq Requests \ Refreshers
BY ApiClientAssumption DEF Refresher, Refreshers, Calls

\* One request goes on to a stage in which it waits for nobody, and a refresh stays
\* under way: so goes every step but those that begin or end a waiting.
LEMMA MovedKeepsInv ==
  ASSUME Inv, NEW q \in Requests, NEW s,
         pc' = [pc EXCEPT ![q] = s],
         s # "waiting",
         s = "new" => q \notin Refreshers
  PROVE  Inv'
<1>1. pc' = [p \in Requests |-> pc'[p]]
  BY DEF Inv
<1>2. ASSUME NEW t \in Tabs, Waiters(t)' # {}
      PROVE  pc'[Refresher(t)] # "new"
  <2>1. PICK w \in Calls(t) : pc'[w] = "waiting"
    BY <1>2 DEF Waiters
  <2>2. w \in Requests /\ Refresher(t) \in Requests
    BY TabRequests
  <2>3. pc[w] = "waiting"
    BY <2>1, <2>2 DEF Inv
  <2>4. w \in Waiters(t)
    BY <2>3 DEF Waiters
  <2>5. pc[Refresher(t)] # "new"
    BY <2>4 DEF Inv, NobodyWaitsInVain
  <2>6. Refresher(t) \in Refreshers
    BY DEF Refreshers
  <2>. QED
    BY <2>2, <2>5, <2>6 DEF Inv
<1>3. NobodyWaitsInVain'
  BY <1>2 DEF NobodyWaitsInVain, Refresher
<1>. QED
  BY <1>1, <1>3 DEF Inv

LEMMA UnmovedKeepsInv ==
  ASSUME Inv, UNCHANGED pc
  PROVE  Inv'
BY DEF Inv, NobodyWaitsInVain, Waiters, Calls, Refresher

\* The back end moves one request, to one of its own stages.
LEMMA ServeMoves ==
  ASSUME NEW q \in Requests, Serve(q) \/ ServeDirect(q)
  PROVE  \E s \in ServedStages : pc' = [pc EXCEPT ![q] = s]
<1>1. CASE Issue(q) \/ RefreshBurn(q) \/ RefreshRotate(q) \/ LogoutRevoke(q)
  BY <1>1 DEF Issue, RefreshBurn, RefreshRotate, LogoutRevoke, Unauthorized, Answer, Goto, ServedStages
<1>2. CASE RefreshRead(q)
  BY <1>2 DEF RefreshRead, Unauthorized, Answer, Goto, ServedStages
<1>3. CASE LogoutRead(q) \/ Call(q)
  BY <1>3 DEF LogoutRead, Call, Unauthorized, Answer, Goto, ServedStages
<1>4. CASE LoginRead(q)
  BY <1>4 DEF LoginRead, Unauthorized, Answer, Goto, ServedStages
<1>5. CASE LoginReject(q) \/ LoginAccept(q)
  BY <1>5 DEF LoginReject, LoginAccept, Unauthorized, Answer, Goto, ServedStages
<1>6. CASE Register(q) \/ ForgotPassword(q)
  BY <1>6 DEF Register, ForgotPassword, Answer, Goto, ServedStages
<1>7. CASE ServeDirect(q)
  BY <1>7 DEF ServeDirect, CreateUser, UpdateStatus, ResetRead, ResetCommit, Finish, Goto, ServedStages
<1>. QED
  BY <1>1, <1>2, <1>3, <1>4, <1>5, <1>6, <1>7 DEF Serve

\* A tab that begins a call, or is answered, moves that call, or nothing.
LEMMA LaneMoves ==
  ASSUME NEW t \in Tabs, NEW l \in Lanes,
         \/ StartCall(t, l) \/ StartLogin(t, l) \/ StartForgot(t, l)
         \/ StartLogout(t, l) \/ Reload(t, l)
         \/ Resolve(t, l) \/ Reject(t, l) \/ CallLost(t, l)
  PROVE  \/ UNCHANGED pc
         \/ \E s \in {"new", "sent"} : pc' = [pc EXCEPT ![<<t, l>>] = s]
<1>1. CASE StartCall(t, l) \/ StartLogin(t, l) \/ StartForgot(t, l)
  BY <1>1 DEF StartCall, StartLogin, StartForgot, Send, Goto
<1>2. CASE StartLogout(t, l)
  BY <1>2 DEF StartLogout, Send, Goto, runtimeVars
<1>3. CASE Reload(t, l)
  BY <1>3 DEF Reload, Send, Goto, runtimeVars
<1>4. CASE Resolve(t, l)
  BY <1>4 DEF Resolve, Send, Ended, Goto
<1>5. CASE Reject(t, l) \/ CallLost(t, l)
  BY <1>5 DEF Reject, CallLost, Ended, Goto
<1>. QED
  BY <1>1, <1>2, <1>3, <1>4, <1>5

\* A call begins to wait: the refresh was under way, or is sent.
LEMMA AwaitKeepsInv ==
  ASSUME Inv, NEW t \in Tabs, NEW l \in Lanes, AwaitRefresh(t, l)
  PROVE  Inv'
<1>. DEFINE q == <<t, l>>
            r == Refresher(t)
<1>1. q \in Calls(t)
  BY DEF Calls
<1>2. q \in Requests /\ r \in Requests /\ q \notin Refreshers
  BY <1>1, TabRequests
<1>3. r \in Refreshers
  BY DEF Refreshers
<1>4. CASE pc[r] = "new"
  <2>1. pc' = [pc EXCEPT ![q] = "waiting", ![r] = "sent"]
    BY <1>4 DEF AwaitRefresh
  <2>2. pc' = [p \in Requests |-> pc'[p]] /\ pc'[r] = "sent"
    BY <1>2, <1>3, <2>1 DEF Inv
  <2>3. ASSUME NEW u \in Tabs, Waiters(u)' # {}
        PROVE  pc'[Refresher(u)] # "new"
    <3>1. CASE u = t
      BY <3>1, <2>2
    <3>2. CASE u # t
      <4>1. PICK w \in Calls(u) : pc'[w] = "waiting"
        BY <2>3 DEF Waiters
      <4>2. w # q /\ Refresher(u) # r /\ Refresher(u) # q
        BY <3>2, <1>2 DEF Calls, Refresher, Refreshers
      <4>3. w \in Requests /\ Refresher(u) \in Requests
        BY TabRequests
      <4>4. pc[w] = "waiting" /\ pc'[Refresher(u)] = pc[Refresher(u)]
        BY <4>1, <4>2, <4>3, <2>1 DEF Inv
      <4>. QED
        BY <4>4 DEF Inv, NobodyWaitsInVain, Waiters
    <3>. QED
      BY <3>1, <3>2
  <2>. QED
    BY <2>2, <2>3 DEF Inv, NobodyWaitsInVain, Refresher
<1>5. CASE pc[r] # "new"
  <2>1. pc' = [pc EXCEPT ![q] = "waiting"]
    BY <1>5 DEF AwaitRefresh
  <2>2. pc' = [p \in Requests |-> pc'[p]]
    BY <2>1, <1>2 DEF Inv
  <2>3. ASSUME NEW u \in Tabs, Waiters(u)' # {}
        PROVE  pc'[Refresher(u)] # "new"
    <3>1. Refresher(u) \in Requests /\ Refresher(u) # q
      BY <1>2, TabRequests DEF Refreshers
    <3>2. pc'[Refresher(u)] = pc[Refresher(u)]
      BY <3>1, <2>1 DEF Inv
    <3>3. CASE u = t
      BY <3>2, <3>3, <1>5
    <3>4. CASE u # t
      <4>1. PICK w \in Calls(u) : pc'[w] = "waiting"
        BY <2>3 DEF Waiters
      <4>2. w # q /\ w \in Requests
        BY <3>4, TabRequests DEF Calls
      <4>3. pc[w] = "waiting"
        BY <4>1, <4>2, <2>1 DEF Inv
      <4>. QED
        BY <4>3, <3>2 DEF Inv, NobodyWaitsInVain, Waiters
    <3>. QED
      BY <3>3, <3>4
  <2>. QED
    BY <2>2, <2>3 DEF Inv, NobodyWaitsInVain, Refresher
<1>. QED
  BY <1>4, <1>5

\* A refresh ends, and with it the waiting of its tab and of no other.
LEMMA SettleKeepsInv ==
  ASSUME Inv, NEW t \in Tabs, NEW stage \in {"new", "sent"},
         pc' = [q \in Requests |-> IF q = Refresher(t) THEN "new"
                                   ELSE IF q \in Waiters(t) THEN stage ELSE pc[q]]
  PROVE  Inv'
<1>1. pc' = [p \in Requests |-> pc'[p]]
  BY DEF Inv
<1>2. ASSUME NEW u \in Tabs, Waiters(u)' # {}
      PROVE  pc'[Refresher(u)] # "new"
  <2>1. PICK w \in Calls(u) : pc'[w] = "waiting"
    BY <1>2 DEF Waiters
  <2>2. w \in Requests
    BY TabRequests
  <2>3. pc[w] = "waiting" /\ w \notin Waiters(t)
    BY <2>1, <2>2
  <2>4. u # t /\ pc[Refresher(u)] # "new"
    BY <2>3 DEF Inv, NobodyWaitsInVain, Waiters
  <2>5. Refresher(u) \in Requests /\ Refresher(u) # Refresher(t)
    BY <2>4, TabRequests DEF Refresher
  <2>6. Refresher(u) \notin Waiters(t)
    BY TabRequests DEF Waiters, Refreshers
  <2>. QED
    BY <2>4, <2>5, <2>6
<1>. QED
  BY <1>1, <1>2 DEF Inv, NobodyWaitsInVain, Refresher

LEMMA InitEstablishesInv ==
  ASSUME Init
  PROVE  Inv
<1>1. pc = [p \in Requests |-> pc[p]] /\ \A q \in Requests : pc[q] # "waiting"
  BY DEF Init, RuntimeInit
<1>2. \A t \in Tabs : Waiters(t) = {}
  BY <1>1, TabRequests DEF Waiters
<1>. QED
  BY <1>1, <1>2 DEF Inv, NobodyWaitsInVain

LEMMA NextKeepsInv ==
  ASSUME Inv, [Next]_vars
  PROVE  Inv'
<1>1. ASSUME NEW q \in Requests, Serve(q) \/ ServeDirect(q)
      PROVE  Inv'
  BY <1>1, ServeMoves, MovedKeepsInv DEF ServedStages
<1>2. ASSUME NEW t \in Tabs, NEW l \in Lanes,
             \/ StartCall(t, l) \/ StartLogin(t, l) \/ StartForgot(t, l)
             \/ StartLogout(t, l) \/ Reload(t, l)
             \/ Resolve(t, l) \/ Reject(t, l) \/ CallLost(t, l)
      PROVE  Inv'
  <2>1. <<t, l>> \in Requests \ Refreshers
    BY TabRequests DEF Calls
  <2>. QED
    BY <1>2, <2>1, LaneMoves, MovedKeepsInv, UnmovedKeepsInv
<1>3. ASSUME NEW t \in Tabs, NEW l \in Lanes, AwaitRefresh(t, l)
      PROVE  Inv'
  BY <1>3, AwaitKeepsInv
<1>4. ASSUME NEW t \in Tabs, Refreshed(t) \/ RefreshRefused(t) \/ RefreshLost(t)
      PROVE  Inv'
  <2>1. \E stage \in {"new", "sent"} :
          pc' = [q \in Requests |-> IF q = Refresher(t) THEN "new"
                                    ELSE IF q \in Waiters(t) THEN stage ELSE pc[q]]
    BY <1>4 DEF Refreshed, RefreshRefused, RefreshLost, Settle
  <2>. QED
    BY <2>1, SettleKeepsInv
<1>5. CASE Tick \/ UNCHANGED vars
  BY <1>5, UnmovedKeepsInv DEF Tick, vars, runtimeVars
<1>. QED
  BY <1>1, <1>2, <1>3, <1>4, <1>5 DEF Next, Receives, ReceivesRefresh, Network

\* Whatever is answered, refused or lost, and whenever calls join, a call waits only
\* while a refresh is under way (client.ts:56, 75).
THEOREM NobodyWaitsInVainAlways == Spec => []NobodyWaitsInVain
<1>1. Init => Inv
  BY InitEstablishesInv
<1>2. Inv /\ [Next]_vars => Inv'
  BY NextKeepsInv
<1>3. Inv => NobodyWaitsInVain
  BY DEF Inv
<1>. QED
  BY <1>1, <1>2, <1>3, PTL DEF Spec

-----------------------------------------------------------------------------
(* Types *)

LEMMA Refreshing ==
  ASSUME NEW t \in Tabs
  PROVE  /\ Refresher(t) \in Requests /\ Refresher(t) \in Refreshers
         /\ \A l \in Lanes : <<t, l>> \in Requests /\ <<t, l>> \notin Refreshers
BY ApiClientAssumption DEF Refresher, Refreshers

\* What a request holds still fits when rows are added.
LEMMA FitsGrown ==
  ASSUME NEW q, NEW s, NEW l, NEW n \in Nat, NEW m \in Nat, NEW i \in Nat, NEW j \in Nat,
         n <= i, m <= j, Fits(q, s, l, n, m)
  PROVE  Fits(q, s, l, i, j)
<1>1. s \in CallStages => l \in Body /\ l.token <= n
  BY DEF Fits
<1>2. s \in CallStages => l.token <= i
  BY <1>1 DEF Body
<1>3. s = "reset" => l \in [reset : 1..m, password : Passwords]
  BY DEF Fits
<1>4. s = "reset" => l \in [reset : 1..j, password : Passwords]
  <2> SUFFICES ASSUME s = "reset"
               PROVE  l \in [reset : 1..j, password : Passwords]
    OBVIOUS
  <2> QED BY <1>3
<1> QED BY <1>1, <1>2, <1>4 DEF Fits

\* Of a body of which one field was set.
LEMMA StatusSet ==
  ASSUME NEW l \in Body, NEW c \in Nat, NEW k, k = [l EXCEPT !.status = c]
  PROVE  /\ k \in Body /\ k.kind = l.kind /\ k.goal = l.goal /\ k.user = l.user
         /\ k.password = l.password /\ k.token = l.token /\ k.seen = l.seen
         /\ k.status = c
BY DEF Body

LEMMA SeenSet ==
  ASSUME NEW l \in Body, NEW row \in User, NEW k, k = [l EXCEPT !.seen = row]
  PROVE  /\ k \in Body /\ k.kind = l.kind /\ k.goal = l.goal /\ k.token = l.token
         /\ k.seen = row /\ k.user = l.user /\ k.password = l.password
         /\ k.status = l.status
BY DEF Body

\* An answer fits.
LEMMA AnswerFits ==
  ASSUME NEW q, NEW s \in CallStages, s # "answered", NEW l, NEW n, NEW m,
         Fits(q, s, l, n, m), NEW c \in Nat
  PROVE  Fits(q, "answered", [l EXCEPT !.status = c], n, m)
<1>1. l \in Body
  BY DEF Fits
<1>2. PICK k : k = [l EXCEPT !.status = c]
  OBVIOUS
<1>3. /\ k \in Body /\ k.kind = l.kind /\ k.goal = l.goal /\ k.token = l.token
  BY <1>1, <1>2, StatusSet
<1>4. Fits(q, "answered", k, n, m)
  BY <1>3 DEF Fits, Admitted, CallStages, Entries
<1> QED BY <1>2, <1>4

\* One request moves on; rows are only added.
LEMMA BodyMoves ==
  ASSUME Control, Bodies, Rows, Rows', NEW q \in Requests, NEW s, NEW l,
         pc' = [pc EXCEPT ![q] = s], loc' = [loc EXCEPT ![q] = l],
         Len(tokens) <= Len(tokens'), Len(resets) <= Len(resets'),
         Fits(q, s, l, Len(tokens'), Len(resets'))
  PROVE  Control' /\ Bodies'
<1>1. Control'
  BY DEF Control
<1>2. ASSUME NEW p \in Requests
      PROVE  Fits(p, pc'[p], loc'[p], Len(tokens'), Len(resets'))
  <2>1. CASE p = q
    BY <2>1 DEF Control
  <2>2. CASE p # q
    <3>1. pc'[p] = pc[p] /\ loc'[p] = loc[p]
      BY <2>2 DEF Control
    <3>2. Fits(p, pc[p], loc[p], Len(tokens), Len(resets))
      BY DEF Bodies
    <3>3. /\ Len(tokens) \in Nat /\ Len(resets) \in Nat
          /\ Len(tokens') \in Nat /\ Len(resets') \in Nat
      BY DEF Rows
    <3>4. Fits(p, pc[p], loc[p], Len(tokens'), Len(resets'))
      BY <3>2, <3>3, FitsGrown
    <3> QED BY <3>1, <3>4
  <2> QED BY <2>1, <2>2
<1> QED BY <1>1, <1>2 DEF Bodies

\* Nothing of what is typed here changes with the clock.
LEMMA TypesStay ==
  ASSUME Types, UNCHANGED <<pc, loc, sessionTables, clientVars>>, UNCHANGED now \/ Tick
  PROVE  Types'
<1>1. now' \in Nat
  BY DEF Types, Rows, Tick
<1>2. Rows'
  BY <1>1 DEF Types, Rows, sessionTables
<1>3. Control' /\ Pairs' /\ Bodies'
  BY DEF Types, Control, Pairs, Bodies, sessionTables, clientVars
<1> QED BY <1>2, <1>3 DEF Types

-----------------------------------------------------------------------------
(* Rows *)

\* Rows may have been revoked, and nothing else.
OnlyRevoked ==
  /\ tokens' \in Seq(RefreshToken)
  /\ Len(tokens') = Len(tokens)
  /\ \A n \in DOMAIN tokens :
       /\ tokens'[n].user = tokens[n].user
       /\ tokens'[n].parent = tokens[n].parent
       /\ tokens'[n].secret = tokens[n].secret
       /\ tokens[n].revoked => tokens'[n].revoked

LEMMA RowRevoked ==
  ASSUME NEW row \in RefreshToken, NEW k, k = [row EXCEPT !.revoked = TRUE]
  PROVE  /\ k \in RefreshToken /\ k.user = row.user /\ k.parent = row.parent
         /\ k.secret = row.secret /\ k.revoked
BY DEF RefreshToken

LEMMA AllRevoked ==
  ASSUME Rows, NEW u, tokens' = RevokedFor(u)
  PROVE  /\ OnlyRevoked
         /\ \A n \in DOMAIN tokens : tokens[n].user = u => tokens'[n].revoked
         /\ \A n \in DOMAIN tokens : tokens[n].user # u => tokens'[n] = tokens[n]
<1>1. tokens \in Seq(RefreshToken) /\ DOMAIN tokens = 1..Len(tokens) /\ Len(tokens) \in Nat
  BY DEF Rows
<1>2. DOMAIN tokens' = 1..Len(tokens)
  BY <1>1 DEF RevokedFor
<1>3. ASSUME NEW n \in 1..Len(tokens)
      PROVE  /\ tokens'[n] \in RefreshToken
             /\ tokens'[n].user = tokens[n].user /\ tokens'[n].parent = tokens[n].parent
             /\ tokens'[n].secret = tokens[n].secret
             /\ tokens[n].revoked => tokens'[n].revoked
             /\ tokens[n].user = u => tokens'[n].revoked
             /\ tokens[n].user # u => tokens'[n] = tokens[n]
  <2>1. tokens[n] \in RefreshToken
    BY <1>1
  <2>2. CASE tokens[n].user = u
    <3>1. tokens'[n] = [tokens[n] EXCEPT !.revoked = TRUE]
      BY <1>1, <2>2 DEF RevokedFor
    <3> QED BY <2>1, <2>2, <3>1, RowRevoked
  <2>3. CASE tokens[n].user # u
    BY <2>1, <2>3, <1>1 DEF RevokedFor
  <2> QED BY <2>2, <2>3
<1>4. tokens' = [n \in 1..Len(tokens) |-> tokens'[n]]
  BY <1>1 DEF RevokedFor
<1>5. tokens' \in [1..Len(tokens) -> RefreshToken]
  BY <1>3, <1>4
<1>6. tokens' \in Seq(RefreshToken) /\ Len(tokens') = Len(tokens)
  BY <1>1, <1>5
<1> QED BY <1>1, <1>3, <1>6 DEF OnlyRevoked

LEMMA OneRevoked ==
  ASSUME Rows, NEW k \in 1..Len(tokens), tokens' = [tokens EXCEPT ![k].revoked = TRUE]
  PROVE  /\ OnlyRevoked /\ tokens'[k].revoked
         /\ \A n \in DOMAIN tokens : n # k => tokens'[n] = tokens[n]
<1>1. tokens \in Seq(RefreshToken) /\ DOMAIN tokens = 1..Len(tokens) /\ Len(tokens) \in Nat
  BY DEF Rows
<1>2. PICK row : row = [tokens[k] EXCEPT !.revoked = TRUE]
  OBVIOUS
<1>3. /\ row \in RefreshToken /\ row.user = tokens[k].user /\ row.parent = tokens[k].parent
      /\ row.secret = tokens[k].secret /\ row.revoked
  BY <1>1, <1>2, RowRevoked
<1>4. tokens' = [tokens EXCEPT ![k] = row]
  BY <1>2
<1>5. tokens' \in Seq(RefreshToken) /\ Len(tokens') = Len(tokens)
  <2>1. tokens \in [1..Len(tokens) -> RefreshToken]
    BY <1>1
  <2>2. tokens' \in [1..Len(tokens) -> RefreshToken]
    BY <2>1, <1>3, <1>4
  <2> QED BY <1>1, <2>2
<1>6. /\ tokens'[k] = row
      /\ \A n \in 1..Len(tokens) : n # k => tokens'[n] = tokens[n]
  BY <1>1, <1>4
<1> QED BY <1>1, <1>3, <1>5, <1>6 DEF OnlyRevoked

\* Rows that stay are revoked ones too.
LEMMA NoneRevoked ==
  ASSUME Rows, UNCHANGED tokens
  PROVE  OnlyRevoked
BY DEF Rows, OnlyRevoked

-----------------------------------------------------------------------------
(* Users *)

\* What a failed attempt, a successful one and an insertion write in the row of a user.
LEMMA AttemptCounted ==
  ASSUME Rows, NEW q, NEW u \in Accounts, loc[q].user = u,
         NEW a \in Nat, a = loc[q].seen.failed + 1,
         users' = FailedAttempt(q)
  PROVE  /\ users' \in [Accounts -> User]
         /\ \A v \in Accounts : v # u => users'[v] = users[v]
         /\ users'[u].status = users[u].status /\ users'[u].password = users[u].password
         /\ users'[u].failed = a
         /\ a >= MaxFailed => users'[u].lockedUntil = now + LockTtl
         /\ a < MaxFailed => users'[u].lockedUntil = users[u].lockedUntil
<1>. DEFINE until == IF a >= MaxFailed THEN now + LockTtl ELSE users[u].lockedUntil
<1>1. users[u] \in User /\ now \in Nat /\ MaxFailed \in Nat /\ LockTtl \in Nat
  BY SessionsAssumption DEF Rows
<1>2. until \in Nat
  BY <1>1 DEF User
<1>3. PICK row : row = [users[u] EXCEPT !.failed = a, !.lockedUntil = until]
  OBVIOUS
<1>4. /\ row \in User /\ row.status = users[u].status /\ row.password = users[u].password
      /\ row.failed = a /\ row.lockedUntil = until
  BY <1>1, <1>2, <1>3 DEF User
<1>5. users' = [users EXCEPT ![u] = row]
  BY <1>3 DEF FailedAttempt, Rows
<1>6. /\ users' \in [Accounts -> User] /\ users'[u] = row
      /\ \A v \in Accounts : v # u => users'[v] = users[v]
  BY <1>4, <1>5 DEF Rows
<1> QED BY <1>1, <1>4, <1>6

LEMMA AttemptsForgotten ==
  ASSUME Rows, NEW u \in Accounts,
         users' = [users EXCEPT ![u].failed = 0, ![u].lockedUntil = 0]
  PROVE  /\ users' \in [Accounts -> User]
         /\ \A v \in Accounts : v # u => users'[v] = users[v]
         /\ users'[u].status = users[u].status /\ users'[u].password = users[u].password
         /\ users'[u].failed = 0 /\ users'[u].lockedUntil = 0
<1>1. PICK row : row = [users[u] EXCEPT !.failed = 0, !.lockedUntil = 0]
  OBVIOUS
<1>2. /\ row \in User /\ row.status = users[u].status /\ row.password = users[u].password
      /\ row.failed = 0 /\ row.lockedUntil = 0
  BY <1>1 DEF User, Rows
<1>3. users' = [users EXCEPT ![u] = row]
  BY <1>1 DEF Rows
<1> QED BY <1>2, <1>3 DEF Rows

LEMMA UserInserted ==
  ASSUME Rows, NEW u \in Accounts, NEW p \in Passwords, Inserted(u, p)
  PROVE  /\ users' \in [Accounts -> User]
         /\ \A v \in Accounts : v # u => users'[v] = users[v]
         /\ users'[u].status = "ACTIVE" /\ users'[u].password = p
         /\ users'[u].failed = users[u].failed
         /\ users'[u].lockedUntil = users[u].lockedUntil
<1>1. PICK row : row = [users[u] EXCEPT !.status = "ACTIVE", !.password = p]
  OBVIOUS
<1>2. /\ row \in User /\ row.status = "ACTIVE" /\ row.password = p
      /\ row.failed = users[u].failed /\ row.lockedUntil = users[u].lockedUntil
  BY <1>1 DEF User, Rows, UserStatuses
<1>3. users' = [users EXCEPT ![u] = row]
  BY <1>1 DEF Rows, Inserted
<1> QED BY <1>2, <1>3 DEF Rows

LEMMA StatusUpdated ==
  ASSUME Rows, NEW u \in Accounts, NEW s \in UserStatuses,
         users' = [users EXCEPT ![u].status = s]
  PROVE  /\ users' \in [Accounts -> User]
         /\ \A v \in Accounts : v # u => users'[v] = users[v]
         /\ users'[u].status = s /\ users'[u].password = users[u].password
         /\ users'[u].failed = users[u].failed
         /\ users'[u].lockedUntil = users[u].lockedUntil
<1>1. PICK row : row = [users[u] EXCEPT !.status = s]
  OBVIOUS
<1>2. /\ row \in User /\ row.status = s /\ row.password = users[u].password
      /\ row.failed = users[u].failed /\ row.lockedUntil = users[u].lockedUntil
  BY <1>1 DEF User, Rows
<1>3. users' = [users EXCEPT ![u] = row]
  BY <1>1 DEF Rows
<1> QED BY <1>2, <1>3 DEF Rows

LEMMA PasswordUpdated ==
  ASSUME Rows, NEW u \in Accounts, NEW p \in Passwords,
         users' = [users EXCEPT ![u].password = p]
  PROVE  /\ users' \in [Accounts -> User]
         /\ \A v \in Accounts : v # u => users'[v] = users[v]
         /\ users'[u].status = users[u].status /\ users'[u].password = p
         /\ users'[u].failed = users[u].failed
         /\ users'[u].lockedUntil = users[u].lockedUntil
<1>1. PICK row : row = [users[u] EXCEPT !.password = p]
  OBVIOUS
<1>2. /\ row \in User /\ row.status = users[u].status /\ row.password = p
      /\ row.failed = users[u].failed /\ row.lockedUntil = users[u].lockedUntil
  BY <1>1 DEF User, Rows
<1>3. users' = [users EXCEPT ![u] = row]
  BY <1>1 DEF Rows
<1> QED BY <1>2, <1>3 DEF Rows

-----------------------------------------------------------------------------
(* The back end keeps types *)

\* One request moves on, rows are only added, and no tab does anything.
LEMMA ServedMove ==
  ASSUME Types, Rows', UNCHANGED clientVars, NEW q \in Requests, NEW s, NEW l,
         Goto(q, s, l),
         Len(tokens) <= Len(tokens'), Len(resets) <= Len(resets'),
         Fits(q, s, l, Len(tokens'), Len(resets'))
  PROVE  Types'
<1>1. Control' /\ Bodies'
  <2>1. pc' = [pc EXCEPT ![q] = s] /\ loc' = [loc EXCEPT ![q] = l]
    BY DEF Goto
  <2> QED BY <2>1, BodyMoves DEF Types
<1>2. Len(tokens) \in Nat /\ Len(tokens') \in Nat
  BY DEF Types, Rows
<1>3. Pairs'
  <2>1. local \in 0..Len(tokens) /\ session \in [Tabs -> 0..Len(tokens)]
        /\ signedIn \in [Tabs -> BOOLEAN]
    BY DEF Types, Pairs
  <2>2. UNCHANGED <<local, session, signedIn>>
    BY DEF clientVars
  <2>3. 0..Len(tokens) \subseteq 0..Len(tokens')
    BY <1>2
  <2>4. session \in [Tabs -> 0..Len(tokens')]
    BY <2>1, <2>3
  <2> QED BY <2>1, <2>2, <2>3, <2>4 DEF Pairs
<1> QED BY <1>1, <1>3 DEF Types

\* The same, of steps that add no row.
LEMMA ServedOnly ==
  ASSUME Types, Rows', UNCHANGED clientVars, NEW q \in Requests, NEW s, NEW l,
         Goto(q, s, l),
         Len(tokens') = Len(tokens), UNCHANGED resets,
         Fits(q, s, l, Len(tokens), Len(resets))
  PROVE  Types'
<1>1. Len(tokens) \in Nat /\ Len(resets) \in Nat
  BY DEF Types, Rows
<1>2. Len(tokens) <= Len(tokens') /\ Len(resets) <= Len(resets')
  BY <1>1
<1>3. Fits(q, s, l, Len(tokens'), Len(resets'))
  OBVIOUS
<1> QED BY <1>2, <1>3, ServedMove

\* What a request holds when a step of the back end finds it at a stage.
LEMMA Held ==
  ASSUME Types, NEW q \in Requests, pc[q] \in CallStages
  PROVE  /\ Fits(q, pc[q], loc[q], Len(tokens), Len(resets))
         /\ loc[q] \in Body /\ loc[q].token \in 0..Len(tokens)
         /\ loc[q].user \in Accounts /\ loc[q].password \in Passwords
         /\ loc[q].kind \in Kinds
         /\ loc[q].kind \in {"refresh", "logout"} =>
              loc[q].token \in 1..Len(tokens) /\ tokens[loc[q].token] \in RefreshToken
<1>1. Fits(q, pc[q], loc[q], Len(tokens), Len(resets))
  BY DEF Types, Bodies
<1>2. loc[q] \in Body /\ loc[q].token <= Len(tokens)
      /\ (loc[q].kind \in {"refresh", "logout"} => loc[q].token # 0)
  BY <1>1 DEF Fits
<1>3. Len(tokens) \in Nat /\ tokens \in Seq(RefreshToken)
  BY DEF Types, Rows
<1>4. /\ loc[q].token \in Nat /\ loc[q].user \in Accounts /\ loc[q].password \in Passwords
      /\ loc[q].kind \in Kinds
  BY <1>2 DEF Body
<1>5. loc[q].token \in 0..Len(tokens)
  BY <1>2, <1>3, <1>4
<1>6. loc[q].kind \in {"refresh", "logout"} => loc[q].token \in 1..Len(tokens)
  BY <1>2, <1>3, <1>4
<1>7. loc[q].token \in 1..Len(tokens) => tokens[loc[q].token] \in RefreshToken
  BY <1>3
<1> QED BY <1>1, <1>2, <1>4, <1>5, <1>6, <1>7

\* An answer keeps types when the rows do.
LEMMA AnsweredTypes ==
  ASSUME Types, Rows', UNCHANGED clientVars, NEW q \in Requests,
         pc[q] \in CallStages, pc[q] # "answered", NEW c \in Nat, Answer(q, c),
         Len(tokens') = Len(tokens), UNCHANGED resets
  PROVE  Types'
<1>1. Fits(q, pc[q], loc[q], Len(tokens), Len(resets))
  BY Held
<1>2. Fits(q, "answered", [loc[q] EXCEPT !.status = c], Len(tokens), Len(resets))
  BY <1>1, AnswerFits
<1> QED BY <1>2, ServedOnly DEF Answer

\* A request that goes on to a later stage of its kind, with the same body.
LEMMA FitsLater ==
  ASSUME NEW q, NEW s \in CallStages, s # "answered", NEW l, NEW n, NEW m,
         Fits(q, s, l, n, m), NEW x \in {"issue", "rotate", "logout", "burn"},
         x \in {"rotate", "burn"} => l.kind = "refresh",
         x = "logout" => l.kind = "logout",
         x = "issue" => l.kind \in Entries \cup {"refresh"}
  PROVE  Fits(q, x, l, n, m)
BY DEF Fits, CallStages, Admitted

LEMMA IssueTypes ==
  ASSUME Types, UNCHANGED clientVars, NEW q \in Requests, Issue(q)
  PROVE  Types'
<1>1. pc[q] = "issue" /\ pc[q] \in CallStages
  BY DEF Issue, Continue, CallStages
<1>2. /\ Fits(q, "issue", loc[q], Len(tokens), Len(resets)) /\ loc[q] \in Body
      /\ loc[q].token \in 0..Len(tokens)
      /\ loc[q].user \in Accounts /\ loc[q].password \in Passwords
  BY <1>1, Held
<1>3. PICK row : row = [user |-> loc[q].user, revoked |-> FALSE, expires |-> now + RefreshTtl,
                        issued |-> now, parent |-> loc[q].token, secret |-> loc[q].password]
  OBVIOUS
<1>4. tokens \in Seq(RefreshToken) /\ Len(tokens) \in Nat /\ now \in Nat /\ RefreshTtl \in Nat
  BY SessionsAssumption DEF Types, Rows
<1>5. row \in RefreshToken
  BY <1>2, <1>3, <1>4 DEF RefreshToken
<1>6. tokens' = Append(tokens, row)
  BY <1>3 DEF Issue
<1>7. tokens' \in Seq(RefreshToken) /\ Len(tokens') = Len(tokens) + 1
  BY <1>4, <1>5, <1>6
<1>8. Rows'
  BY <1>7 DEF Types, Rows, Issue, Goto
<1>9. PICK n \in Nat : n = Len(tokens) + 1
  BY <1>4
<1>16. PICK l \in Body : l = loc[q]
  BY <1>2
<1>15. PICK k : k = [l EXCEPT !.status = 200, !.token = n]
  OBVIOUS
<1>10. /\ k \in Body /\ k.kind = loc[q].kind /\ k.goal = loc[q].goal
       /\ k.token = n /\ k.status = 200
  <2>1. /\ k \in Body /\ k.kind = l.kind /\ k.goal = l.goal /\ k.token = n /\ k.status = 200
    BY <1>15 DEF Body
  <2> QED BY <2>1, <1>16
<1>11. Fits(q, "answered", k, Len(tokens'), Len(resets))
  BY <1>2, <1>4, <1>7, <1>9, <1>10 DEF Fits, CallStages, Admitted
<1>12. Goto(q, "answered", k) /\ UNCHANGED resets
  BY <1>9, <1>15, <1>16 DEF Issue
<1>13. Len(tokens) <= Len(tokens') /\ Len(resets) <= Len(resets')
  BY <1>4, <1>7, <1>12 DEF Types, Rows
<1>14. Fits(q, "answered", k, Len(tokens'), Len(resets'))
  BY <1>11, <1>12
<1> QED BY <1>8, <1>12, <1>13, <1>14, ServedMove

LEMMA RefreshReadTypes ==
  ASSUME Types, UNCHANGED clientVars, NEW q \in Requests, RefreshRead(q)
  PROVE  Types'
<1>1. pc[q] = "sent" /\ loc[q].kind = "refresh" /\ pc[q] \in CallStages
  BY DEF RefreshRead, Receive, CallStages
<1>2. /\ Fits(q, "sent", loc[q], Len(tokens), Len(resets)) /\ loc[q] \in Body
      /\ tokens[loc[q].token] \in RefreshToken
  BY <1>1, Held
<1>9. PICK u \in Accounts, p \in Passwords :
        u = tokens[loc[q].token].user /\ p = tokens[loc[q].token].secret
  BY <1>2 DEF RefreshToken
<1>10. PICK l \in Body : l = loc[q]
  BY <1>2
<1>3. PICK k : k = [l EXCEPT !.user = u, !.password = p]
  OBVIOUS
<1>4. /\ k \in Body /\ k.kind = loc[q].kind /\ k.goal = loc[q].goal /\ k.token = loc[q].token
  <2>1. /\ k \in Body /\ k.kind = l.kind /\ k.goal = l.goal /\ k.token = l.token
    BY <1>3 DEF Body
  <2> QED BY <2>1, <1>10
<1>5. Fits(q, "burn", k, Len(tokens), Len(resets)) /\ Fits(q, "rotate", k, Len(tokens), Len(resets))
  BY <1>1, <1>2, <1>4 DEF Fits, CallStages, Admitted, Entries
<1>6. UNCHANGED sessionTables /\ Rows' /\ Len(tokens') = Len(tokens) /\ UNCHANGED resets
  BY DEF RefreshRead, sessionTables, Types, Rows, Unauthorized, Answer, Goto
<1>7. Goto(q, "burn", k) \/ Unauthorized(q) \/ Goto(q, "rotate", k)
  BY <1>3, <1>9, <1>10 DEF RefreshRead
<1>8. CASE Unauthorized(q)
  BY <1>1, <1>6, <1>8, AnsweredTypes DEF Unauthorized
<1> QED BY <1>5, <1>6, <1>7, <1>8, ServedOnly

LEMMA RefreshBurnTypes ==
  ASSUME Types, UNCHANGED clientVars, NEW q \in Requests, RefreshBurn(q)
  PROVE  Types'
<1>1. pc[q] \in CallStages /\ pc[q] # "answered" /\ Answer(q, 401)
  BY DEF RefreshBurn, Continue, CallStages, Unauthorized
<1>2. OnlyRevoked
  BY AllRevoked DEF RefreshBurn, Types
<1>3. Rows' /\ Len(tokens') = Len(tokens) /\ UNCHANGED resets
  BY <1>2 DEF RefreshBurn, Types, Rows, OnlyRevoked, Unauthorized, Answer, Goto
<1> QED BY <1>1, <1>3, AnsweredTypes

LEMMA RefreshRotateTypes ==
  ASSUME Types, UNCHANGED clientVars, NEW q \in Requests, RefreshRotate(q)
  PROVE  Types'
<1>1. pc[q] = "rotate" /\ pc[q] \in CallStages
  BY DEF RefreshRotate, Continue, CallStages
<1>2. Fits(q, "rotate", loc[q], Len(tokens), Len(resets))
  BY <1>1, Held
<1>3. loc[q].kind = "refresh"
  BY <1>2 DEF Fits
<1>4. loc[q].token \in 1..Len(tokens)
  BY <1>1, <1>3, Held
<1>5. OnlyRevoked
  BY <1>4, OneRevoked DEF RefreshRotate, Types
<1>6. Rows' /\ Len(tokens') = Len(tokens) /\ UNCHANGED resets /\ Goto(q, "issue", loc[q])
  BY <1>5 DEF RefreshRotate, Types, Rows, OnlyRevoked, Goto
<1>7. Fits(q, "issue", loc[q], Len(tokens), Len(resets))
  BY <1>1, <1>2, <1>3, FitsLater
<1> QED BY <1>6, <1>7, ServedOnly

LEMMA LogoutReadTypes ==
  ASSUME Types, UNCHANGED clientVars, NEW q \in Requests, LogoutRead(q)
  PROVE  Types'
<1>1. pc[q] = "sent" /\ loc[q].kind = "logout" /\ pc[q] \in CallStages
  BY DEF LogoutRead, Receive, CallStages
<1>2. Fits(q, "sent", loc[q], Len(tokens), Len(resets))
  BY <1>1, Held
<1>3. Fits(q, "logout", loc[q], Len(tokens), Len(resets))
  BY <1>1, <1>2, FitsLater
<1>4. Rows' /\ Len(tokens') = Len(tokens) /\ UNCHANGED resets
  BY DEF LogoutRead, sessionTables, Types, Rows, Answer, Goto
<1>5. Answer(q, 204) \/ Goto(q, "logout", loc[q])
  BY DEF LogoutRead
<1>6. CASE Answer(q, 204)
  BY <1>1, <1>4, <1>6, AnsweredTypes
<1> QED BY <1>3, <1>4, <1>5, <1>6, ServedOnly

LEMMA LogoutRevokeTypes ==
  ASSUME Types, UNCHANGED clientVars, NEW q \in Requests, LogoutRevoke(q)
  PROVE  Types'
<1>1. pc[q] = "logout" /\ pc[q] \in CallStages
  BY DEF LogoutRevoke, Continue, CallStages
<1>2. loc[q].kind = "logout"
  BY <1>1, Held DEF Fits
<1>3. loc[q].token \in 1..Len(tokens)
  BY <1>1, <1>2, Held
<1>4. OnlyRevoked
  BY <1>3, OneRevoked DEF LogoutRevoke, Types
<1>5. Rows' /\ Len(tokens') = Len(tokens) /\ UNCHANGED resets /\ Answer(q, 204)
  BY <1>4 DEF LogoutRevoke, Types, Rows, OnlyRevoked, Answer, Goto
<1> QED BY <1>1, <1>5, AnsweredTypes

LEMMA LoginReadTypes ==
  ASSUME Types, UNCHANGED clientVars, NEW q \in Requests, LoginRead(q)
  PROVE  Types'
<1>1. pc[q] = "sent" /\ loc[q].kind = "login" /\ pc[q] \in CallStages
  BY DEF LoginRead, Receive, CallStages
<1>2. /\ Fits(q, "sent", loc[q], Len(tokens), Len(resets)) /\ loc[q] \in Body
      /\ loc[q].user \in Accounts
  BY <1>1, Held
<1>3. users[loc[q].user] \in User
  BY <1>2 DEF Types, Rows
<1>4. PICK k : k = [loc[q] EXCEPT !.seen = users[loc[q].user]]
  OBVIOUS
<1>5. /\ k \in Body /\ k.kind = loc[q].kind /\ k.goal = loc[q].goal /\ k.token = loc[q].token
      /\ k.seen \in User
  BY <1>2, <1>3, <1>4, SeenSet
<1>6. Fits(q, "verify", k, Len(tokens), Len(resets))
  BY <1>1, <1>2, <1>5 DEF Fits, CallStages, Admitted, Entries
<1>7. Consumed \in [hits : 0..LoginLimit + 1, ends : Nat]
  <2>1. /\ window \in [hits : 0..LoginLimit + 1, ends : Nat]
        /\ now \in Nat /\ LoginLimit \in Nat /\ LoginTtl \in Nat
    BY SessionsAssumption DEF Types, Rows
  <2>2. CASE now >= window.ends
    BY <2>1, <2>2 DEF Consumed
  <2>3. CASE ~(now >= window.ends)
    <3>1. Consumed = [window EXCEPT !.hits = IF window.hits > LoginLimit THEN window.hits
                                             ELSE window.hits + 1]
      BY <2>3 DEF Consumed
    <3>2. CASE window.hits > LoginLimit
      BY <2>1, <3>1, <3>2
    <3>3. CASE ~(window.hits > LoginLimit)
      BY <2>1, <3>1, <3>3
    <3> QED BY <3>2, <3>3
  <2> QED BY <2>2, <2>3
<1>8. Goto(q, "verify", k) \/ Answer(q, 429) \/ Answer(q, 401)
  BY <1>4 DEF LoginRead, Unauthorized
<1>9. Rows' /\ Len(tokens') = Len(tokens) /\ UNCHANGED resets
  <2>1. UNCHANGED <<now, users, tokens, resets, guesses>> /\ window' = Consumed
    BY <1>8 DEF LoginRead, Answer, Goto
  <2> QED BY <1>7, <2>1 DEF Types, Rows
<1>10. CASE Answer(q, 429) \/ Answer(q, 401)
  BY <1>1, <1>9, <1>10, AnsweredTypes
<1> QED BY <1>6, <1>8, <1>9, <1>10, ServedOnly

LEMMA LoginRejectTypes ==
  ASSUME Types, UNCHANGED clientVars, NEW q \in Requests, LoginReject(q)
  PROVE  Types'
<1>1. pc[q] = "verify" /\ pc[q] \in CallStages /\ Answer(q, 401)
  BY DEF LoginReject, Continue, CallStages, Unauthorized
<1>2. PICK u \in Accounts : u = loc[q].user
  BY <1>1, Held
<1>3. loc[q].seen \in User
  BY <1>1, Held DEF Fits
<1>4. PICK a \in Nat : a = loc[q].seen.failed + 1
  BY <1>3 DEF User
<1>5. users' \in [Accounts -> User]
  BY <1>2, <1>4, AttemptCounted DEF LoginReject, Types
<1>6. guesses' \in [Accounts -> Nat]
  BY <1>2 DEF LoginReject, Types, Rows
<1>7. Rows' /\ Len(tokens') = Len(tokens) /\ UNCHANGED resets
  BY <1>1, <1>5, <1>6 DEF LoginReject, Types, Rows, Answer, Goto
<1> QED BY <1>1, <1>7, AnsweredTypes

LEMMA LoginAcceptTypes ==
  ASSUME Types, UNCHANGED clientVars, NEW q \in Requests, LoginAccept(q)
  PROVE  Types'
<1>1. pc[q] = "verify" /\ pc[q] \in CallStages /\ Goto(q, "issue", loc[q])
  BY DEF LoginAccept, Continue, CallStages
<1>2. Fits(q, "verify", loc[q], Len(tokens), Len(resets)) /\ loc[q].user \in Accounts
  BY <1>1, Held
<1>3. loc[q].kind = "login"
  BY <1>2 DEF Fits
<1>4. users' \in [Accounts -> User]
  BY <1>2, AttemptsForgotten DEF LoginAccept, Types
<1>5. guesses' \in [Accounts -> Nat]
  BY <1>2 DEF LoginAccept, Types, Rows
<1>6. Rows' /\ Len(tokens') = Len(tokens) /\ UNCHANGED resets
  BY <1>1, <1>4, <1>5 DEF LoginAccept, Types, Rows, Goto
<1>7. Fits(q, "issue", loc[q], Len(tokens), Len(resets))
  BY <1>1, <1>2, <1>3, FitsLater DEF Entries
<1> QED BY <1>1, <1>6, <1>7, ServedOnly

LEMMA RegisterTypes ==
  ASSUME Types, UNCHANGED clientVars, NEW q \in Requests, Register(q)
  PROVE  Types'
<1>1. pc[q] = "sent" /\ loc[q].kind = "register" /\ pc[q] \in CallStages
  BY DEF Register, Receive, CallStages
<1>2. /\ Fits(q, "sent", loc[q], Len(tokens), Len(resets))
      /\ loc[q].user \in Accounts /\ loc[q].password \in Passwords
  BY <1>1, Held
<1>3. UNCHANGED <<tokens, resets, window, guesses>> /\ Len(tokens') = Len(tokens)
  BY DEF Register
<1>4. CASE Inserted(loc[q].user, loc[q].password) /\ Goto(q, "issue", loc[q])
  <2>1. users' \in [Accounts -> User]
    BY <1>2, <1>4, UserInserted DEF Types
  <2>2. Rows'
    BY <1>3, <1>4, <2>1 DEF Types, Rows, Goto
  <2>3. Fits(q, "issue", loc[q], Len(tokens), Len(resets))
    BY <1>1, <1>2, FitsLater DEF Entries
  <2> QED BY <1>3, <1>4, <2>2, <2>3, ServedOnly
<1>5. CASE Answer(q, 409) /\ UNCHANGED users
  <2>1. Rows'
    BY <1>3, <1>5 DEF Types, Rows, Answer, Goto
  <2> QED BY <1>1, <1>3, <1>5, <2>1, AnsweredTypes
<1> QED BY <1>4, <1>5 DEF Register

LEMMA ForgotTypes ==
  ASSUME Types, UNCHANGED clientVars, NEW q \in Requests, ForgotPassword(q)
  PROVE  Types'
<1>1. pc[q] = "sent" /\ pc[q] \in CallStages /\ Answer(q, 200)
  BY DEF ForgotPassword, Receive, CallStages
<1>2. /\ Fits(q, "sent", loc[q], Len(tokens), Len(resets)) /\ loc[q].user \in Accounts
  BY <1>1, Held
<1>3. PICK row : row = [user |-> loc[q].user, used |-> FALSE, expires |-> now + ResetTtl]
  OBVIOUS
<1>4. row \in ResetToken
  BY <1>2, <1>3, SessionsAssumption DEF Types, Rows, ResetToken
<1>5. resets' = resets \/ resets' = Append(resets, row)
  BY <1>3 DEF ForgotPassword
<1>6. resets \in Seq(ResetToken) /\ Len(resets) \in Nat
  BY DEF Types, Rows
<1>7. resets' \in Seq(ResetToken) /\ Len(resets) <= Len(resets')
  BY <1>4, <1>5, <1>6
<1>8. Rows' /\ Len(tokens) <= Len(tokens')
  BY <1>1, <1>7 DEF ForgotPassword, Types, Rows, Answer, Goto
<1>9. Fits(q, "answered", [loc[q] EXCEPT !.status = 200], Len(tokens), Len(resets))
  BY <1>1, <1>2, AnswerFits
<1>10. /\ Len(tokens) \in Nat /\ Len(tokens') \in Nat /\ Len(resets') \in Nat
  BY <1>7, <1>8 DEF Types, Rows
<1>11. Fits(q, "answered", [loc[q] EXCEPT !.status = 200], Len(tokens'), Len(resets'))
  BY <1>6, <1>7, <1>8, <1>9, <1>10, FitsGrown
<1> QED BY <1>1, <1>7, <1>8, <1>11, ServedMove DEF Answer

LEMMA CallTypes ==
  ASSUME Types, UNCHANGED clientVars, NEW q \in Requests, Call(q)
  PROVE  Types'
<1>1. pc[q] \in CallStages /\ pc[q] # "answered"
  BY DEF Call, Receive, CallStages
<1>2. Answer(q, 200) \/ Answer(q, 401)
  BY DEF Call, Unauthorized
<1>3. Rows' /\ Len(tokens') = Len(tokens) /\ UNCHANGED resets
  BY <1>2 DEF Call, sessionTables, Types, Rows, Answer, Goto
<1> QED BY <1>1, <1>2, <1>3, AnsweredTypes

LEMMA DoneFits ==
  ASSUME NEW q, NEW n, NEW m
  PROVE  /\ Fits(q, "done", NoLocals, n, m)
         /\ Fits(q, "new", NoLocals, n, m)
BY DEF Fits, CallStages

LEMMA ResetMarked ==
  ASSUME Rows, NEW k \in 1..Len(resets), resets' = [resets EXCEPT ![k].used = TRUE]
  PROVE  resets' \in Seq(ResetToken) /\ Len(resets') = Len(resets)
<1>1. resets \in [1..Len(resets) -> ResetToken] /\ Len(resets) \in Nat
  BY DEF Rows
<1>2. PICK row : row = [resets[k] EXCEPT !.used = TRUE]
  OBVIOUS
<1>3. row \in ResetToken
  BY <1>1, <1>2 DEF ResetToken
<1>4. resets' \in [1..Len(resets) -> ResetToken]
  BY <1>1, <1>2, <1>3
<1> QED BY <1>1, <1>4

LEMMA DirectTypes ==
  ASSUME Types, UNCHANGED clientVars, NEW q \in Requests, ServeDirect(q)
  PROVE  Types'
<1>0. /\ tokens \in Seq(RefreshToken) /\ Len(tokens) \in Nat
      /\ resets \in Seq(ResetToken) /\ Len(resets) \in Nat
  BY DEF Types, Rows
<1>1. CASE CreateUser(q)
  <2>1. users' \in [Accounts -> User]
    BY <1>1, UserInserted DEF CreateUser, Types
  <2>2. Rows' /\ Len(tokens') = Len(tokens) /\ UNCHANGED resets /\ Goto(q, "done", NoLocals)
    BY <1>1, <2>1 DEF CreateUser, Types, Rows, Finish, Goto
  <2> QED BY <2>2, DoneFits, ServedOnly
<1>2. CASE UpdateStatus(q)
  <2>1. PICK u \in Accounts, s \in StatusChoices :
          /\ users' = [users EXCEPT ![u].status = s]
          /\ tokens' = IF s # "ACTIVE" THEN RevokedFor(u) ELSE tokens
    BY <1>2 DEF UpdateStatus
  <2>2. users' \in [Accounts -> User]
    BY <2>1, StatusUpdated, SessionsAssumption DEF Types
  <2>3. OnlyRevoked
    BY <2>1, AllRevoked, NoneRevoked DEF Types
  <2>4. Rows' /\ Len(tokens') = Len(tokens) /\ UNCHANGED resets /\ Goto(q, "done", NoLocals)
    BY <1>2, <2>2, <2>3 DEF UpdateStatus, Types, Rows, OnlyRevoked, Finish, Goto
  <2> QED BY <2>4, DoneFits, ServedOnly
<1>3. CASE ResetRead(q)
  <2>1. PICK r \in 1..Len(resets), p \in Passwords : Goto(q, "reset", [reset |-> r, password |-> p])
    BY <1>0, <1>3 DEF ResetRead
  <2>2. Fits(q, "reset", [reset |-> r, password |-> p], Len(tokens), Len(resets))
    BY DEF Fits, CallStages
  <2>3. Rows' /\ Len(tokens') = Len(tokens) /\ UNCHANGED resets
    BY <1>3, <2>1 DEF ResetRead, sessionTables, Types, Rows, Goto
  <2> QED BY <2>1, <2>2, <2>3, ServedOnly
<1>4. CASE ResetCommit(q)
  <2>1. pc[q] = "reset"
    BY <1>4 DEF ResetCommit, Continue
  <2>2. loc[q] \in [reset : 1..Len(resets), password : Passwords]
    BY <2>1 DEF Types, Bodies, Fits
  <2>3. PICK k \in 1..Len(resets) : k = loc[q].reset
    BY <2>2
  <2>11. resets[k] \in ResetToken
    BY <1>0
  <2>4. PICK u \in Accounts : u = resets[k].user
    BY <2>11 DEF ResetToken
  <2>5. users' = [users EXCEPT ![u].password = loc[q].password] /\ tokens' = RevokedFor(u)
    BY <1>4, <2>3, <2>4 DEF ResetCommit
  <2>6. users' \in [Accounts -> User]
    BY <2>2, <2>5, PasswordUpdated DEF Types
  <2>7. OnlyRevoked
    BY <2>5, AllRevoked DEF Types
  <2>8. resets' \in Seq(ResetToken) /\ Len(resets') = Len(resets)
    BY <1>4, <2>3, ResetMarked DEF ResetCommit, Types
  <2>9. Rows' /\ Goto(q, "done", NoLocals)
    BY <1>4, <2>6, <2>7, <2>8 DEF ResetCommit, Types, Rows, OnlyRevoked, Finish, Goto
  <2>10. Len(tokens) <= Len(tokens') /\ Len(resets) <= Len(resets')
    BY <1>0, <2>7, <2>8 DEF OnlyRevoked
  <2> QED BY <2>9, <2>10, DoneFits, ServedMove
<1> QED BY <1>1, <1>2, <1>3, <1>4 DEF ServeDirect

LEMMA ServeTypes ==
  ASSUME Types, UNCHANGED clientVars, NEW q \in Requests, Serve(q) \/ ServeDirect(q)
  PROVE  Types'
BY IssueTypes, RefreshReadTypes, RefreshBurnTypes, RefreshRotateTypes, LogoutReadTypes,
   LogoutRevokeTypes, LoginReadTypes, LoginRejectTypes, LoginAcceptTypes, RegisterTypes,
   ForgotTypes, CallTypes, DirectTypes DEF Serve

-----------------------------------------------------------------------------
(* A tab keeps types *)

LEMMA TabMove ==
  ASSUME Types, UNCHANGED sessionTables, Pairs', NEW q \in Requests, NEW s, NEW l,
         Goto(q, s, l), Fits(q, s, l, Len(tokens), Len(resets))
  PROVE  Types'
<1>1. Rows'
  BY DEF Types, Rows, sessionTables, Goto
<1>2. UNCHANGED <<tokens, resets>> /\ Len(tokens) \in Nat /\ Len(resets) \in Nat
  BY DEF sessionTables, Types, Rows
<1>3. Control' /\ Bodies'
  <2>1. pc' = [pc EXCEPT ![q] = s] /\ loc' = [loc EXCEPT ![q] = l]
    BY DEF Goto
  <2>2. Len(tokens) <= Len(tokens') /\ Len(resets) <= Len(resets')
    BY <1>2
  <2>3. Fits(q, s, l, Len(tokens'), Len(resets'))
    BY <1>2
  <2> QED BY <1>1, <2>1, <2>2, <2>3, BodyMoves DEF Types
<1> QED BY <1>1, <1>3 DEF Types

LEMMA PairsStay ==
  ASSUME Types, UNCHANGED tokens, UNCHANGED <<local, session>>, signedIn' \in [Tabs -> BOOLEAN]
  PROVE  Pairs'
BY DEF Types, Pairs

LEMMA PairStored ==
  ASSUME Types, UNCHANGED tokens, NEW t \in Tabs, NEW n \in 0..Len(tokens), NEW persist,
         SetTokens(t, n, persist), signedIn' \in [Tabs -> BOOLEAN]
  PROVE  Pairs'
<1>1. 0 \in 0..Len(tokens)
  BY DEF Types, Rows
<1>2. local' \in 0..Len(tokens)
  BY <1>1 DEF SetTokens
<1>3. session' \in [Tabs -> 0..Len(tokens)]
  BY <1>1 DEF SetTokens, Types, Pairs
<1> QED BY <1>2, <1>3 DEF Pairs

LEMMA PairCleared ==
  ASSUME Types, UNCHANGED tokens, NEW t \in Tabs, ClearTokens(t), signedIn' \in [Tabs -> BOOLEAN]
  PROVE  Pairs'
<1>1. 0 \in 0..Len(tokens)
  BY DEF Types, Rows
<1> QED BY <1>1, PairStored DEF ClearTokens

LEMMA ShownTyped ==
  ASSUME Types, NEW t \in Tabs, NEW shown \in BOOLEAN, SignIn(t, shown)
  PROVE  signedIn' \in [Tabs -> BOOLEAN]
BY DEF SignIn, Types, Pairs

LEMMA AbandonPairs ==
  ASSUME Types, UNCHANGED tokens, NEW t \in Tabs, NEW goals, Abandon(t, goals)
  PROVE  Pairs'
<1>1. CASE ClearTokens(t) /\ SignIn(t, FALSE)
  BY <1>1, PairCleared, ShownTyped
<1>2. CASE UNCHANGED clientVars
  BY <1>2, PairsStay DEF clientVars, Types, Pairs
<1> QED BY <1>1, <1>2 DEF Abandon

LEMMA StoredTyped ==
  ASSUME Types, NEW t \in Tabs
  PROVE  Stored(t) \in 0..Len(tokens)
BY DEF Types, Pairs, Stored

\* A request that a tab makes for a page, and retries, and the one it makes to refresh.
Asked(t, goal) == Get(t, goal, TRUE)

AskedOnce(t, goal) == Get(t, goal, FALSE)

LEMMA GetBody ==
  ASSUME Types, NEW t \in Tabs, NEW goal \in Goals,
         NEW l, l = Asked(t, goal) \/ l = AskedOnce(t, goal)
  PROVE  /\ l \in Body /\ l.kind = "call" /\ l.goal = goal /\ l.token = Stored(t)
         /\ Stored(t) \in 0..Len(tokens)
<1>1. Stored(t) \in Nat /\ Stored(t) \in 0..Len(tokens)
  BY StoredTyped DEF Types, Rows
<1>2. PICK u \in Accounts, p \in Passwords :
        u = (CHOOSE v \in Accounts : TRUE) /\ p = (CHOOSE v \in Passwords : TRUE)
  <2>1. (CHOOSE v \in Accounts : TRUE) \in Accounts
    BY SessionsAssumption
  <2>2. (CHOOSE v \in Passwords : TRUE) \in Passwords
    BY SessionsAssumption
  <2> QED BY <2>1, <2>2
<1>3. CASE l = Asked(t, goal)
  <2>1. l = Request("call", goal, u, p, Stored(t), TRUE, FALSE)
    BY <1>2, <1>3 DEF Asked, Get
  <2> QED BY <1>1, <2>1 DEF Request, Body, Kinds
<1>4. CASE l = AskedOnce(t, goal)
  <2>1. l = Request("call", goal, u, p, Stored(t), FALSE, FALSE)
    BY <1>2, <1>4 DEF AskedOnce, Get
  <2> QED BY <1>1, <2>1 DEF Request, Body, Kinds
<1> QED BY <1>3, <1>4

LEMMA PageFits ==
  ASSUME NEW q, q \notin Refreshers, NEW l \in Body, NEW n, NEW m, l.token <= n,
         l.kind \in {"call", "forgot", "logout"}, l.goal # "login",
         l.kind = "logout" => l.token # 0
  PROVE  Fits(q, "sent", l, n, m)
BY DEF Fits, CallStages, Entries

LEMMA StartTypes ==
  ASSUME Types, NEW t \in Tabs, NEW l \in Lanes,
         \/ StartCall(t, l) \/ StartLogin(t, l) \/ StartForgot(t, l)
         \/ StartLogout(t, l) \/ Reload(t, l)
  PROVE  Types'
<1>. DEFINE q == <<t, l>>
<1>0. q \in Requests /\ q \notin Refreshers
  BY Refreshing
<1>1. Len(tokens) \in Nat
  BY DEF Types, Rows
<1>2. UNCHANGED sessionTables /\ UNCHANGED tokens
  BY DEF StartCall, StartLogin, StartForgot, StartLogout, Reload, sessionTables
<1>3. CASE StartCall(t, l)
  <2>1. PICK k : k = Asked(t, "page")
    OBVIOUS
  <2>2. Goto(q, "sent", k) /\ UNCHANGED clientVars
    BY <1>3, <2>1 DEF Asked, StartCall, Send
  <2>3. k \in Body /\ k.kind = "call" /\ k.goal = "page" /\ k.token \in 0..Len(tokens)
    BY <2>1, GetBody DEF Goals
  <2>4. Fits(q, "sent", k, Len(tokens), Len(resets))
    BY <1>0, <1>1, <2>3, PageFits
  <2>5. Pairs'
    BY <1>2, <2>2, PairsStay DEF clientVars, Types, Pairs
  <2> QED BY <1>0, <1>2, <2>2, <2>4, <2>5, TabMove
<1>4. CASE StartLogin(t, l)
  <2>1. PICK kind \in {"login", "register"}, u \in Accounts, p \in Passwords, keep \in Remember :
          Send(q, Request(kind, "login", u, p, 0, TRUE, kind = "register" \/ keep))
    BY <1>4 DEF StartLogin
  <2>2. PICK b \in BOOLEAN : b = (kind = "register" \/ keep)
    BY ApiClientAssumption
  <2>3. PICK k : k = Request(kind, "login", u, p, 0, TRUE, b)
    OBVIOUS
  <2>4. /\ k \in Body /\ k.kind = kind /\ k.goal = "login" /\ k.token = 0
    BY <2>3 DEF Request, Body, Kinds, Goals
  <2>5. Fits(q, "sent", k, Len(tokens), Len(resets))
    BY <1>0, <1>1, <2>4 DEF Fits, CallStages, Entries
  <2>6. Goto(q, "sent", k) /\ UNCHANGED clientVars
    BY <1>4, <2>1, <2>2, <2>3 DEF StartLogin, Send
  <2>7. Pairs'
    BY <1>2, <2>6, PairsStay DEF clientVars, Types, Pairs
  <2> QED BY <1>0, <1>2, <2>5, <2>6, <2>7, TabMove
<1>5. CASE StartForgot(t, l)
  <2>1. PICK u \in Accounts :
          Send(q, [Get(t, "page", TRUE) EXCEPT !.kind = "forgot", !.user = u])
    BY <1>5 DEF StartForgot
  <2>2. PICK g : g = Asked(t, "page")
    OBVIOUS
  <2>3. g \in Body /\ g.goal = "page" /\ g.token \in 0..Len(tokens)
    BY <2>2, GetBody DEF Goals
  <2>4. PICK k : k = [g EXCEPT !.kind = "forgot", !.user = u]
    OBVIOUS
  <2>5. k \in Body /\ k.kind = "forgot" /\ k.goal = "page" /\ k.token \in 0..Len(tokens)
    BY <2>3, <2>4 DEF Body, Kinds
  <2>6. Fits(q, "sent", k, Len(tokens), Len(resets))
    BY <1>0, <1>1, <2>5, PageFits
  <2>7. Goto(q, "sent", k) /\ UNCHANGED clientVars
    BY <1>5, <2>1, <2>2, <2>4 DEF Asked, StartForgot, Send
  <2>8. Pairs'
    BY <1>2, <2>7, PairsStay DEF clientVars, Types, Pairs
  <2> QED BY <1>0, <1>2, <2>6, <2>7, <2>8, TabMove
<1>6. CASE StartLogout(t, l) /\ Stored(t) # 0
  <2>1. PICK g : g = Asked(t, "logout")
    OBVIOUS
  <2>2. g \in Body /\ g.goal = "logout" /\ g.token = Stored(t) /\ Stored(t) \in 0..Len(tokens)
    BY <2>1, GetBody DEF Goals
  <2>3. PICK k : k = [g EXCEPT !.kind = "logout"]
    OBVIOUS
  <2>4. k \in Body /\ k.kind = "logout" /\ k.goal = "logout" /\ k.token = Stored(t)
    BY <2>2, <2>3 DEF Body, Kinds
  <2>5. Fits(q, "sent", k, Len(tokens), Len(resets))
    BY <1>0, <1>1, <1>6, <2>2, <2>4, PageFits
  <2>6. Goto(q, "sent", k) /\ UNCHANGED clientVars
    BY <1>6, <2>1, <2>3 DEF Asked, StartLogout, Send
  <2>7. Pairs'
    BY <1>2, <2>6, PairsStay DEF clientVars, Types, Pairs
  <2> QED BY <1>0, <1>2, <2>5, <2>6, <2>7, TabMove
<1>7. CASE StartLogout(t, l) /\ ~(Stored(t) # 0)
  <2>1. /\ signedIn' = [signedIn EXCEPT ![t] = FALSE]
        /\ UNCHANGED <<runtimeVars, local, session>>
    BY <1>7 DEF StartLogout
  <2>2. Pairs'
    BY <1>2, <2>1, PairsStay DEF Types, Pairs
  <2>3. Rows' /\ Control' /\ Bodies'
    BY <1>2, <2>1 DEF Types, Rows, Control, Bodies, runtimeVars, sessionTables
  <2> QED BY <2>2, <2>3 DEF Types
<1>8. CASE Reload(t, l)
  <2>1. signedIn' = [signedIn EXCEPT ![t] = FALSE] /\ UNCHANGED <<local, session>>
    BY <1>8 DEF Reload
  <2>2. Pairs'
    BY <1>2, <2>1, PairsStay DEF Types, Pairs
  <2>3. CASE UNCHANGED runtimeVars
    <3>1. Rows' /\ Control' /\ Bodies'
      BY <1>2, <2>3 DEF Types, Rows, Control, Bodies, runtimeVars, sessionTables
    <3> QED BY <2>2, <3>1 DEF Types
  <2>4. CASE Send(q, Get(t, "boot", TRUE))
    <3>1. PICK k : k = Asked(t, "boot")
      OBVIOUS
    <3>2. k \in Body /\ k.kind = "call" /\ k.goal = "boot" /\ k.token \in 0..Len(tokens)
      BY <3>1, GetBody DEF Goals
    <3>3. Fits(q, "sent", k, Len(tokens), Len(resets))
      BY <1>0, <1>1, <3>2, PageFits
    <3>4. Goto(q, "sent", k)
      BY <2>4, <3>1 DEF Asked, Send
    <3> QED BY <1>0, <1>2, <2>2, <3>3, <3>4, TabMove
  <2> QED BY <1>8, <2>3, <2>4 DEF Reload
<1> QED BY <1>3, <1>4, <1>5, <1>6, <1>7, <1>8

LEMMA ResolveTypes ==
  ASSUME Types, NEW t \in Tabs, NEW l \in Lanes, Resolve(t, l), UNCHANGED sessionTables
  PROVE  Types'
<1>. DEFINE q == <<t, l>>
<1>0. q \in Requests /\ q \notin Refreshers
  BY Refreshing
<1>1. Len(tokens) \in Nat /\ UNCHANGED tokens
  BY DEF Types, Rows, sessionTables
<1>2. pc[q] \in CallStages /\ loc[q].token \in 0..Len(tokens)
  <2>1. pc[q] \in CallStages
    BY DEF Resolve, CallStages
  <2> QED BY <1>0, <2>1, Held
<1>3. CASE /\ SetTokens(t, loc[q].token, loc[q].keep)
           /\ Send(q, [Get(t, "profile", TRUE) EXCEPT !.token = loc[q].token])
           /\ UNCHANGED signedIn
  <2>1. PICK g : g = Asked(t, "profile")
    OBVIOUS
  <2>2. g \in Body /\ g.kind = "call" /\ g.goal = "profile"
    BY <2>1, GetBody DEF Goals
  <2>3. PICK k : k = [g EXCEPT !.token = loc[q].token]
    OBVIOUS
  <2>4. k \in Body /\ k.kind = "call" /\ k.goal = "profile" /\ k.token = loc[q].token
    BY <1>1, <1>2, <2>2, <2>3 DEF Body
  <2>5. Fits(q, "sent", k, Len(tokens), Len(resets))
    BY <1>0, <1>1, <1>2, <2>4, PageFits
  <2>6. Pairs'
    BY <1>1, <1>2, <1>3, PairStored DEF Types, Pairs
  <2>7. Goto(q, "sent", k)
    BY <1>3, <2>1, <2>3 DEF Asked, Send
  <2> QED BY <1>0, <2>5, <2>6, <2>7, TabMove
<1>4. CASE Ended(q) /\ Pairs'
  BY <1>0, <1>4, DoneFits, TabMove DEF Ended
<1>5. SignIn(t, TRUE) /\ UNCHANGED <<local, session>> => Pairs'
  BY <1>1, ShownTyped, PairsStay
<1>6. SignIn(t, FALSE) /\ ClearTokens(t) => Pairs'
  BY <1>1, ShownTyped, PairCleared
<1>7. UNCHANGED clientVars => Pairs'
  BY <1>1, PairsStay DEF clientVars, Types, Pairs
<1> QED BY <1>3, <1>4, <1>5, <1>6, <1>7 DEF Resolve

LEMMA EndTypes ==
  ASSUME Types, NEW t \in Tabs, NEW l \in Lanes, Reject(t, l) \/ CallLost(t, l),
         UNCHANGED sessionTables
  PROVE  Types'
<1>1. <<t, l>> \in Requests /\ UNCHANGED tokens
  BY Refreshing DEF sessionTables
<1>2. Pairs'
  BY <1>1, AbandonPairs DEF Reject, CallLost
<1>3. Goto(<<t, l>>, "new", NoLocals)
  BY DEF Reject, CallLost, Ended
<1> QED BY <1>1, <1>2, <1>3, DoneFits, TabMove

LEMMA AwaitTypes ==
  ASSUME Types, NEW t \in Tabs, NEW l \in Lanes, AwaitRefresh(t, l), UNCHANGED sessionTables
  PROVE  Types'
<1>. DEFINE q == <<t, l>>
            r == Refresher(t)
<1>0. q \in Requests /\ q \notin Refreshers /\ r \in Requests /\ r \in Refreshers /\ q # r
  BY Refreshing
<1>1. Rows' /\ Pairs' /\ UNCHANGED <<tokens, resets>> /\ Len(tokens) \in Nat
  BY DEF AwaitRefresh, sessionTables, clientVars, Types, Rows, Pairs
<1>2. pc[q] = "answered" /\ Stored(t) # 0 /\ loc[q].status = 401
  BY DEF AwaitRefresh, Retriable
<1>3. Fits(q, "waiting", loc[q], Len(tokens), Len(resets))
  <2>1. Fits(q, "answered", loc[q], Len(tokens), Len(resets))
    BY <1>0, <1>2 DEF Types, Bodies
  <2> QED BY <1>2, <2>1 DEF Fits, CallStages, Admitted
<1>4. CASE pc[r] = "new"
  <2>1. PICK g : g = AskedOnce(t, "refresh")
    OBVIOUS
  <2>2. g \in Body /\ g.goal = "refresh" /\ g.token = Stored(t) /\ Stored(t) \in 0..Len(tokens)
    BY <2>1, GetBody DEF Goals
  <2>3. PICK k : k = [g EXCEPT !.kind = "refresh"]
    OBVIOUS
  <2>4. k \in Body /\ k.kind = "refresh" /\ k.goal = "refresh" /\ k.token = Stored(t)
    BY <2>2, <2>3 DEF Body, Kinds
  <2>5. Fits(r, "sent", k, Len(tokens), Len(resets))
    BY <1>0, <1>1, <1>2, <2>2, <2>4 DEF Fits, CallStages, Entries
  <2>6. pc' = [pc EXCEPT ![q] = "waiting", ![r] = "sent"] /\ loc' = [loc EXCEPT ![r] = k]
    BY <1>4, <2>1, <2>3 DEF AskedOnce, AwaitRefresh
  <2>7. Control'
    BY <1>0, <2>6 DEF Types, Control
  <2>8. /\ pc'[q] = "waiting" /\ loc'[q] = loc[q] /\ pc'[r] = "sent" /\ loc'[r] = k
        /\ \A p \in Requests : p # q /\ p # r => pc'[p] = pc[p] /\ loc'[p] = loc[p]
    BY <1>0, <2>6 DEF Types, Control
  <2>9. ASSUME NEW p \in Requests
        PROVE  Fits(p, pc'[p], loc'[p], Len(tokens), Len(resets))
    <3>1. CASE p = q
      BY <1>3, <2>8, <3>1
    <3>2. CASE p = r
      BY <2>5, <2>8, <3>2
    <3>3. CASE p # q /\ p # r
      BY <2>8, <3>3 DEF Types, Bodies
    <3> QED BY <3>1, <3>2, <3>3
  <2> QED BY <1>1, <2>7, <2>9 DEF Types, Bodies
<1>5. CASE pc[r] # "new"
  <2>1. pc' = [pc EXCEPT ![q] = "waiting"] /\ loc' = loc
    BY <1>5 DEF AwaitRefresh
  <2>2. Control'
    BY <1>0, <2>1 DEF Types, Control
  <2>3. ASSUME NEW p \in Requests
        PROVE  Fits(p, pc'[p], loc'[p], Len(tokens), Len(resets))
    <3>1. CASE p = q
      BY <1>3, <2>1, <3>1 DEF Types, Control
    <3>2. CASE p # q
      BY <2>1, <3>2 DEF Types, Control, Bodies
    <3> QED BY <3>1, <3>2
  <2> QED BY <1>1, <2>2, <2>3 DEF Types, Bodies
<1> QED BY <1>4, <1>5

\* The refresh ends: its waiters go on to a stage with bodies that fit it.
LEMMA SettleTypes ==
  ASSUME Types, Pairs', UNCHANGED sessionTables, UNCHANGED now, NEW t \in Tabs,
         NEW stage, NEW locals,
         pc' = [q \in Requests |-> IF q = Refresher(t) THEN "new"
                                   ELSE IF q \in Waiters(t) THEN stage ELSE pc[q]],
         loc' = [q \in Requests |-> IF q = Refresher(t) THEN NoLocals
                                    ELSE IF q \in Waiters(t) THEN locals[q] ELSE loc[q]],
         \A q \in Waiters(t) : Fits(q, stage, locals[q], Len(tokens), Len(resets))
  PROVE  Types'
<1>1. Rows' /\ Control' /\ UNCHANGED <<tokens, resets>>
  BY DEF sessionTables, Types, Rows, Control
<1>2. ASSUME NEW p \in Requests
      PROVE  Fits(p, pc'[p], loc'[p], Len(tokens), Len(resets))
  <2>1. CASE p = Refresher(t)
    BY <2>1, DoneFits
  <2>2. CASE p # Refresher(t) /\ p \in Waiters(t)
    BY <2>2
  <2>3. CASE p # Refresher(t) /\ p \notin Waiters(t)
    BY <2>3 DEF Types, Bodies
  <2> QED BY <2>1, <2>2, <2>3
<1> QED BY <1>1, <1>2 DEF Types, Bodies

LEMMA RefreshEndTypes ==
  ASSUME Types, NEW t \in Tabs, RefreshRefused(t) \/ RefreshLost(t), UNCHANGED sessionTables
  PROVE  Types'
<1>1. UNCHANGED tokens /\ UNCHANGED now
  BY DEF sessionTables, RefreshRefused, RefreshLost, Settle
<1>2. Pairs'
  <2>1. CASE RefreshRefused(t)
    <3>1. ClearTokens(t) /\ (SignIn(t, FALSE) \/ UNCHANGED signedIn)
      BY <2>1 DEF RefreshRefused
    <3>2. signedIn' \in [Tabs -> BOOLEAN]
      BY <3>1, ShownTyped DEF Types, Pairs
    <3> QED BY <1>1, <3>1, <3>2, PairCleared
  <2>2. CASE RefreshLost(t)
    BY <1>1, <2>2, AbandonPairs DEF RefreshLost
  <2> QED BY <2>1, <2>2
<1>3. PICK locals : locals = [q \in Waiters(t) |-> NoLocals]
  OBVIOUS
<1>4. /\ pc' = [q \in Requests |-> IF q = Refresher(t) THEN "new"
                                   ELSE IF q \in Waiters(t) THEN "new" ELSE pc[q]]
      /\ loc' = [q \in Requests |-> IF q = Refresher(t) THEN NoLocals
                                    ELSE IF q \in Waiters(t) THEN NoLocals ELSE loc[q]]
  BY DEF RefreshRefused, RefreshLost, Settle
<1>5. loc' = [q \in Requests |-> IF q = Refresher(t) THEN NoLocals
                                 ELSE IF q \in Waiters(t) THEN locals[q] ELSE loc[q]]
  BY <1>3, <1>4
<1>6. \A q \in Waiters(t) : Fits(q, "new", locals[q], Len(tokens), Len(resets))
  BY <1>3, DoneFits
<1> QED BY <1>1, <1>2, <1>4, <1>5, <1>6, SettleTypes

\* The body of a call that is sent again.
Resent(l, n) ==
  IF l.kind = "call" THEN [l EXCEPT !.token = n, !.retry = FALSE] ELSE [l EXCEPT !.retry = FALSE]

LEMMA ResentBody ==
  ASSUME NEW l \in Body, NEW n \in Nat, NEW k, k = Resent(l, n)
  PROVE  /\ k \in Body /\ k.kind = l.kind /\ k.goal = l.goal /\ k.status = l.status
         /\ l.kind = "call" => k.token = n
         /\ l.kind # "call" => k.token = l.token
<1>1. CASE l.kind = "call"
  <2>1. k = [l EXCEPT !.token = n, !.retry = FALSE]
    BY <1>1 DEF Resent
  <2> QED BY <1>1, <2>1 DEF Body
<1>2. CASE l.kind # "call"
  <2>1. k = [l EXCEPT !.retry = FALSE]
    BY <1>2 DEF Resent
  <2> QED BY <1>2, <2>1 DEF Body
<1> QED BY <1>1, <1>2

LEMMA RefreshedSettles ==
  ASSUME NEW t \in Tabs, Refreshed(t), NEW locals,
         locals = [q \in Waiters(t) |-> Resent(loc[q], loc[Refresher(t)].token)]
  PROVE  /\ pc' = [q \in Requests |-> IF q = Refresher(t) THEN "new"
                                      ELSE IF q \in Waiters(t) THEN "sent" ELSE pc[q]]
         /\ loc' = [q \in Requests |-> IF q = Refresher(t) THEN NoLocals
                                       ELSE IF q \in Waiters(t) THEN locals[q] ELSE loc[q]]
<1>1. /\ pc' = [q \in Requests |-> IF q = Refresher(t) THEN "new"
                                   ELSE IF q \in Waiters(t) THEN "sent" ELSE pc[q]]
      /\ loc' = [q \in Requests |-> IF q = Refresher(t) THEN NoLocals
                                    ELSE IF q \in Waiters(t)
                                    THEN Resent(loc[q], loc[Refresher(t)].token) ELSE loc[q]]
  BY DEF Refreshed, Settle, Resent
<1>2. \A q \in Waiters(t) : locals[q] = Resent(loc[q], loc[Refresher(t)].token)
  OBVIOUS
<1> QED BY <1>1, <1>2

LEMMA RefreshedTypes ==
  ASSUME Types, NEW t \in Tabs, Refreshed(t), UNCHANGED sessionTables
  PROVE  Types'
<1>. DEFINE r == Refresher(t)
<1>7. UNCHANGED now
  BY DEF Refreshed, Settle
<1>0. r \in Requests /\ UNCHANGED tokens /\ UNCHANGED now /\ Len(tokens) \in Nat
  BY <1>7, Refreshing DEF sessionTables, Types, Rows
<1>1. pc[r] \in CallStages
  BY DEF Refreshed, CallStages
<1>2. PICK n \in 0..Len(tokens) : n = loc[r].token
  BY <1>0, <1>1, Held
<1>3. Pairs'
  <2>1. SetTokens(t, n, local # 0) /\ UNCHANGED signedIn
    BY <1>2 DEF Refreshed, StoreRefreshed
  <2> QED BY <1>0, <2>1, PairStored DEF Types, Pairs
<1>4. PICK locals : locals = [q \in Waiters(t) |-> Resent(loc[q], loc[Refresher(t)].token)]
  OBVIOUS
<1>5. ASSUME NEW q \in Waiters(t)
      PROVE  Fits(q, "sent", locals[q], Len(tokens), Len(resets))
  <2>1. q \in Requests /\ pc[q] = "waiting" /\ q \notin Refreshers
    BY TabRequests DEF Waiters
  <2>2. /\ Fits(q, "waiting", loc[q], Len(tokens), Len(resets))
        /\ loc[q] \in Body /\ loc[q].token \in 0..Len(tokens)
    BY <2>1, Held DEF CallStages
  <2>3. PICK k : k = Resent(loc[q], n)
    OBVIOUS
  <2>4. /\ k \in Body /\ k.kind = loc[q].kind /\ k.goal = loc[q].goal
        /\ k.kind = "call" => k.token = n
        /\ k.kind # "call" => k.token = loc[q].token
    BY <1>0, <2>2, <2>3, ResentBody
  <2>5. Fits(q, "sent", k, Len(tokens), Len(resets))
    BY <1>0, <2>2, <2>4 DEF Fits, CallStages, Admitted, Entries
  <2> QED BY <1>2, <1>4, <2>3, <2>5
<1>6. /\ pc' = [q \in Requests |-> IF q = Refresher(t) THEN "new"
                                   ELSE IF q \in Waiters(t) THEN "sent" ELSE pc[q]]
      /\ loc' = [q \in Requests |-> IF q = Refresher(t) THEN NoLocals
                                    ELSE IF q \in Waiters(t) THEN locals[q] ELSE loc[q]]
  BY <1>4, RefreshedSettles
<1> QED BY <1>0, <1>3, <1>5, <1>6, SettleTypes

LEMMA InitTypes ==
  ASSUME Init
  PROVE  Types
<1>1. Control /\ \A q \in Requests : pc[q] = "new"
  BY DEF Init, RuntimeInit, Control
<1>2. (CHOOSE p \in Passwords : TRUE) \in Passwords
  BY SessionsAssumption
<1>3. users \in [Accounts -> User]
  BY <1>2 DEF Init, SessionsInit, User
<1>4. Len(tokens) = 0 /\ tokens \in Seq(RefreshToken) /\ resets \in Seq(ResetToken)
  BY DEF Init, SessionsInit
<1>5. Rows
  BY <1>3, <1>4, SessionsAssumption DEF Rows, Init, SessionsInit, RuntimeInit
<1>6. Pairs
  BY <1>4 DEF Pairs, Init, ClientInit
<1>7. Bodies
  BY <1>1 DEF Bodies, Fits, CallStages
<1> QED BY <1>1, <1>5, <1>6, <1>7 DEF Types

LEMMA NextTypes ==
  ASSUME Types, [Next]_vars
  PROVE  Types'
<1>1. ASSUME NEW q \in Requests, Serve(q) \/ ServeDirect(q), UNCHANGED clientVars
      PROVE  Types'
  BY <1>1, ServeTypes
<1>2. ASSUME NEW t \in Tabs, NEW l \in Lanes,
             \/ StartCall(t, l) \/ StartLogin(t, l) \/ StartForgot(t, l)
             \/ StartLogout(t, l) \/ Reload(t, l)
      PROVE  Types'
  BY <1>2, StartTypes
<1>3. ASSUME NEW t \in Tabs, NEW l \in Lanes,
             Resolve(t, l) \/ Reject(t, l) \/ AwaitRefresh(t, l) \/ CallLost(t, l),
             UNCHANGED sessionTables
      PROVE  Types'
  BY <1>3, ResolveTypes, EndTypes, AwaitTypes
<1>4. ASSUME NEW t \in Tabs, Refreshed(t) \/ RefreshRefused(t) \/ RefreshLost(t),
             UNCHANGED sessionTables
      PROVE  Types'
  BY <1>4, RefreshedTypes, RefreshEndTypes
<1>5. CASE Tick /\ UNCHANGED <<sessionTables, clientVars>>
  BY <1>5, TypesStay DEF Tick
<1>6. CASE UNCHANGED vars
  BY <1>6, TypesStay DEF vars, runtimeVars
<1> QED BY <1>1, <1>2, <1>3, <1>4, <1>5, <1>6 DEF Next, Receives, ReceivesRefresh, Network

\* Rows have their types, and everything stored or sent names a token that was issued
\* (client.ts:16, auth.service.ts:366).
THEOREM TypeCorrect == Spec => []TypeOK
<1>1. Init => Types
  BY InitTypes
<1>2. Types /\ [Next]_vars => Types'
  BY NextTypes
<1>3. Types => TypeOK
  <2> SUFFICES ASSUME Types PROVE TypeOK
    OBVIOUS
  <2>1. ASSUME NEW q \in Requests, pc[q] = "sent", loc[q].kind \in {"refresh", "logout"}
        PROVE  loc[q].token \in DOMAIN tokens
    BY <2>1, Held DEF CallStages, Types, Rows
  <2> QED BY <2>1 DEF TypeOK, Types, Rows, Pairs
<1> QED BY <1>1, <1>2, <1>3, PTL DEF Spec

-----------------------------------------------------------------------------
(* One request served at a time *)

LEMMA Quotient ==
  ASSUME NEW n \in Nat, NEW d \in Nat \ {0}
  PROVE  /\ n \div d \in Nat
         /\ d * (n \div d) <= n
         /\ n < d * (n \div d) + d
  OBVIOUS

LEMMA QuotientOrdered ==
  ASSUME NEW m \in Nat, NEW n \in Nat, NEW d \in Nat \ {0}, m <= n
  PROVE  m \div d <= n \div d
<1>1. PICK i \in Nat, j \in Nat : i = m \div d /\ j = n \div d
  BY Quotient
<1>2. d * i <= m /\ n < d * j + d
  BY <1>1, Quotient
<1>3. d * i < d * (j + 1)
  BY <1>2
<1>4. i < j + 1
  BY <1>3
<1> QED BY <1>1, <1>4

LEMMA QuotientOfNext ==
  ASSUME NEW n \in Nat, NEW d \in Nat \ {0}
  PROVE  (n + d) \div d = (n \div d) + 1
<1>1. PICK i \in Nat, j \in Nat : i = n \div d /\ j = (n + d) \div d
  BY Quotient
<1>2. d * i <= n /\ n < d * i + d
  BY <1>1, Quotient
<1>3. d * j <= n + d /\ n + d < d * j + d
  BY <1>1, Quotient
<1>4. d * (i + 1) < d * (j + 1)
  BY <1>2, <1>3
<1>5. d * j < d * (i + 2)
  BY <1>2, <1>3
<1>6. i + 1 < j + 1
  BY <1>4
<1>7. j < i + 2
  BY <1>5
<1> QED BY <1>1, <1>6, <1>7

Idling == {"new", "sent", "waiting", "answered", "done"}

\* Nothing the back end has at hand is touched: what a tab does.
LEMMA ServedKept ==
  ASSUME Served, UNCHANGED <<now, sessionTables>>,
         \A p \in Requests : (pc'[p] = pc[p] /\ loc'[p] = loc[p]) \/ pc'[p] \in Idling
  PROVE  Served'
<1>1. UNCHANGED <<users, tokens, guesses, now>>
  BY DEF sessionTables
<1>2. \A p \in Requests : pc'[p] \notin Idling => pc[p] = pc'[p] /\ loc'[p] = loc[p]
  OBVIOUS
<1>3. OneServed'
  <2>1. \A p \in Serving' : p \in Serving
    BY <1>2 DEF Serving, Idling
  <2> QED BY <2>1 DEF Served, OneServed
<1>4. ASSUME NEW q \in Requests
      PROVE  Current(q)'
  <2>1. CASE pc'[q] \in Idling
    BY <2>1 DEF Current, Idling
  <2>2. CASE pc'[q] \notin Idling
    <3>1. pc'[q] = pc[q] /\ loc'[q] = loc[q]
      BY <1>2, <2>2
    <3>2. Current(q)
      BY DEF Served
    <3> QED BY <1>1, <3>1, <3>2 DEF Current, Active
  <2> QED BY <2>1, <2>2
<1>5. LiveTokensEntitled' /\ \A u \in Accounts : Paced(u)'
  BY <1>1 DEF Served, LiveTokensEntitled, Active, Paced
<1> QED BY <1>3, <1>4, <1>5 DEF Served

\* Only the clock moves.
LEMMA ServedTick ==
  ASSUME Types, Served, Tick, UNCHANGED sessionTables
  PROVE  Served'
<1>1. now' = now + 1 /\ now \in Nat /\ UNCHANGED <<pc, loc, users, tokens, guesses>>
  BY DEF Tick, Types, Rows, sessionTables
<1>2. OneServed'
  BY <1>1 DEF Served, OneServed, Serving
<1>3. ASSUME NEW q \in Requests
      PROVE  Current(q)'
  <2>1. Current(q)
    BY DEF Served
  <2>2. pc[q] = "verify" => loc[q].seen.lockedUntil <= now'
    <3> SUFFICES ASSUME pc[q] = "verify" PROVE loc[q].seen.lockedUntil <= now'
      OBVIOUS
    <3>1. loc[q].seen \in User
      BY Held DEF CallStages, Fits
    <3>2. loc[q].seen.lockedUntil \in Nat
      BY <3>1 DEF User
    <3> QED BY <1>1, <2>1, <3>2 DEF Current
  <2> QED BY <1>1, <2>1, <2>2 DEF Current, Active
<1>4. LiveTokensEntitled'
  BY <1>1 DEF Served, LiveTokensEntitled, Active
<1>5. ASSUME NEW u \in Accounts
      PROVE  Paced(u)'
  <2>1. Paced(u) /\ users[u] \in User /\ LockTtl \in Nat
    BY SessionsAssumption DEF Served, Types, Rows
  <2> QED BY <1>1, <2>1 DEF Paced, User
<1> QED BY <1>2, <1>3, <1>4, <1>5 DEF Served

\* With one request served at a time, a step is of the one that was being served.
LEMMA ServedAlone ==
  ASSUME IsFiniteSet(Requests), Concurrency = 1, OneServed, NEW q \in Requests, CanServe(q)
  PROVE  \A p \in Requests : p # q => pc[p] \in Idling
<1>1. CASE q \in Serving
  BY <1>1 DEF OneServed, Serving, Idling
<1>2. CASE Cardinality(Serving) < 1
  <2>1. IsFiniteSet(Serving)
    BY FS_Subset DEF Serving
  <2>2. Cardinality(Serving) = 0
    BY <1>2, <2>1, FS_CardinalityType
  <2>3. Serving = {}
    BY <2>1, <2>2, FS_EmptySet
  <2> QED BY <2>3 DEF Serving, Idling
<1> QED BY <1>1, <1>2 DEF CanServe

LEMMA ServedStep ==
  ASSUME IsFiniteSet(Requests), Concurrency = 1, Types, Served, NEW q \in Requests, CanServe(q),
         NEW s, NEW l, Goto(q, s, l), Current(q)', LiveTokensEntitled',
         \A u \in Accounts : Paced(u)'
  PROVE  Served'
<1>1. \A p \in Requests : p # q => pc[p] \in Idling
  BY ServedAlone DEF Served
<1>2. \A p \in Requests : p # q => pc'[p] \in Idling
  BY <1>1 DEF Goto, Types, Control
<1>3. OneServed'
  BY <1>2 DEF OneServed, Serving, Idling
<1>4. ASSUME NEW p \in Requests, p # q
      PROVE  Current(p)'
  BY <1>2, <1>4 DEF Current, Idling
<1> QED BY <1>3, <1>4 DEF Served

\* Where the step leaves the request.
LEMMA At ==
  ASSUME Types, NEW q \in Requests, NEW s, NEW l, Goto(q, s, l)
  PROVE  pc'[q] = s /\ loc'[q] = l
BY DEF Goto, Types, Control

\* Tokens that are still live are of users who are as they were, or active again.
LEMMA EntitledKept ==
  ASSUME Types, LiveTokensEntitled, OnlyRevoked,
         \A n \in DOMAIN tokens : ~tokens'[n].revoked =>
            LET u == tokens[n].user
            IN users'[u].password = users[u].password /\ (Active(u) => users'[u].status = "ACTIVE")
  PROVE  LiveTokensEntitled'
<1>1. DOMAIN tokens' = DOMAIN tokens
  BY DEF OnlyRevoked, Types, Rows
<1>2. ASSUME NEW n \in DOMAIN tokens, ~tokens'[n].revoked
      PROVE  /\ users'[tokens'[n].user].status = "ACTIVE"
             /\ tokens'[n].secret = users'[tokens'[n].user].password
  <2>1. ~tokens[n].revoked /\ tokens'[n].user = tokens[n].user /\ tokens'[n].secret = tokens[n].secret
    BY <1>2 DEF OnlyRevoked
  <2>2. Active(tokens[n].user) /\ tokens[n].secret = users[tokens[n].user].password
    BY <2>1 DEF LiveTokensEntitled
  <2> QED BY <1>2, <2>1, <2>2
<1> QED BY <1>1, <1>2 DEF LiveTokensEntitled, Active

LEMMA PacedKept ==
  ASSUME Types, Served, UNCHANGED <<guesses, now>>,
         \A u \in Accounts : /\ users'[u].failed = users[u].failed
                             /\ users'[u].lockedUntil = users[u].lockedUntil
  PROVE  \A u \in Accounts : Paced(u)'
BY DEF Served, Paced

\* Nothing but the request moves.
LEMMA ServedReads ==
  ASSUME IsFiniteSet(Requests), Concurrency = 1, Types, Served, NEW q \in Requests, CanServe(q),
         NEW s, NEW l, Goto(q, s, l), UNCHANGED <<users, tokens, guesses>>, Current(q)'
  PROVE  Served'
<1>1. LiveTokensEntitled' /\ \A u \in Accounts : Paced(u)'
  BY DEF Served, LiveTokensEntitled, Active, Paced, Goto
<1> QED BY <1>1, ServedStep

LEMMA ServedAnswer ==
  ASSUME IsFiniteSet(Requests), Concurrency = 1, Types, Served, NEW q \in Requests, CanServe(q),
         NEW c, Answer(q, c), LiveTokensEntitled', \A u \in Accounts : Paced(u)'
  PROVE  Served'
<1>1. PICK l : Goto(q, "answered", l)
  BY DEF Answer
<1>2. pc'[q] = "answered"
  BY <1>1, At
<1>3. Current(q)'
  BY <1>2 DEF Current
<1> QED BY <1>1, <1>3, ServedStep

LEMMA Owners ==
  ASSUME Types
  PROVE  \A n \in DOMAIN tokens : tokens[n].user \in Accounts
<1>1. \A n \in DOMAIN tokens : tokens[n] \in RefreshToken
  BY DEF Types, Rows
<1> QED BY <1>1 DEF RefreshToken

Lone == IsFiniteSet(Requests) /\ Concurrency = 1

LEMMA IssueServed ==
  ASSUME Lone, Types, Served, NEW q \in Requests, Issue(q)
  PROVE  Served'
<1>1. pc[q] = "issue" /\ CanServe(q) /\ UNCHANGED <<users, guesses, now>>
  BY DEF Issue, Continue, Goto
<1>2. Active(loc[q].user) /\ loc[q].password = users[loc[q].user].password
  BY <1>1 DEF Served, Current
<1>3. PICK row : row = [user |-> loc[q].user, revoked |-> FALSE, expires |-> now + RefreshTtl,
                        issued |-> now, parent |-> loc[q].token, secret |-> loc[q].password]
  OBVIOUS
<1>4. tokens' = Append(tokens, row) /\ row.user = loc[q].user /\ row.secret = loc[q].password
  BY <1>3 DEF Issue
<1>5. tokens \in Seq(RefreshToken) /\ Len(tokens) \in Nat /\ DOMAIN tokens = 1..Len(tokens)
  BY DEF Types, Rows
<1>6. /\ DOMAIN tokens' = 1..Len(tokens) + 1
      /\ tokens'[Len(tokens) + 1] = row
      /\ \A n \in 1..Len(tokens) : tokens'[n] = tokens[n]
  BY <1>4, <1>5
<1>7. ASSUME NEW n \in DOMAIN tokens', ~tokens'[n].revoked
      PROVE  /\ users[tokens'[n].user].status = "ACTIVE"
             /\ tokens'[n].secret = users[tokens'[n].user].password
  <2>1. CASE n = Len(tokens) + 1
    BY <1>2, <1>4, <1>6, <2>1 DEF Active
  <2>2. CASE n # Len(tokens) + 1
    <3>1. n \in DOMAIN tokens
      BY <1>5, <1>6, <2>2
    <3>2. tokens'[n] = tokens[n]
      BY <1>5, <1>6, <3>1
    <3> QED BY <1>7, <3>1, <3>2 DEF Served, LiveTokensEntitled, Active
  <2> QED BY <2>1, <2>2
<1>8. LiveTokensEntitled'
  BY <1>1, <1>7 DEF LiveTokensEntitled, Active
<1>9. \A u \in Accounts : Paced(u)'
  BY <1>1, PacedKept
<1>10. PICK l : Goto(q, "answered", l)
  BY DEF Issue
<1>11. Current(q)'
  <2>1. pc'[q] = "answered"
    BY <1>10, At
  <2> QED BY <2>1 DEF Current
<1> QED BY <1>1, <1>8, <1>9, <1>10, <1>11, ServedStep DEF Lone

LEMMA RefreshReadServed ==
  ASSUME Lone, Types, Served, NEW q \in Requests, RefreshRead(q)
  PROVE  Served'
<1>1. CanServe(q) /\ pc[q] = "sent" /\ loc[q].kind = "refresh"
      /\ UNCHANGED <<users, tokens, guesses>>
  BY DEF RefreshRead, Receive, sessionTables
<1>2. loc[q] \in Body /\ tokens[loc[q].token] \in RefreshToken
  BY <1>1, Held DEF CallStages
<1>3. PICK row \in RefreshToken : row = tokens[loc[q].token]
  BY <1>2
<1>4. PICK k : k = [loc[q] EXCEPT !.user = row.user, !.password = row.secret]
  OBVIOUS
<1>5. k.user = row.user /\ k.password = row.secret /\ k.token = loc[q].token
  BY <1>2, <1>3, <1>4 DEF Body, RefreshToken
<1>6. \/ Goto(q, "burn", k)
      \/ Unauthorized(q)
      \/ ~row.revoked /\ Goto(q, "rotate", k)
  BY <1>3, <1>4 DEF RefreshRead
<1>7. CASE Goto(q, "burn", k)
  <2>1. Current(q)'
    BY <1>7, At DEF Current
  <2> QED BY <1>1, <1>7, <2>1, ServedReads DEF Lone
<1>8. CASE Unauthorized(q)
  <2>1. PICK l : Goto(q, "answered", l)
    BY <1>8 DEF Unauthorized, Answer
  <2>2. Current(q)'
    BY <2>1, At DEF Current
  <2> QED BY <1>1, <2>1, <2>2, ServedReads DEF Lone
<1>9. CASE ~row.revoked /\ Goto(q, "rotate", k)
  <2>1. pc'[q] = "rotate" /\ loc'[q] = k
    BY <1>9, At
  <2>2. Current(q)'
    BY <1>1, <1>3, <1>5, <1>9, <2>1 DEF Current
  <2> QED BY <1>1, <1>9, <2>2, ServedReads DEF Lone
<1> QED BY <1>6, <1>7, <1>8, <1>9

LEMMA RefreshWritesServed ==
  ASSUME Lone, Types, Served, NEW q \in Requests, RefreshBurn(q) \/ RefreshRotate(q) \/ LogoutRevoke(q)
  PROVE  Served'
<1>1. UNCHANGED <<users, guesses, now>> /\ CanServe(q)
  BY DEF RefreshBurn, RefreshRotate, LogoutRevoke, Continue, Unauthorized, Answer, Goto
<1>2. \A u \in Accounts : Paced(u)'
  BY <1>1, PacedKept
<1>3. pc[q] \in {"burn", "rotate", "logout"} /\ pc[q] \in CallStages
  BY DEF RefreshBurn, RefreshRotate, LogoutRevoke, Continue, CallStages
<1>4. loc[q].token \in 1..Len(tokens)
  <2>1. Fits(q, pc[q], loc[q], Len(tokens), Len(resets))
    BY <1>3, Held
  <2>2. loc[q].kind \in {"refresh", "logout"}
    BY <1>3, <2>1 DEF Fits
  <2> QED BY <1>3, <2>2, Held
<1>5. OnlyRevoked
  BY <1>4, OneRevoked, AllRevoked DEF RefreshBurn, RefreshRotate, LogoutRevoke, Types
<1>6. LiveTokensEntitled'
  BY <1>1, <1>5, EntitledKept DEF Served, Active
<1>7. CASE RefreshBurn(q) \/ LogoutRevoke(q)
  <2>1. Answer(q, 401) \/ Answer(q, 204)
    BY <1>7 DEF RefreshBurn, LogoutRevoke, Unauthorized
  <2> QED BY <1>1, <1>2, <1>6, <2>1, ServedAnswer DEF Lone
<1>8. CASE RefreshRotate(q)
  <2>1. Goto(q, "issue", loc[q]) /\ pc[q] = "rotate"
    BY <1>8 DEF RefreshRotate, Continue
  <2>2. PICK n \in DOMAIN tokens : n = loc[q].token
    BY <1>4 DEF Types, Rows
  <2>3. ~tokens[n].revoked /\ loc[q].user = tokens[n].user /\ loc[q].password = tokens[n].secret
    BY <2>1, <2>2 DEF Served, Current
  <2>4. Active(loc[q].user) /\ loc[q].password = users[loc[q].user].password
    BY <2>3 DEF Served, LiveTokensEntitled
  <2>5. pc'[q] = "issue" /\ loc'[q] = loc[q]
    BY <2>1, At
  <2>6. Current(q)'
    BY <1>1, <2>4, <2>5 DEF Current, Active
  <2> QED BY <1>1, <1>2, <1>6, <2>1, <2>6, ServedStep DEF Lone
<1> QED BY <1>7, <1>8

LEMMA ReadsServed ==
  ASSUME Lone, Types, Served, NEW q \in Requests, LogoutRead(q) \/ ForgotPassword(q) \/ Call(q)
  PROVE  Served'
<1>1. UNCHANGED <<users, tokens, guesses>> /\ CanServe(q)
  BY DEF LogoutRead, ForgotPassword, Call, Receive, sessionTables
<1>2. PICK s \in {"answered", "logout"} : \E l : Goto(q, s, l)
  BY DEF LogoutRead, ForgotPassword, Call, Unauthorized, Answer
<1>3. PICK l : Goto(q, s, l)
  BY <1>2
<1>4. Current(q)'
  BY <1>3, At DEF Current
<1> QED BY <1>1, <1>3, <1>4, ServedReads DEF Lone

LEMMA LoginReadServed ==
  ASSUME Lone, Types, Served, NEW q \in Requests, LoginRead(q)
  PROVE  Served'
<1>1. CanServe(q) /\ pc[q] = "sent" /\ UNCHANGED <<users, tokens, guesses>>
  BY DEF LoginRead, Receive
<1>2. loc[q] \in Body /\ loc[q].user \in Accounts
  BY <1>1, Held DEF CallStages
<1>3. PICK row \in User : row = users[loc[q].user]
  BY <1>2 DEF Types, Rows
<1>4. PICK k : k = [loc[q] EXCEPT !.seen = row]
  OBVIOUS
<1>5. k.seen = row /\ k.user = loc[q].user
  BY <1>2, <1>4 DEF Body
<1>6. \/ Answer(q, 429) \/ Answer(q, 401)
      \/ row.status # "ABSENT" /\ ~(row.lockedUntil > now) /\ Goto(q, "verify", k)
  BY <1>3, <1>4 DEF LoginRead, Unauthorized
<1>7. CASE Answer(q, 429) \/ Answer(q, 401)
  <2>1. PICK l : Goto(q, "answered", l)
    BY <1>7 DEF Answer
  <2>2. Current(q)'
    BY <2>1, At DEF Current
  <2> QED BY <1>1, <2>1, <2>2, ServedReads DEF Lone
<1>8. CASE row.status # "ABSENT" /\ ~(row.lockedUntil > now) /\ Goto(q, "verify", k)
  <2>1. pc'[q] = "verify" /\ loc'[q] = k /\ now' = now
    BY <1>8, At DEF Goto
  <2>2. row.lockedUntil <= now
    BY <1>8 DEF User, Types, Rows
  <2>3. Current(q)'
    BY <1>1, <1>3, <1>5, <1>8, <2>1, <2>2 DEF Current
  <2> QED BY <1>1, <1>8, <2>3, ServedReads DEF Lone
<1> QED BY <1>6, <1>7, <1>8

LEMMA LoginRejectServed ==
  ASSUME Lone, Types, Served, NEW q \in Requests, LoginReject(q)
  PROVE  Served'
<1>1. /\ CanServe(q) /\ pc[q] = "verify" /\ Answer(q, 401) /\ UNCHANGED tokens
      /\ UNCHANGED now
  BY DEF LoginReject, Continue, Unauthorized, Answer, Goto
<1>2. PICK u \in Accounts : u = loc[q].user
  BY <1>1, Held DEF CallStages
<1>3. loc[q].seen = users[u] /\ users[u].lockedUntil <= now
  BY <1>1, <1>2 DEF Served, Current
<1>4. /\ users[u] \in User /\ MaxFailed \in Nat \ {0} /\ LockTtl \in Nat \ {0} /\ now \in Nat
  BY SessionsAssumption DEF Types, Rows
<1>5. PICK a \in Nat : a = users[u].failed + 1
  BY <1>4 DEF User
<1>6. /\ \A v \in Accounts : v # u => users'[v] = users[v]
      /\ users'[u].status = users[u].status /\ users'[u].password = users[u].password
      /\ users'[u].failed = a
      /\ a >= MaxFailed => users'[u].lockedUntil = now + LockTtl
  BY <1>2, <1>3, <1>5, AttemptCounted DEF LoginReject, Types
<1>7. LiveTokensEntitled'
  <2>1. \A v \in Accounts : users'[v].password = users[v].password /\ users'[v].status = users[v].status
    BY <1>6
  <2>2. \A n \in DOMAIN tokens : tokens[n].user \in Accounts
    BY Owners
  <2>3. OnlyRevoked
    BY <1>1, NoneRevoked DEF Types
  <2> QED BY <2>1, <2>2, <2>3, EntitledKept DEF Served, Active
<1>8. ASSUME NEW v \in Accounts
      PROVE  Paced(v)'
  <2>0. Paced(v)
    BY DEF Served
  <2>1. CASE v # u
    <3>1. guesses'[v] = guesses[v] /\ users'[v] = users[v]
      BY <1>2, <1>6, <2>1 DEF LoginReject, Types, Rows
    <3> QED BY <1>1, <2>0, <3>1 DEF Paced
  <2>2. CASE v = u
    <3>1. guesses'[u] = guesses[u] + 1
      BY <1>2 DEF LoginReject, Types, Rows
    <3>2. guesses'[u] = users'[u].failed
      BY <1>5, <1>6, <2>0, <2>2, <3>1 DEF Paced
    <3>3. ASSUME a >= MaxFailed
          PROVE  a - MaxFailed + 1 <= (now + LockTtl) \div LockTtl
      <4>1. PICK f \in Nat : f = users[u].failed
        BY <1>4 DEF User
      <4>2. PICK w \in Nat : w = users[u].lockedUntil
        BY <1>4 DEF User
      <4>3. PICK d \in Nat : d = now \div LockTtl
        BY <1>4, Quotient
      <4>4. (now + LockTtl) \div LockTtl = d + 1
        BY <1>4, <4>3, QuotientOfNext
      <4>5. CASE f >= MaxFailed
        <5>1. PICK e \in Nat : e = w \div LockTtl
          BY <1>4, Quotient
        <5>2. f - MaxFailed + 1 <= e
          BY <2>0, <2>2, <4>1, <4>2, <4>5, <5>1 DEF Paced
        <5>3. w <= now
          BY <1>3, <4>2
        <5>4. e <= d
          BY <1>4, <4>3, <5>1, <5>3, QuotientOrdered
        <5> QED BY <1>4, <1>5, <4>1, <4>4, <5>2, <5>4
      <4>6. CASE ~(f >= MaxFailed)
        BY <1>4, <1>5, <3>3, <4>1, <4>4, <4>6
      <4> QED BY <4>5, <4>6
    <3>4. users'[u].failed >= MaxFailed =>
            /\ users'[u].failed - MaxFailed + 1 <= users'[u].lockedUntil \div LockTtl
            /\ users'[u].lockedUntil <= now' + LockTtl
      <4> SUFFICES ASSUME a >= MaxFailed
                   PROVE  /\ a - MaxFailed + 1 <= users'[u].lockedUntil \div LockTtl
                          /\ users'[u].lockedUntil <= now' + LockTtl
        BY <1>6
      <4>1. users'[u].lockedUntil = now + LockTtl
        BY <1>6
      <4> QED BY <1>1, <1>4, <3>3, <4>1
    <3> QED BY <2>2, <3>2, <3>4 DEF Paced
  <2> QED BY <2>1, <2>2
<1> QED BY <1>1, <1>7, <1>8, ServedAnswer DEF Lone

LEMMA LoginAcceptServed ==
  ASSUME Lone, Types, Served, NEW q \in Requests, LoginAccept(q)
  PROVE  Served'
<1>1. /\ CanServe(q) /\ pc[q] = "verify" /\ Goto(q, "issue", loc[q]) /\ UNCHANGED tokens
      /\ UNCHANGED now
  BY DEF LoginAccept, Continue, Goto
<1>2. PICK u \in Accounts : u = loc[q].user
  BY <1>1, Held DEF CallStages
<1>3. loc[q].seen = users[u]
  BY <1>1, <1>2 DEF Served, Current
<1>4. loc[q].password = users[u].password /\ users[u].status = "ACTIVE"
  BY <1>3 DEF LoginAccept, Rejected
<1>5. /\ \A v \in Accounts : v # u => users'[v] = users[v]
      /\ users'[u].status = users[u].status /\ users'[u].password = users[u].password
      /\ users'[u].failed = 0
  BY <1>2, AttemptsForgotten DEF LoginAccept, Types
<1>6. LiveTokensEntitled'
  <2>1. \A v \in Accounts : users'[v].password = users[v].password /\ users'[v].status = users[v].status
    BY <1>5
  <2>2. \A n \in DOMAIN tokens : tokens[n].user \in Accounts
    BY Owners
  <2>3. OnlyRevoked
    BY <1>1, NoneRevoked DEF Types
  <2> QED BY <2>1, <2>2, <2>3, EntitledKept DEF Served, Active
<1>7. ASSUME NEW v \in Accounts
      PROVE  Paced(v)'
  <2>0. Paced(v)
    BY DEF Served
  <2>1. CASE v # u
    <3>1. guesses'[v] = guesses[v] /\ users'[v] = users[v]
      BY <1>2, <1>5, <2>1 DEF LoginAccept, Types, Rows
    <3> QED BY <1>1, <2>0, <3>1 DEF Paced
  <2>2. CASE v = u
    <3>1. guesses'[u] = 0
      BY <1>2 DEF LoginAccept, Types, Rows
    <3>2. ~(0 >= MaxFailed)
      BY SessionsAssumption
    <3> QED BY <1>5, <2>2, <3>1, <3>2 DEF Paced
  <2> QED BY <2>1, <2>2
<1>8. Current(q)'
  <2>1. pc'[q] = "issue" /\ loc'[q] = loc[q]
    BY <1>1, At
  <2> QED BY <1>2, <1>4, <1>5, <2>1 DEF Current, Active
<1> QED BY <1>1, <1>6, <1>7, <1>8, ServedStep DEF Lone

\* A new account has no live tokens, for those are of users who exist.
LEMMA InsertedServed ==
  ASSUME Types, Served, NEW u \in Accounts, NEW p \in Passwords, Inserted(u, p),
         UNCHANGED <<tokens, guesses, now>>
  PROVE  LiveTokensEntitled' /\ \A v \in Accounts : Paced(v)'
<1>1. /\ \A v \in Accounts : v # u => users'[v] = users[v]
      /\ users'[u].failed = users[u].failed
      /\ users'[u].lockedUntil = users[u].lockedUntil
  BY UserInserted DEF Types
<1>2. users[u].status = "ABSENT"
  BY DEF Inserted
<1>3. \A v \in Accounts : Paced(v)'
  <2>1. \A v \in Accounts : /\ users'[v].failed = users[v].failed
                            /\ users'[v].lockedUntil = users[v].lockedUntil
    BY <1>1
  <2> QED BY <2>1, PacedKept
<1>4. ASSUME NEW n \in DOMAIN tokens, ~tokens[n].revoked
      PROVE  users'[tokens[n].user] = users[tokens[n].user]
  <2>1. users[tokens[n].user].status = "ACTIVE"
    BY <1>4 DEF Served, LiveTokensEntitled, Active
  <2>2. tokens[n].user # u
    BY <1>2, <2>1
  <2>3. tokens[n].user \in Accounts
    BY Owners
  <2> QED BY <1>1, <2>2, <2>3
<1>5. OnlyRevoked
  BY NoneRevoked DEF Types
<1>6. LiveTokensEntitled'
  BY <1>4, <1>5, EntitledKept DEF Served, Active
<1> QED BY <1>3, <1>6

LEMMA RegisterServed ==
  ASSUME Lone, Types, Served, NEW q \in Requests, Register(q)
  PROVE  Served'
<1>1. CanServe(q) /\ pc[q] = "sent" /\ UNCHANGED <<tokens, guesses>>
  BY DEF Register, Receive
<1>2. PICK u \in Accounts, p \in Passwords : u = loc[q].user /\ p = loc[q].password
  BY <1>1, Held DEF CallStages
<1>3. CASE Inserted(u, p) /\ Goto(q, "issue", loc[q])
  <2>1. UNCHANGED now
    BY <1>3 DEF Goto
  <2>2. LiveTokensEntitled' /\ \A v \in Accounts : Paced(v)'
    BY <1>1, <1>3, <2>1, InsertedServed
  <2>3. users'[u].status = "ACTIVE" /\ users'[u].password = p
    BY <1>3, UserInserted DEF Types
  <2>4. pc'[q] = "issue" /\ loc'[q] = loc[q]
    BY <1>3, At
  <2>5. Current(q)'
    BY <1>2, <2>3, <2>4 DEF Current, Active
  <2> QED BY <1>1, <1>3, <2>2, <2>5, ServedStep DEF Lone
<1>4. CASE Answer(q, 409) /\ UNCHANGED users
  <2>1. UNCHANGED now
    BY <1>4 DEF Answer, Goto
  <2>2. LiveTokensEntitled' /\ \A v \in Accounts : Paced(v)'
    BY <1>1, <1>4, <2>1 DEF Served, LiveTokensEntitled, Active, Paced
  <2> QED BY <1>1, <1>4, <2>2, ServedAnswer DEF Lone
<1> QED BY <1>2, <1>3, <1>4 DEF Register

LEMMA DirectServed ==
  ASSUME Lone, Types, Served, NEW q \in Requests, ServeDirect(q)
  PROVE  Served'
<1>0. CanServe(q) /\ UNCHANGED <<now, guesses>>
  <2>1. CanServe(q) /\ UNCHANGED guesses
    BY DEF ServeDirect, CreateUser, UpdateStatus, ResetRead, ResetCommit, Directly, Continue,
           sessionTables
  <2>2. UNCHANGED now
    BY DEF ServeDirect, CreateUser, UpdateStatus, ResetRead, ResetCommit, Finish, Goto
  <2> QED BY <2>1, <2>2
<1>1. ASSUME Finish(q), LiveTokensEntitled', \A v \in Accounts : Paced(v)'
      PROVE  Served'
  <2>1. Goto(q, "done", NoLocals)
    BY <1>1 DEF Finish
  <2>2. Current(q)'
    BY <2>1, At DEF Current
  <2> QED BY <1>0, <1>1, <2>1, <2>2, ServedStep DEF Lone
<1>2. CASE CreateUser(q)
  <2>1. PICK u \in Accounts, p \in Passwords : Inserted(u, p)
    BY <1>2 DEF CreateUser
  <2>2. LiveTokensEntitled' /\ \A v \in Accounts : Paced(v)'
    BY <1>0, <1>2, <2>1, InsertedServed DEF CreateUser
  <2> QED BY <1>1, <1>2, <2>2 DEF CreateUser
<1>3. CASE UpdateStatus(q)
  <2>1. PICK u \in Accounts, s \in StatusChoices :
          /\ users' = [users EXCEPT ![u].status = s]
          /\ tokens' = IF s # "ACTIVE" THEN RevokedFor(u) ELSE tokens
    BY <1>3 DEF UpdateStatus
  <2>2. /\ \A v \in Accounts : v # u => users'[v] = users[v]
        /\ users'[u].status = s /\ users'[u].password = users[u].password
        /\ users'[u].failed = users[u].failed
        /\ users'[u].lockedUntil = users[u].lockedUntil
    BY <2>1, StatusUpdated, SessionsAssumption DEF Types
  <2>3. \A v \in Accounts : Paced(v)'
    <3>1. \A v \in Accounts : /\ users'[v].failed = users[v].failed
                              /\ users'[v].lockedUntil = users[v].lockedUntil
      BY <2>2
    <3> QED BY <1>0, <3>1, PacedKept
  <2>4. OnlyRevoked
    BY <2>1, AllRevoked, NoneRevoked DEF Types
  <2>5. ASSUME NEW n \in DOMAIN tokens, ~tokens'[n].revoked
        PROVE  /\ users'[tokens[n].user].password = users[tokens[n].user].password
               /\ Active(tokens[n].user) => users'[tokens[n].user].status = "ACTIVE"
    <3>1. tokens[n].user \in Accounts
      BY Owners
    <3>2. CASE tokens[n].user # u
      BY <2>2, <3>1, <3>2 DEF Active
    <3>3. CASE tokens[n].user = u
      <4>1. s = "ACTIVE"
        BY <2>1, <2>5, <3>3, AllRevoked DEF Types
      <4> QED BY <2>2, <3>3, <4>1
    <3> QED BY <3>2, <3>3
  <2>6. LiveTokensEntitled'
    BY <2>4, <2>5, EntitledKept DEF Served
  <2> QED BY <1>1, <1>3, <2>3, <2>6 DEF UpdateStatus
<1>4. CASE ResetRead(q)
  <2>1. UNCHANGED <<users, tokens>>
    BY <1>4 DEF ResetRead, sessionTables
  <2>2. PICK l : Goto(q, "reset", l)
    BY <1>4 DEF ResetRead
  <2>3. Current(q)'
    BY <2>2, At DEF Current
  <2> QED BY <1>0, <2>1, <2>2, <2>3, ServedReads DEF Lone
<1>5. CASE ResetCommit(q)
  <2>1. pc[q] = "reset"
    BY <1>5 DEF ResetCommit, Continue
  <2>2. loc[q] \in [reset : 1..Len(resets), password : Passwords]
    BY <2>1 DEF Types, Bodies, Fits
  <2>3. resets[loc[q].reset] \in ResetToken
    BY <2>2 DEF Types, Rows
  <2>4. PICK u \in Accounts : u = resets[loc[q].reset].user
    BY <2>3 DEF ResetToken
  <2>5. users' = [users EXCEPT ![u].password = loc[q].password] /\ tokens' = RevokedFor(u)
    BY <1>5, <2>4 DEF ResetCommit
  <2>6. /\ \A v \in Accounts : v # u => users'[v] = users[v]
        /\ users'[u].failed = users[u].failed
        /\ users'[u].lockedUntil = users[u].lockedUntil
    BY <2>2, <2>5, PasswordUpdated DEF Types
  <2>7. \A v \in Accounts : Paced(v)'
    <3>1. \A v \in Accounts : /\ users'[v].failed = users[v].failed
                              /\ users'[v].lockedUntil = users[v].lockedUntil
      BY <2>6
    <3> QED BY <1>0, <3>1, PacedKept
  <2>8. /\ OnlyRevoked
        /\ \A n \in DOMAIN tokens : tokens[n].user = u => tokens'[n].revoked
    BY <2>5, AllRevoked DEF Types
  <2>9. ASSUME NEW n \in DOMAIN tokens, ~tokens'[n].revoked
        PROVE  users'[tokens[n].user] = users[tokens[n].user]
    <3>1. tokens[n].user \in Accounts
      BY Owners
    <3> QED BY <2>6, <2>8, <2>9, <3>1
  <2>10. LiveTokensEntitled'
    BY <2>8, <2>9, EntitledKept DEF Served, Active
  <2> QED BY <1>1, <1>5, <2>7, <2>10 DEF ResetCommit
<1> QED BY <1>2, <1>3, <1>4, <1>5 DEF ServeDirect

\* A tab sends, waits or takes up what it was answered.
LEMMA TabMoves ==
  ASSUME Control, NEW t \in Tabs,
         \/ \E l \in Lanes : \/ StartCall(t, l) \/ StartLogin(t, l) \/ StartForgot(t, l)
                             \/ StartLogout(t, l) \/ Reload(t, l)
                             \/ Receives(t, l)
         \/ ReceivesRefresh(t) \/ Network(t)
  PROVE  \A p \in Requests :
           (pc'[p] = pc[p] /\ loc'[p] = loc[p]) \/ pc'[p] \in {"new", "sent", "waiting"}
<1>1. ASSUME NEW q, NEW s \in {"new", "sent"}, NEW l, Goto(q, s, l)
      PROVE  \A p \in Requests :
               (pc'[p] = pc[p] /\ loc'[p] = loc[p]) \/ pc'[p] \in {"new", "sent", "waiting"}
  BY <1>1 DEF Goto, Control
<1>2. ASSUME NEW l \in Lanes,
             \/ StartCall(t, l) \/ StartLogin(t, l) \/ StartForgot(t, l)
             \/ Resolve(t, l) \/ Reject(t, l) \/ CallLost(t, l)
      PROVE  \E q, k : \E s \in {"new", "sent"} : Goto(q, s, k)
  BY <1>2 DEF StartCall, StartLogin, StartForgot, Resolve, Reject, CallLost, Send, Ended
<1>3. ASSUME NEW l \in Lanes, StartLogout(t, l) \/ Reload(t, l)
      PROVE  \/ UNCHANGED <<pc, loc>>
             \/ \E q, k : \E s \in {"new", "sent"} : Goto(q, s, k)
  BY <1>3 DEF StartLogout, Reload, Send, runtimeVars
<1>4. ASSUME NEW l \in Lanes, AwaitRefresh(t, l)
      PROVE  \A p \in Requests :
               (pc'[p] = pc[p] /\ loc'[p] = loc[p]) \/ pc'[p] \in {"new", "sent", "waiting"}
  <2>1. CASE pc[Refresher(t)] = "new"
    <3>1. /\ pc' = [pc EXCEPT ![<<t, l>>] = "waiting", ![Refresher(t)] = "sent"]
          /\ \E k : loc' = [loc EXCEPT ![Refresher(t)] = k]
      BY <1>4, <2>1 DEF AwaitRefresh
    <3> QED BY <3>1 DEF Control
  <2>2. CASE pc[Refresher(t)] # "new"
    <3>1. pc' = [pc EXCEPT ![<<t, l>>] = "waiting"] /\ loc' = loc
      BY <1>4, <2>2 DEF AwaitRefresh
    <3> QED BY <3>1 DEF Control
  <2> QED BY <2>1, <2>2
<1>5. ASSUME Refreshed(t) \/ RefreshRefused(t) \/ RefreshLost(t)
      PROVE  \A p \in Requests :
               (pc'[p] = pc[p] /\ loc'[p] = loc[p]) \/ pc'[p] \in {"new", "sent", "waiting"}
  <2>1. \E stage \in {"new", "sent"} :
          pc' = [q \in Requests |-> IF q = Refresher(t) THEN "new"
                                    ELSE IF q \in Waiters(t) THEN stage ELSE pc[q]]
    BY <1>5 DEF Refreshed, RefreshRefused, RefreshLost, Settle
  <2>2. \A q \in Requests : q # Refresher(t) /\ q \notin Waiters(t) => loc'[q] = loc[q]
    <3>1. CASE Refreshed(t)
      <4>1. PICK locals : locals = [q \in Waiters(t) |-> Resent(loc[q], loc[Refresher(t)].token)]
        OBVIOUS
      <4> QED BY <3>1, <4>1, RefreshedSettles
    <3>2. CASE RefreshRefused(t) \/ RefreshLost(t)
      BY <3>2 DEF RefreshRefused, RefreshLost, Settle
    <3> QED BY <1>5, <3>1, <3>2
  <2> QED BY <2>1, <2>2
<1> QED BY <1>1, <1>2, <1>3, <1>4, <1>5 DEF Receives, ReceivesRefresh, Network

LEMMA ServeServed ==
  ASSUME Lone, Types, Served, NEW q \in Requests, Serve(q) \/ ServeDirect(q)
  PROVE  Served'
BY IssueServed, RefreshReadServed, RefreshWritesServed, ReadsServed, LoginReadServed,
   LoginRejectServed, LoginAcceptServed, RegisterServed, DirectServed DEF Serve

LEMMA InitServed ==
  ASSUME Init
  PROVE  Served
<1>1. \A q \in Requests : pc[q] = "new"
  BY DEF Init, RuntimeInit
<1>2. OneServed /\ \A q \in Requests : Current(q)
  BY <1>1 DEF OneServed, Serving, Current
<1>3. LiveTokensEntitled
  BY DEF Init, SessionsInit, LiveTokensEntitled
<1>4. \A u \in Accounts : Paced(u)
  <2>1. \A u \in Accounts : guesses[u] = 0 /\ users[u].failed = 0
    BY DEF Init, SessionsInit
  <2>2. ~(0 >= MaxFailed)
    BY SessionsAssumption
  <2> QED BY <2>1, <2>2 DEF Paced
<1> QED BY <1>2, <1>3, <1>4 DEF Served

LEMMA NextServed ==
  ASSUME Lone, Types, Served, [Next]_vars
  PROVE  Served'
<1>1. ASSUME NEW q \in Requests, Serve(q) \/ ServeDirect(q)
      PROVE  Served'
  BY <1>1, ServeServed
<1>2. ASSUME NEW t \in Tabs,
             \/ \E l \in Lanes : \/ StartCall(t, l) \/ StartLogin(t, l) \/ StartForgot(t, l)
                                 \/ StartLogout(t, l) \/ Reload(t, l)
             \/ (\E l \in Lanes : Receives(t, l)) /\ UNCHANGED sessionTables
             \/ (ReceivesRefresh(t) \/ Network(t)) /\ UNCHANGED sessionTables
      PROVE  Served'
  <2>1. \A p \in Requests : (pc'[p] = pc[p] /\ loc'[p] = loc[p]) \/ pc'[p] \in Idling
    BY <1>2, TabMoves DEF Types, Idling
  <2>2. UNCHANGED sessionTables
    BY <1>2 DEF StartCall, StartLogin, StartForgot, StartLogout, Reload
  <2>3. UNCHANGED now
    <3>1. CASE \E l \in Lanes : \/ StartCall(t, l) \/ StartLogin(t, l) \/ StartForgot(t, l)
                                \/ StartLogout(t, l) \/ Reload(t, l)
      BY <3>1 DEF StartCall, StartLogin, StartForgot, StartLogout, Reload, Send, Goto, runtimeVars
    <3>2. ASSUME NEW l \in Lanes, Receives(t, l)
          PROVE  UNCHANGED now
      BY <3>2 DEF Receives, Resolve, Reject, AwaitRefresh, Send, Ended, Goto
    <3>3. ASSUME Refreshed(t) \/ RefreshRefused(t) \/ RefreshLost(t)
          PROVE  UNCHANGED now
      BY <3>3 DEF Refreshed, RefreshRefused, RefreshLost, Settle
    <3>4. ASSUME NEW l \in Lanes, CallLost(t, l)
          PROVE  UNCHANGED now
      BY <3>4 DEF CallLost, Ended, Goto
    <3> QED BY <1>2, <3>1, <3>2, <3>3, <3>4 DEF ReceivesRefresh, Network
  <2> QED BY <2>1, <2>2, <2>3, ServedKept
<1>3. CASE Tick /\ UNCHANGED sessionTables
  BY <1>3, ServedTick
<1>4. CASE UNCHANGED vars
  <2>1. \A p \in Requests : pc'[p] = pc[p] /\ loc'[p] = loc[p]
    BY <1>4 DEF vars, runtimeVars
  <2> QED BY <1>4, <2>1, ServedKept DEF vars, runtimeVars
<1> QED BY <1>1, <1>2, <1>3, <1>4 DEF Next

LEMMA SequentialSessions ==
  ASSUME Lone
  PROVE  Spec => [](Types /\ Served)
<1>1. Init => Types /\ Served
  BY InitTypes, InitServed
<1>2. Types /\ Served /\ [Next]_vars => (Types /\ Served)'
  BY NextTypes, NextServed
<1> QED BY <1>1, <1>2, PTL DEF Spec

\* One request served at a time, blocking a user and resetting a password end every
\* session: no chain of refreshes keeps one alive (users.service.ts:271,
\* auth.service.ts:287).
THEOREM SequentialSessionsEntitled ==
  ASSUME IsFiniteSet(Requests), Concurrency = 1
  PROVE  Spec => []LiveTokensEntitled
<1>1. Served => LiveTokensEntitled
  BY DEF Served
<1>2. Spec => [](Types /\ Served)
  BY SequentialSessions DEF Lone
<1> QED BY <1>1, <1>2, PTL

\* One request served at a time, wrong passwords are counted exactly, so that the k-th
\* lockout cannot begin before k - 1 of them have run out (auth.service.ts:329).
THEOREM SequentialGuessesPaced ==
  ASSUME IsFiniteSet(Requests), Concurrency = 1
  PROVE  Spec => []GuessesPaced
<1>1. Types /\ Served => GuessesPaced
  <2> SUFFICES ASSUME Types, Served, NEW u \in Accounts
               PROVE  guesses[u] <= MaxFailed + now \div LockTtl
    BY DEF GuessesPaced
  <2>1. users[u] \in User /\ now \in Nat /\ MaxFailed \in Nat \ {0} /\ LockTtl \in Nat \ {0}
    BY SessionsAssumption DEF Types, Rows
  <2>2. PICK f \in Nat, w \in Nat : f = users[u].failed /\ w = users[u].lockedUntil
    BY <2>1 DEF User
  <2>3. PICK d \in Nat : d = now \div LockTtl
    BY <2>1, Quotient
  <2>4. PICK e \in Nat : e = w \div LockTtl
    BY <2>1, Quotient
  <2>5. guesses[u] = f /\ (f >= MaxFailed => f - MaxFailed + 1 <= e /\ w <= now + LockTtl)
    BY <2>2, <2>4 DEF Served, Paced
  <2>6. w <= now + LockTtl => e <= d + 1
    <3>1. (now + LockTtl) \div LockTtl = d + 1
      BY <2>1, <2>3, QuotientOfNext
    <3>2. PICK n \in Nat : n = now + LockTtl
      BY <2>1
    <3> QED BY <2>1, <2>4, <3>1, <3>2, QuotientOrdered
  <2> QED BY <2>1, <2>3, <2>5, <2>6
<1>2. Spec => [](Types /\ Served)
  BY SequentialSessions DEF Lone
<1> QED BY <1>1, <1>2, PTL

-----------------------------------------------------------------------------
(* One tab *)

\* All but Issue: rows are at most revoked, the request keeps its token, and an answer
\* brings no pair.
LEMMA ServeKeepsPairs ==
  ASSUME Types, NEW q \in Requests, Serve(q) \/ ServeDirect(q), ~Issue(q)
  PROVE  /\ OnlyRevoked
         /\ \E s, l :
              /\ Goto(q, s, l)
              /\ s \in CallStages =>
                   /\ pc[q] \in CallStages
                   /\ l.token = loc[q].token /\ ~Admitted(s, l)
              /\ q \in Refreshers =>
                   /\ s = "answered" => l.status # 200
                   /\ s \in {"sent", "rotate", "issue"} => pc[q] \in {"sent", "rotate"}
<1>. DEFINE Brings(s, l) ==
              /\ s \in CallStages =>
                   /\ pc[q] \in CallStages
                   /\ l.token = loc[q].token /\ ~Admitted(s, l)
              /\ q \in Refreshers =>
                   /\ s = "answered" => l.status # 200
                   /\ s \in {"sent", "rotate", "issue"} => pc[q] \in {"sent", "rotate"}
<1>1. ASSUME NEW c \in {200, 204, 401, 409, 429}, Answer(q, c), pc[q] \in CallStages,
             c = 200 => q \notin Refreshers /\ loc[q].kind \notin Entries
      PROVE  \E s, l : Goto(q, s, l) /\ Brings(s, l)
  <2>1. PICK l : l = [loc[q] EXCEPT !.status = c]
    OBVIOUS
  <2>2. loc[q] \in Body
    BY <1>1, Held
  <2>3. l.token = loc[q].token /\ l.status = c /\ l.kind = loc[q].kind
    BY <2>1, <2>2, StatusSet
  <2>4. Brings("answered", l)
    BY <1>1, <2>3 DEF Admitted
  <2>5. Goto(q, "answered", l)
    BY <1>1, <2>1 DEF Answer
  <2> QED BY <2>4, <2>5
<1>2. UNCHANGED tokens => OnlyRevoked
  BY NoneRevoked DEF Types
<1>3. CASE RefreshRead(q)
  <2>1. pc[q] = "sent" /\ pc[q] \in CallStages /\ loc[q].kind = "refresh" /\ UNCHANGED tokens
    BY <1>3 DEF RefreshRead, Receive, CallStages, sessionTables
  <2>2. loc[q] \in Body /\ tokens[loc[q].token] \in RefreshToken
    BY <2>1, Held
  <2>3. PICK row \in RefreshToken : row = tokens[loc[q].token]
    BY <2>2
  <2>4. PICK k : k = [loc[q] EXCEPT !.user = row.user, !.password = row.secret]
    OBVIOUS
  <2>5. k.token = loc[q].token /\ k.kind = "refresh"
    BY <2>1, <2>2, <2>4 DEF Body
  <2>6. Goto(q, "burn", k) \/ Goto(q, "rotate", k) \/ Answer(q, 401)
    BY <1>3, <2>3, <2>4 DEF RefreshRead, Unauthorized
  <2>7. Brings("burn", k) /\ Brings("rotate", k)
    BY <2>1, <2>5 DEF Admitted
  <2>8. \E s, l : Goto(q, s, l) /\ Brings(s, l)
    BY <1>1, <2>1, <2>6, <2>7
  <2> QED BY <1>2, <2>1, <2>8
<1>4. CASE RefreshBurn(q) \/ LogoutRevoke(q)
  <2>1. pc[q] \in {"burn", "logout"} /\ pc[q] \in CallStages
        /\ (Answer(q, 401) \/ Answer(q, 204))
    BY <1>4 DEF RefreshBurn, LogoutRevoke, Continue, Unauthorized, CallStages
  <2>2. Fits(q, pc[q], loc[q], Len(tokens), Len(resets))
    BY <2>1, Held
  <2>3. loc[q].kind \in {"refresh", "logout"}
    BY <2>1, <2>2 DEF Fits
  <2>4. loc[q].token \in 1..Len(tokens)
    BY <2>1, <2>3, Held
  <2>5. OnlyRevoked
    BY <1>4, <2>4, OneRevoked, AllRevoked DEF RefreshBurn, LogoutRevoke, Types
  <2>6. \E s, l : Goto(q, s, l) /\ Brings(s, l)
    BY <1>1, <2>1
  <2> QED BY <2>5, <2>6
<1>5. CASE RefreshRotate(q)
  <2>1. pc[q] = "rotate" /\ pc[q] \in CallStages /\ Goto(q, "issue", loc[q])
    BY <1>5 DEF RefreshRotate, Continue, CallStages
  <2>2. Fits(q, pc[q], loc[q], Len(tokens), Len(resets))
    BY <2>1, Held
  <2>3. loc[q].kind = "refresh"
    BY <2>1, <2>2 DEF Fits
  <2>4. loc[q].token \in 1..Len(tokens)
    BY <2>1, <2>3, Held
  <2>5. OnlyRevoked
    BY <1>5, <2>4, OneRevoked DEF RefreshRotate, Types
  <2>6. Brings("issue", loc[q])
    BY <2>1 DEF Admitted
  <2> QED BY <2>1, <2>5, <2>6
<1>6. CASE LogoutRead(q) \/ Call(q) \/ ForgotPassword(q)
  <2>1. /\ pc[q] = "sent" /\ pc[q] \in CallStages /\ UNCHANGED tokens
        /\ loc[q].kind \in {"logout", "call", "forgot"}
    BY <1>6 DEF LogoutRead, Call, ForgotPassword, Receive, CallStages, sessionTables
  <2>2. Fits(q, "sent", loc[q], Len(tokens), Len(resets))
    BY <2>1, Held
  <2>3. q \notin Refreshers /\ loc[q].kind \notin Entries
    BY <2>1, <2>2 DEF Fits, CallStages, Entries
  <2>4. \/ Answer(q, 200) \/ Answer(q, 204) \/ Answer(q, 401)
        \/ Goto(q, "logout", loc[q])
    BY <1>6 DEF LogoutRead, Call, ForgotPassword, Unauthorized
  <2>5. Brings("logout", loc[q])
    BY <2>1 DEF Admitted
  <2>6. \E s, l : Goto(q, s, l) /\ Brings(s, l)
    BY <1>1, <2>1, <2>3, <2>4, <2>5
  <2> QED BY <1>2, <2>1, <2>6
<1>7. CASE LoginRead(q) \/ Register(q)
  <2>1. /\ pc[q] = "sent" /\ pc[q] \in CallStages /\ UNCHANGED tokens
        /\ loc[q].kind \in Entries
    BY <1>7 DEF LoginRead, Register, Receive, CallStages, Entries
  <2>2. Fits(q, "sent", loc[q], Len(tokens), Len(resets)) /\ loc[q] \in Body
        /\ loc[q].user \in Accounts
    BY <2>1, Held
  <2>3. q \notin Refreshers
    BY <2>1, <2>2 DEF Fits, CallStages, Entries
  <2>4. PICK row \in User : row = users[loc[q].user]
    BY <2>2 DEF Types, Rows
  <2>5. PICK k : k = [loc[q] EXCEPT !.seen = row]
    OBVIOUS
  <2>6. k.token = loc[q].token
    BY <2>2, <2>5 DEF Body
  <2>7. \/ Answer(q, 429) \/ Answer(q, 401) \/ Answer(q, 409)
        \/ Goto(q, "verify", k) \/ Goto(q, "issue", loc[q])
    BY <1>7, <2>4, <2>5 DEF LoginRead, Register, Unauthorized
  <2>8. Brings("verify", k) /\ Brings("issue", loc[q])
    BY <2>1, <2>3, <2>6 DEF Admitted
  <2>9. \E s, l : Goto(q, s, l) /\ Brings(s, l)
    BY <1>1, <2>1, <2>7, <2>8
  <2> QED BY <1>2, <2>1, <2>9
<1>8. CASE LoginReject(q) \/ LoginAccept(q)
  <2>1. pc[q] = "verify" /\ pc[q] \in CallStages /\ UNCHANGED tokens
    BY <1>8 DEF LoginReject, LoginAccept, Continue, CallStages
  <2>2. Fits(q, "verify", loc[q], Len(tokens), Len(resets))
    BY <2>1, Held
  <2>3. q \notin Refreshers
    BY <2>2 DEF Fits, CallStages
  <2>4. Answer(q, 401) \/ Goto(q, "issue", loc[q])
    BY <1>8 DEF LoginReject, LoginAccept, Unauthorized
  <2>5. Brings("issue", loc[q])
    BY <2>1, <2>3 DEF Admitted
  <2>6. \E s, l : Goto(q, s, l) /\ Brings(s, l)
    BY <1>1, <2>1, <2>4, <2>5
  <2> QED BY <1>2, <2>1, <2>6
<1>9. CASE ServeDirect(q)
  <2>1. OnlyRevoked
    BY <1>2, <1>9, AllRevoked
    DEF ServeDirect, CreateUser, UpdateStatus, ResetRead, ResetCommit, sessionTables, Types
  <2>2. (\E l : Goto(q, "reset", l)) \/ Goto(q, "done", NoLocals)
    BY <1>9 DEF ServeDirect, CreateUser, UpdateStatus, ResetRead, ResetCommit, Finish
  <2>3. \A l : Brings("reset", l) /\ Brings("done", l)
    BY DEF CallStages
  <2> QED BY <2>1, <2>2, <2>3
<1> QED BY <1>3, <1>4, <1>5, <1>6, <1>7, <1>8, <1>9 DEF Serve

LEMMA ParentsKept ==
  ASSUME Types, Parents, OnlyRevoked
  PROVE  Parents'
<1>1. DOMAIN tokens' = DOMAIN tokens
  BY DEF OnlyRevoked, Types, Rows
<1> QED BY <1>1 DEF Parents, OnlyRevoked

\* The back end has nothing to do for a request that it has answered.
LEMMA AnsweredIsNotServed ==
  ASSUME NEW q \in Requests, Serve(q) \/ ServeDirect(q)
  PROVE  pc[q] # "answered"
BY DEF Serve, ServeDirect, Issue, RefreshRead, RefreshBurn, RefreshRotate, LogoutRead,
       LogoutRevoke, LoginRead, LoginReject, LoginAccept, Register, ForgotPassword, Call,
       CreateUser, UpdateStatus, ResetRead, ResetCommit, Receive, Continue, Directly

LEMMA UnissuedUnrepeated ==
  ASSUME Types, NEW t \in Tabs, Unrepeated(t), NEW q \in Requests,
         Serve(q) \/ ServeDirect(q), ~Issue(q), UNCHANGED clientVars
  PROVE  Unrepeated(t)'
<1>1. OnlyRevoked
  BY ServeKeepsPairs
<1>2. PICK s, l :
              /\ Goto(q, s, l)
              /\ s \in CallStages =>
                   /\ pc[q] \in CallStages
                   /\ l.token = loc[q].token /\ ~Admitted(s, l)
              /\ q \in Refreshers =>
                   /\ s = "answered" => l.status # 200
                   /\ s \in {"sent", "rotate", "issue"} => pc[q] \in {"sent", "rotate"}
  BY ServeKeepsPairs
<1>3. /\ pc'[q] = s /\ loc'[q] = l
      /\ \A p \in Requests : p # q => pc'[p] = pc[p] /\ loc'[p] = loc[p]
  BY <1>2 DEF Goto, Types, Control
<1>4. PICK r \in Requests : r = Refresher(t) /\ r \in Refreshers
  BY Refreshing
<1>5. UNCHANGED <<local, session>>
  BY DEF clientVars
<1>6. DOMAIN tokens' = DOMAIN tokens
      /\ \A n \in DOMAIN tokens : tokens'[n].parent = tokens[n].parent
  BY <1>1 DEF OnlyRevoked, Types, Rows
<1>7. \A p \in Requests : New(p)' => New(p) /\ loc'[p] = loc[p]
  <2>1. ~New(q)'
    BY <1>2, <1>3 DEF New, Admitted, CallStages
  <2> QED BY <1>3, <2>1 DEF New
<1>8. /\ pc'[r] \in {"sent", "rotate", "issue"} =>
           pc[r] \in {"sent", "rotate", "issue"} /\ loc'[r].token = loc[r].token
      /\ pc'[r] \in CallStages => pc[r] \in CallStages /\ loc'[r].token = loc[r].token
      /\ ~Unanswered(r)' => ~Unanswered(r) /\ loc'[r].token = loc[r].token
  <2>1. CASE r = q
    BY <1>2, <1>3, <1>4, <2>1 DEF CallStages, Unanswered
  <2>2. CASE r # q
    BY <1>3, <2>2 DEF Unanswered
  <2> QED BY <2>1, <2>2
<1>9. Unanswered(r)' => \A k \in {local, session[t]} \ {0} : Untraded(k)
  <2>1. CASE Unanswered(r)
    BY <1>4, <2>1 DEF Unrepeated
  <2>2. CASE ~Unanswered(r) /\ Unanswered(r)'
    <3>1. pc[r] = "answered" /\ r = q
      BY <1>3, <2>2 DEF Unanswered
    <3>2. FALSE
      BY <1>4, <3>1, AnsweredIsNotServed
    <3> QED BY <3>2
  <2> QED BY <2>1, <2>2
<1>10. pc'[r] \in {"sent", "rotate", "issue"} \/ ~Unanswered(r)' =>
         \A n \in DOMAIN tokens' : tokens'[n].parent # loc'[r].token
  BY <1>4, <1>6, <1>8 DEF Unrepeated, Untraded
<1>11. Unanswered(r)' => \A k \in {local', session'[t]} \ {0} :
                           \A n \in DOMAIN tokens' : tokens'[n].parent # k
  BY <1>5, <1>6, <1>9 DEF Untraded
<1>12. \A p \in Requests : New(p)' =>
          /\ \A n \in DOMAIN tokens' : tokens'[n].parent # loc'[p].token
          /\ loc'[p].token \notin {0, local', session'[t]}
          /\ pc'[r] \in CallStages => loc'[p].token # loc'[r].token
  BY <1>4, <1>5, <1>6, <1>7, <1>8 DEF Unrepeated, Untraded
<1>13. \A p, o \in Requests : New(p)' /\ New(o)' /\ p # o => loc'[p].token # loc'[o].token
  BY <1>7 DEF Unrepeated
<1> QED BY <1>4, <1>10, <1>11, <1>12, <1>13 DEF Unrepeated, Untraded

\* A refresh trades its own token in, which no stored or new pair is; and a new token
\* has not been traded.
LEMMA IssueUnrepeated ==
  ASSUME Types, NEW t \in Tabs, \A u \in Tabs : u = t, Parents, Unrepeated(t),
         NEW q \in Requests, Issue(q), UNCHANGED clientVars
  PROVE  Parents' /\ Unrepeated(t)'
<1>1. pc[q] = "issue" /\ pc[q] \in CallStages /\ UNCHANGED <<local, session>>
  BY DEF Issue, Continue, CallStages, clientVars
<1>2. /\ Fits(q, "issue", loc[q], Len(tokens), Len(resets)) /\ loc[q] \in Body
      /\ loc[q].token \in 0..Len(tokens)
  BY <1>1, Held
<1>3. PICK m \in Nat : m = Len(tokens) + 1
  BY DEF Types, Rows
<1>4. tokens \in Seq(RefreshToken) /\ Len(tokens) \in Nat /\ Len(tokens) < m
      /\ DOMAIN tokens = 1..Len(tokens)
  BY <1>3 DEF Types, Rows
<1>5. PICK row : row = [user |-> loc[q].user, revoked |-> FALSE, expires |-> now + RefreshTtl,
                        issued |-> now, parent |-> loc[q].token, secret |-> loc[q].password]
  OBVIOUS
<1>6. tokens' = Append(tokens, row) /\ row.parent = loc[q].token
  BY <1>5 DEF Issue
<1>7. /\ DOMAIN tokens' = 1..m /\ tokens'[m].parent = loc[q].token
      /\ \A n \in 1..Len(tokens) : tokens'[n] = tokens[n]
  BY <1>3, <1>4, <1>6
<1>8. \A n \in 1..m : n = m \/ n \in 1..Len(tokens)
  BY <1>3, <1>4
<1>9. Parents'
  BY <1>2, <1>4, <1>7, <1>8 DEF Parents
<1>10. PICK l \in Body : l = loc[q]
  BY <1>2
<1>11. PICK k : k = [l EXCEPT !.status = 200, !.token = m]
  OBVIOUS
<1>12. k.status = 200 /\ k.token = m /\ k.kind = loc[q].kind
  BY <1>10, <1>11 DEF Body
<1>13. Goto(q, "answered", k)
  BY <1>3, <1>10, <1>11 DEF Issue
<1>14. /\ pc'[q] = "answered" /\ loc'[q] = k
       /\ \A p \in Requests : p # q => pc'[p] = pc[p] /\ loc'[p] = loc[p]
  BY <1>13 DEF Goto, Types, Control
\* Nobody could trade m yet.
<1>15. \A n \in 1..m : tokens'[n].parent # m
  BY <1>3, <1>4, <1>7, <1>9 DEF Parents
\* Who is not the token traded in, is traded as little as before.
<1>16. ASSUME NEW x, Untraded(x), x # loc[q].token
       PROVE  \A n \in 1..m : tokens'[n].parent # x
  BY <1>4, <1>7, <1>8, <1>16 DEF Untraded
<1>17. PICK r \in Requests : r = Refresher(t) /\ r \in Refreshers /\ (q \in Refreshers => q = r)
  BY Refreshing DEF Refreshers
<1>18. local \in 0..Len(tokens) /\ session[t] \in 0..Len(tokens)
  BY DEF Types, Pairs
<1>19. \A p \in Requests : New(p) => loc[p].token \in 0..Len(tokens)
  <2> SUFFICES ASSUME NEW p \in Requests, New(p) PROVE loc[p].token \in 0..Len(tokens)
    OBVIOUS
  <2>1. pc[p] \in CallStages
    BY DEF New, Admitted, CallStages
  <2> QED BY <2>1, Held
<1>20. ~New(q)
  BY <1>1 DEF New, Admitted
<1>21. CASE loc[q].kind = "refresh"
  <2>1. q = r
    BY <1>2, <1>17, <1>21 DEF Fits, CallStages
  <2>2. \A p \in Requests : New(p)' => p # r /\ New(p) /\ loc'[p] = loc[p]
    <3>1. ~New(r)'
      BY <1>12, <1>14, <1>21, <2>1 DEF New, Admitted, Entries
    <3> QED BY <1>14, <2>1, <3>1 DEF New
  <2>3. ~Unanswered(r)' /\ loc'[r].token = m
    BY <1>12, <1>14, <2>1 DEF Unanswered
  <2>4. ASSUME NEW p \in Requests, New(p)'
        PROVE  /\ \A n \in 1..m : tokens'[n].parent # loc'[p].token
               /\ loc'[p].token \notin {0, local, session[t], m}
    <3>1. New(p) /\ loc'[p] = loc[p]
      BY <2>2, <2>4
    <3>2. Untraded(loc[p].token) /\ loc[p].token \notin {0, local, session[t]}
          /\ loc[p].token # loc[q].token
      BY <1>1, <1>17, <2>1, <3>1 DEF Unrepeated
    <3>3. loc[p].token # m
      BY <1>3, <1>4, <1>19, <3>1
    <3>4. \A n \in 1..m : tokens'[n].parent # loc[p].token
      BY <1>16, <3>2
    <3> QED BY <3>1, <3>2, <3>3, <3>4
  <2>5. \A p, o \in Requests : New(p)' /\ New(o)' /\ p # o => loc'[p].token # loc'[o].token
    BY <2>2 DEF Unrepeated
  <2>6. Unrepeated(t)'
    BY <1>1, <1>7, <1>15, <1>17, <2>3, <2>4, <2>5 DEF Unrepeated, Untraded
  <2> QED BY <1>9, <2>6
<1>22. CASE loc[q].kind # "refresh"
  <2>1. loc[q].token = 0 /\ q # r /\ q \notin Refreshers
    BY <1>2, <1>17, <1>22 DEF Fits, CallStages, Admitted
  <2>2. pc'[r] = pc[r] /\ loc'[r] = loc[r]
    BY <1>14, <2>1
  <2>3. pc[r] \in CallStages => loc[r].token # 0 /\ loc[r].token \in 0..Len(tokens)
    <3> SUFFICES ASSUME pc[r] \in CallStages
                 PROVE  loc[r].token # 0 /\ loc[r].token \in 0..Len(tokens)
      OBVIOUS
    <3>1. Fits(r, pc[r], loc[r], Len(tokens), Len(resets)) /\ loc[r].token \in 0..Len(tokens)
      BY Held
    <3> QED BY <1>17, <3>1 DEF Fits
  <2>4. pc'[r] \in {"sent", "rotate", "issue"} \/ ~Unanswered(r)' =>
          \A n \in 1..m : tokens'[n].parent # loc'[r].token
    <3> SUFFICES ASSUME pc[r] \in {"sent", "rotate", "issue"} \/ ~Unanswered(r)
                 PROVE  \A n \in 1..m : tokens'[n].parent # loc[r].token
      BY <2>2 DEF Unanswered
    <3>1. Untraded(loc[r].token)
      BY <1>17 DEF Unrepeated
    <3>2. pc[r] \in CallStages
      BY DEF Unanswered, CallStages
    <3> QED BY <1>16, <2>1, <2>3, <3>1, <3>2
  <2>5. Unanswered(r)' => \A x \in {local', session'[t]} \ {0} :
                            \A n \in 1..m : tokens'[n].parent # x
    <3> SUFFICES ASSUME Unanswered(r), NEW x \in {local, session[t]} \ {0}
                 PROVE  \A n \in 1..m : tokens'[n].parent # x
      BY <1>1, <2>2 DEF Unanswered
    <3>1. Untraded(x)
      BY <1>17 DEF Unrepeated
    <3> QED BY <1>16, <2>1, <3>1
  <2>6. ASSUME NEW p \in Requests, New(p)'
        PROVE  /\ \A n \in 1..m : tokens'[n].parent # loc'[p].token
               /\ loc'[p].token \notin {0, local, session[t]}
               /\ pc[r] \in CallStages => loc'[p].token # loc[r].token
    <3>1. CASE p = q
      BY <1>3, <1>4, <1>12, <1>14, <1>15, <1>18, <2>3, <3>1
    <3>2. CASE p # q
      <4>1. New(p) /\ loc'[p] = loc[p]
        BY <1>14, <2>6, <3>2 DEF New
      <4>2. Untraded(loc[p].token) /\ loc[p].token \notin {0, local, session[t]}
            /\ (pc[r] \in CallStages => loc[p].token # loc[r].token)
        BY <1>17, <4>1 DEF Unrepeated
      <4>3. \A n \in 1..m : tokens'[n].parent # loc[p].token
        BY <1>16, <2>1, <4>2
      <4> QED BY <4>1, <4>2, <4>3
    <3> QED BY <3>1, <3>2
  <2>7. ASSUME NEW p \in Requests, NEW o \in Requests, New(p)', New(o)', p # o
        PROVE  loc'[p].token # loc'[o].token
    <3>1. \A x \in Requests : x # q /\ New(x)' => New(x) /\ loc'[x] = loc[x]
      BY <1>14 DEF New
    <3>2. CASE p # q /\ o # q
      BY <2>7, <3>1, <3>2 DEF Unrepeated
    <3>3. CASE p = q
      <4>1. loc'[o].token \in 0..Len(tokens)
        BY <1>19, <2>7, <3>1, <3>3
      <4> QED BY <1>3, <1>4, <1>12, <1>14, <3>3, <4>1
    <3>4. CASE o = q
      <4>1. loc'[p].token \in 0..Len(tokens)
        BY <1>19, <2>7, <3>1, <3>4
      <4> QED BY <1>3, <1>4, <1>12, <1>14, <3>4, <4>1
    <3> QED BY <3>2, <3>3, <3>4
  <2>8. Unrepeated(t)'
    BY <1>1, <1>7, <1>17, <2>2, <2>4, <2>5, <2>6, <2>7 DEF Unrepeated, Untraded
  <2> QED BY <1>9, <2>8
<1> QED BY <1>21, <1>22

\* What a tab does: nothing of it trades a token, and it stores at most a pair that
\* nobody has traded and no other call brings.
LEMMA TabUnrepeated ==
  ASSUME UNCHANGED tokens, NEW t \in Tabs, Unrepeated(t), NEW r, r = Refresher(t),
         \A p \in Requests : New(p)' => New(p) /\ loc'[p] = loc[p],
         \/ pc'[r] = pc[r] /\ loc'[r] = loc[r]
         \/ pc'[r] = "new"
         \/ /\ pc[r] = "new" /\ pc'[r] = "sent"
            /\ loc'[r].token = Stored(t) /\ Stored(t) # 0 /\ UNCHANGED <<local, session>>,
         \/ /\ local' = local /\ session'[t] = session[t]
            /\ pc'[r] = "new" => Unanswered(r)
         \/ \E n : /\ {local', session'[t]} \subseteq {0, n}
                   /\ n # 0 => /\ Untraded(n)
                               /\ \A p \in Requests : New(p)' => loc[p].token # n
  PROVE  Unrepeated(t)'
<1>1. pc'[r] = pc[r] /\ loc'[r] = loc[r] => (Unanswered(r)' <=> Unanswered(r))
  BY DEF Unanswered
<1>2. pc'[r] \in {"new", "sent"} => Unanswered(r)'
  BY DEF Unanswered
<1>3. pc'[r] \in {"sent", "rotate", "issue"} \/ ~Unanswered(r)' =>
        \A n \in DOMAIN tokens' : tokens'[n].parent # loc'[r].token
  <2>1. CASE pc'[r] = pc[r] /\ loc'[r] = loc[r]
    BY <1>1, <2>1 DEF Unrepeated, Untraded
  <2>2. CASE pc'[r] = "new"
    BY <1>2, <2>2
  <2>3. CASE /\ pc[r] = "new" /\ pc'[r] = "sent"
             /\ loc'[r].token = Stored(t) /\ Stored(t) # 0
    <3>1. Unanswered(r)
      BY <2>3 DEF Unanswered
    <3> QED BY <2>3, <3>1 DEF Unrepeated, Untraded, Stored
  <2> QED BY <2>1, <2>2, <2>3
<1>4. Unanswered(r)' => \A k \in {local', session'[t]} \ {0} :
                          \A n \in DOMAIN tokens' : tokens'[n].parent # k
  <2>1. CASE local' = local /\ session'[t] = session[t] /\ (pc'[r] = "new" => Unanswered(r))
    <3>1. Unanswered(r)' => Unanswered(r)
      BY <1>1, <2>1 DEF Unanswered
    <3> QED BY <2>1, <3>1 DEF Unrepeated, Untraded
  <2>2. CASE \E n : /\ {local', session'[t]} \subseteq {0, n}
                    /\ n # 0 => Untraded(n)
    BY <2>2 DEF Untraded
  <2> QED BY <2>1, <2>2
<1>5. ASSUME NEW p \in Requests, New(p)'
      PROVE  /\ \A n \in DOMAIN tokens' : tokens'[n].parent # loc'[p].token
             /\ loc'[p].token \notin {0, local', session'[t]}
             /\ pc'[r] \in CallStages => loc'[p].token # loc'[r].token
  <2>1. New(p) /\ loc'[p] = loc[p]
    BY <1>5
  <2>2. /\ Untraded(loc[p].token) /\ loc[p].token \notin {0, local, session[t]}
        /\ pc[r] \in CallStages => loc[p].token # loc[r].token
    BY <2>1 DEF Unrepeated
  <2>3. loc[p].token \notin {0, local', session'[t]}
    BY <1>5, <2>2
  <2>4. pc'[r] \in CallStages => loc[p].token # loc'[r].token
    BY <2>2 DEF Stored, CallStages
  <2> QED BY <2>1, <2>2, <2>3, <2>4 DEF Untraded
<1>6. \A p, o \in Requests : New(p)' /\ New(o)' /\ p # o => loc'[p].token # loc'[o].token
  BY DEF Unrepeated
<1> QED BY <1>3, <1>4, <1>5, <1>6 DEF Unrepeated, Untraded

\* A call of the tab moves on; the refresh does not.
LEMMA LaneUnrepeated ==
  ASSUME Types, UNCHANGED tokens, NEW t \in Tabs, Unrepeated(t), NEW l \in Lanes,
         NEW s \in {"new", "sent"}, NEW k, Goto(<<t, l>>, s, k),
         \/ UNCHANGED <<local, session>>
         \/ ClearTokens(t)
         \/ /\ New(<<t, l>>) \/ loc[<<t, l>>].token = 0
            /\ SetTokens(t, loc[<<t, l>>].token, loc[<<t, l>>].keep)
  PROVE  Unrepeated(t)'
<1>. DEFINE q == <<t, l>>
<1>1. PICK r \in Requests : r = Refresher(t) /\ r # q
  BY Refreshing
<1>2. q \in Requests
  BY Refreshing
<1>3. /\ pc'[q] = s /\ \A p \in Requests : p # q => pc'[p] = pc[p] /\ loc'[p] = loc[p]
  BY <1>2 DEF Goto, Types, Control
<1>4. \A p \in Requests : New(p)' => p # q /\ New(p) /\ loc'[p] = loc[p]
  <2>1. ~New(q)'
    BY <1>3 DEF New, Admitted
  <2> QED BY <1>3, <2>1 DEF New
<1>5. pc'[r] = pc[r] /\ loc'[r] = loc[r]
  BY <1>1, <1>3
<1>6. CASE UNCHANGED <<local, session>>
  <2>1. pc'[r] = "new" => Unanswered(r)
    BY <1>5 DEF Unanswered
  <2> QED BY <1>1, <1>4, <1>5, <1>6, <2>1, TabUnrepeated
<1>7. CASE ClearTokens(t)
  <2>1. {local', session'[t]} \subseteq {0, 0}
    BY <1>7 DEF ClearTokens, SetTokens, Types, Pairs
  <2> QED BY <1>1, <1>4, <1>5, <2>1, TabUnrepeated
<1>8. CASE /\ New(q) \/ loc[q].token = 0
           /\ SetTokens(t, loc[q].token, loc[q].keep)
  <2>1. PICK n : n = loc[q].token
    OBVIOUS
  <2>2. {local', session'[t]} \subseteq {0, n}
    BY <1>8, <2>1 DEF SetTokens, Types, Pairs
  <2>3. n # 0 => Untraded(n) /\ \A p \in Requests : New(p)' => loc[p].token # n
    BY <1>2, <1>4, <1>8, <2>1 DEF Unrepeated
  <2> QED BY <1>1, <1>4, <1>5, <2>2, <2>3, TabUnrepeated
<1> QED BY <1>6, <1>7, <1>8

LEMMA AbandonedPair ==
  ASSUME NEW t \in Tabs, NEW goals, Abandon(t, goals)
  PROVE  UNCHANGED <<local, session>> \/ ClearTokens(t)
BY DEF Abandon, clientVars

LEMMA LanesUnrepeated ==
  ASSUME Types, UNCHANGED tokens, NEW t \in Tabs, Unrepeated(t), NEW l \in Lanes,
         \/ StartCall(t, l) \/ StartLogin(t, l) \/ StartForgot(t, l)
         \/ StartLogout(t, l) \/ Reload(t, l)
         \/ Resolve(t, l) \/ Reject(t, l) \/ CallLost(t, l)
  PROVE  Unrepeated(t)'
<1>. DEFINE q == <<t, l>>
<1>1. q \in Requests
  BY Refreshing
<1>2. CASE StartCall(t, l) \/ StartLogin(t, l) \/ StartForgot(t, l)
  <2>1. UNCHANGED <<local, session>> /\ \E k : Goto(q, "sent", k)
    BY <1>2 DEF StartCall, StartLogin, StartForgot, Send, clientVars
  <2> QED BY <2>1, LaneUnrepeated
<1>3. CASE StartLogout(t, l) \/ Reload(t, l)
  <2>1. UNCHANGED <<local, session>>
    BY <1>3 DEF StartLogout, Reload, clientVars
  <2>2. UNCHANGED runtimeVars \/ \E k : Goto(q, "sent", k)
    BY <1>3 DEF StartLogout, Reload, Send, runtimeVars
  <2>3. CASE UNCHANGED runtimeVars
    BY <2>1, <2>3 DEF runtimeVars, Unrepeated, Untraded, Unanswered, New
  <2> QED BY <2>1, <2>2, <2>3, LaneUnrepeated
<1>4. CASE Reject(t, l) \/ CallLost(t, l)
  <2>1. \E k : Goto(q, "new", k)
    BY <1>4 DEF Reject, CallLost, Ended
  <2>2. UNCHANGED <<local, session>> \/ ClearTokens(t)
    BY <1>4, AbandonedPair DEF Reject, CallLost
  <2> QED BY <2>1, <2>2, LaneUnrepeated
<1>5. CASE Resolve(t, l)
  <2>1. CASE /\ loc[q].goal = "login"
             /\ SetTokens(t, loc[q].token, loc[q].keep)
             /\ \E k : Goto(q, "sent", k)
    <3>1. pc[q] = "answered"
      BY <1>5 DEF Resolve
    <3>2. Fits(q, "answered", loc[q], Len(tokens), Len(resets))
      BY <1>1, <3>1 DEF Types, Bodies
    <3>3. loc[q].kind \in Entries
      BY <2>1, <3>2 DEF Fits, CallStages
    <3>4. New(q) \/ loc[q].token = 0
      BY <3>1, <3>2, <3>3 DEF Fits, CallStages, New
    <3> QED BY <2>1, <3>4, LaneUnrepeated
  <2>2. CASE /\ \E k : Goto(q, "new", k)
             /\ UNCHANGED <<local, session>> \/ ClearTokens(t)
    BY <2>2, LaneUnrepeated
  <2> QED BY <1>5, <2>1, <2>2 DEF Resolve, Send, Ended, clientVars
<1> QED BY <1>2, <1>3, <1>4, <1>5

LEMMA AwaitUnrepeated ==
  ASSUME Types, UNCHANGED tokens, NEW t \in Tabs, Unrepeated(t), NEW l \in Lanes,
         AwaitRefresh(t, l)
  PROVE  Unrepeated(t)'
<1>. DEFINE q == <<t, l>>
<1>1. PICK r \in Requests : r = Refresher(t) /\ r # q
  BY Refreshing
<1>2. q \in Requests /\ UNCHANGED <<local, session>> /\ Stored(t) # 0
  BY Refreshing DEF AwaitRefresh, clientVars, Retriable
<1>3. CASE pc[r] = "new"
  <2>1. PICK g : g = AskedOnce(t, "refresh")
    OBVIOUS
  <2>2. g \in Body /\ g.token = Stored(t)
    BY <2>1, GetBody DEF Goals
  <2>3. PICK k : k = [g EXCEPT !.kind = "refresh"]
    OBVIOUS
  <2>4. k.token = Stored(t)
    BY <2>2, <2>3 DEF Body
  <2>5. pc' = [pc EXCEPT ![q] = "waiting", ![r] = "sent"] /\ loc' = [loc EXCEPT ![r] = k]
    BY <1>1, <1>3, <2>1, <2>3 DEF AskedOnce, AwaitRefresh
  <2>6. /\ pc'[q] = "waiting" /\ pc'[r] = "sent" /\ loc'[r] = k
        /\ \A p \in Requests : p # q /\ p # r => pc'[p] = pc[p] /\ loc'[p] = loc[p]
    BY <1>1, <1>2, <2>5 DEF Types, Control
  <2>7. \A p \in Requests : New(p)' => New(p) /\ loc'[p] = loc[p]
    <3>1. ~New(q)' /\ ~New(r)'
      BY <2>6 DEF New, Admitted
    <3> QED BY <2>6, <3>1 DEF New
  <2>8. local' = local /\ session'[t] = session[t] /\ (pc'[r] = "new" => Unanswered(r))
    BY <1>2, <2>6
  <2>9. /\ pc[r] = "new" /\ pc'[r] = "sent"
        /\ loc'[r].token = Stored(t) /\ Stored(t) # 0 /\ UNCHANGED <<local, session>>
    BY <1>2, <1>3, <2>4, <2>6
  <2> QED BY <1>1, <2>7, <2>8, <2>9, TabUnrepeated
<1>4. CASE pc[r] # "new"
  <2>1. pc' = [pc EXCEPT ![q] = "waiting"] /\ loc' = loc
    BY <1>1, <1>4 DEF AwaitRefresh
  <2>2. pc'[q] = "waiting" /\ \A p \in Requests : p # q => pc'[p] = pc[p]
    BY <1>2, <2>1 DEF Types, Control
  <2>3. \A p \in Requests : New(p)' => New(p) /\ loc'[p] = loc[p]
    <3>1. ~New(q)'
      BY <2>2 DEF New, Admitted
    <3> QED BY <2>1, <2>2, <3>1 DEF New
  <2>4. pc'[r] = pc[r] /\ loc'[r] = loc[r] /\ (pc'[r] = "new" => Unanswered(r))
    BY <1>1, <1>4, <2>1, <2>2
  <2> QED BY <1>1, <1>2, <2>3, <2>4, TabUnrepeated
<1> QED BY <1>3, <1>4

\* Where no answer is lost, a refresh that was traded in settles with its new pair.
LEMMA SettleUnrepeated ==
  ASSUME Types, UNCHANGED tokens, NEW t \in Tabs, Unrepeated(t), ~LossyAnswers,
         Refreshed(t) \/ RefreshRefused(t) \/ RefreshLost(t)
  PROVE  Unrepeated(t)'
<1>1. PICK r \in Requests : r = Refresher(t) /\ r \in Refreshers
  BY Refreshing
<1>2. \E stage \in {"new", "sent"} :
        pc' = [q \in Requests |-> IF q = r THEN "new"
                                  ELSE IF q \in Waiters(t) THEN stage ELSE pc[q]]
  BY <1>1 DEF Refreshed, RefreshRefused, RefreshLost, Settle
<1>3. \A p \in Requests : p # r /\ p \notin Waiters(t) => loc'[p] = loc[p]
  <2>1. CASE Refreshed(t)
    <3>1. PICK locals : locals = [q \in Waiters(t) |-> Resent(loc[q], loc[Refresher(t)].token)]
      OBVIOUS
    <3> QED BY <1>1, <2>1, <3>1, RefreshedSettles
  <2>2. CASE RefreshRefused(t) \/ RefreshLost(t)
    BY <1>1, <2>2 DEF RefreshRefused, RefreshLost, Settle
  <2> QED BY <2>1, <2>2
<1>4. pc'[r] = "new"
  BY <1>2
<1>5. \A p \in Requests : New(p)' => New(p) /\ loc'[p] = loc[p]
  <2> SUFFICES ASSUME NEW p \in Requests, New(p)' PROVE New(p) /\ loc'[p] = loc[p]
    OBVIOUS
  <2>1. pc'[p] = "answered"
    BY DEF New, Admitted
  <2>2. p # r /\ p \notin Waiters(t) /\ pc[p] = "answered"
    BY <1>2, <2>1
  <2> QED BY <1>3, <2>1, <2>2 DEF New
<1>6. CASE Refreshed(t)
  <2>1. PICK n : n = loc[r].token
    OBVIOUS
  <2>2. SetTokens(t, n, local # 0) /\ pc[r] = "answered" /\ ~Unanswered(r)
    BY <1>1, <1>6, <2>1 DEF Refreshed, StoreRefreshed, Unanswered
  <2>3. {local', session'[t]} \subseteq {0, n}
    BY <2>2 DEF SetTokens, Types, Pairs
  <2>4. Untraded(n) /\ \A p \in Requests : New(p) => loc[p].token # n
    BY <1>1, <2>1, <2>2 DEF Unrepeated, CallStages
  <2> QED BY <1>1, <1>4, <1>5, <2>3, <2>4, TabUnrepeated
<1>7. CASE ClearTokens(t)
  <2>1. {local', session'[t]} \subseteq {0, 0}
    BY <1>7 DEF ClearTokens, SetTokens, Types, Pairs
  <2> QED BY <1>1, <1>4, <1>5, <2>1, TabUnrepeated
<1>8. CASE RefreshLost(t) /\ UNCHANGED <<local, session>>
  <2>1. Unanswered(r)
    BY <1>1, <1>8 DEF RefreshLost, Undelivered, Unanswered
  <2> QED BY <1>1, <1>4, <1>5, <1>8, <2>1, TabUnrepeated
<1>9. RefreshLost(t) => UNCHANGED <<local, session>> \/ ClearTokens(t)
  BY AbandonedPair DEF RefreshLost
<1> QED BY <1>6, <1>7, <1>8, <1>9 DEF RefreshRefused

LEMMA InitUnrepeated ==
  ASSUME Init, NEW t \in Tabs
  PROVE  Parents /\ Unrepeated(t)
<1>1. tokens = <<>> /\ local = 0 /\ session[t] = 0 /\ \A q \in Requests : pc[q] = "new"
  BY DEF Init, SessionsInit, ClientInit, RuntimeInit
<1>2. Parents
  BY <1>1 DEF Parents
<1>3. \A q \in Requests : ~New(q)
  BY <1>1 DEF New, Admitted
<1>4. pc[Refresher(t)] = "new"
  BY <1>1, Refreshing
<1> QED BY <1>1, <1>2, <1>3, <1>4 DEF Unrepeated, Unanswered

LEMMA NextUnrepeated ==
  ASSUME Types, NEW t \in Tabs, \A u \in Tabs : u = t, ~LossyAnswers,
         Parents, Unrepeated(t), [Next]_vars
  PROVE  Parents' /\ Unrepeated(t)'
<1>1. ASSUME NEW q \in Requests, Serve(q) \/ ServeDirect(q), UNCHANGED clientVars
      PROVE  Parents' /\ Unrepeated(t)'
  <2>1. CASE Issue(q)
    BY <1>1, <2>1, IssueUnrepeated
  <2>2. CASE ~Issue(q)
    BY <1>1, <2>2, UnissuedUnrepeated, ServeKeepsPairs, ParentsKept
  <2> QED BY <2>1, <2>2
<1>2. UNCHANGED tokens => Parents'
  BY DEF Parents
<1>3. ASSUME NEW u \in Tabs, NEW l \in Lanes,
             \/ StartCall(u, l) \/ StartLogin(u, l) \/ StartForgot(u, l)
             \/ StartLogout(u, l) \/ Reload(u, l)
             \/ Resolve(u, l) \/ Reject(u, l) \/ CallLost(u, l),
             UNCHANGED tokens
      PROVE  Parents' /\ Unrepeated(t)'
  BY <1>2, <1>3, LanesUnrepeated
<1>4. ASSUME NEW u \in Tabs, NEW l \in Lanes, AwaitRefresh(u, l), UNCHANGED tokens
      PROVE  Parents' /\ Unrepeated(t)'
  BY <1>2, <1>4, AwaitUnrepeated
<1>5. ASSUME NEW u \in Tabs, Refreshed(u) \/ RefreshRefused(u) \/ RefreshLost(u),
             UNCHANGED tokens
      PROVE  Parents' /\ Unrepeated(t)'
  BY <1>2, <1>5, SettleUnrepeated
<1>6. CASE UNCHANGED vars \/ (Tick /\ UNCHANGED <<sessionTables, clientVars>>)
  <2>1. UNCHANGED <<pc, loc, tokens, local, session>>
    BY <1>6 DEF vars, runtimeVars, sessionTables, clientVars, Tick
  <2> QED BY <1>2, <2>1 DEF Unrepeated, Untraded, Unanswered, New
<1>7. ASSUME NEW u \in Tabs, NEW l \in Lanes,
             \/ StartCall(u, l) \/ StartLogin(u, l) \/ StartForgot(u, l)
             \/ StartLogout(u, l) \/ Reload(u, l)
      PROVE  UNCHANGED tokens
  BY <1>7 DEF StartCall, StartLogin, StartForgot, StartLogout, Reload, sessionTables
<1>8. UNCHANGED sessionTables => UNCHANGED tokens
  BY DEF sessionTables
<1> QED BY <1>1, <1>3, <1>4, <1>5, <1>6, <1>7, <1>8 DEF Next, Receives, ReceivesRefresh, Network

\* In a browser with one tab, and where no answer is lost, no token is presented twice,
\* with any number of calls, logins and requests of the back end under way together
\* (client.ts:56, auth.service.ts:212).
THEOREM OneTabNeverReplays ==
  ASSUME \A t, u \in Tabs : t = u, ~LossyAnswers
  PROVE  Spec => []NoReplay
<1>. DEFINE Chain == Types /\ \A t \in Tabs : Parents /\ Unrepeated(t)
<1>1. Init => Chain
  BY InitTypes, InitUnrepeated
<1>2. Chain /\ [Next]_vars => Chain'
  <2> SUFFICES ASSUME Types, \A t \in Tabs : Parents /\ Unrepeated(t), [Next]_vars
               PROVE  Types' /\ \A t \in Tabs : Parents' /\ Unrepeated(t)'
    OBVIOUS
  <2> QED BY NextTypes, NextUnrepeated
<1>3. Chain => NoReplay
  BY DEF Unrepeated, NoReplay, Untraded
<1> QED BY <1>1, <1>2, <1>3, PTL DEF Spec

=============================================================================
