----------------------------- MODULE ApiClient ------------------------------
(***************************************************************************)
(* The browser's side of a session: api/client.ts and the parts of         *)
(* store.tsx that sign in and out.  The tabs of one browser share          *)
(* localStorage; each has a sessionStorage of its own.  A tab makes calls  *)
(* on its lanes, each a run of api(): send, and after a 401 wait for the   *)
(* tab's one refresh (its promise is the lane "refresh") and send again.   *)
(* The request <<t, l>> is what lane l of tab t has under way.             *)
(***************************************************************************)
EXTENDS Sessions

CONSTANTS
  Tabs,
  Lanes,         \* bound: calls a tab has under way together
  Remember,      \* choices of "keep me signed in" that users make
  MaxLogins,     \* bound: no login or registration once there are so many tokens
  LossyAnswers   \* whether answers can be lost, and not only requests

ASSUME ApiClientAssumption ==
  /\ "refresh" \notin Lanes
  /\ Tabs \X (Lanes \cup {"refresh"}) \subseteq Requests
  /\ Remember \subseteq BOOLEAN
  /\ LossyAnswers \in BOOLEAN

VARIABLES
  local,    \* the pair in localStorage, 0 if there is none
  session,  \* session[t]: the pair in the sessionStorage of tab t
  signedIn  \* signedIn[t]: the tab has a role, so it shows the application

clientVars == <<local, session, signedIn>>

vars == <<runtimeVars, sessionTables, clientVars>>

ClientInit ==
  /\ local = 0
  /\ session = [t \in Tabs |-> 0]
  /\ signedIn = [t \in Tabs |-> FALSE]

Refresher(t) == <<t, "refresh">>

Calls(t) == {t} \X Lanes

-----------------------------------------------------------------------------
(* The stored pair *)

\* getAccessToken, getRefreshToken
Stored(t) == IF session[t] # 0 THEN session[t] ELSE local

\* setTokens: written to one storage, removed from the other.
SetTokens(t, n, persist) ==
  /\ local' = IF persist THEN n ELSE 0
  /\ session' = [session EXCEPT ![t] = IF persist THEN 0 ELSE n]

ClearTokens(t) == SetTokens(t, 0, FALSE)

-----------------------------------------------------------------------------
(* Sending *)

\* goal: what the page wants of the call; keep: the "remember" choice.
Request(kind, goal, u, p, n, retry, keep) ==
  [kind |-> kind, goal |-> goal, user |-> u, password |-> p, token |-> n,
   retry |-> retry, keep |-> keep, seen |-> NoLocals, status |-> 0]

Get(t, goal, retry) ==
  LET n == Stored(t)
  IN Request("call", goal, CHOOSE u \in Accounts : TRUE, CHOOSE p \in Passwords : TRUE,
             n, retry, FALSE)

Send(q, request) == Goto(q, "sent", request)

\* A page of the application calls the API.
StartCall(t, l) ==
  /\ signedIn[t]
  /\ pc[<<t, l>>] = "new"
  /\ Send(<<t, l>>, Get(t, "page", TRUE))
  /\ UNCHANGED <<sessionTables, clientVars>>

\* The tab shows its splash screen, or a form that is disabled until its call ends.
Entering(t) ==
  \E q \in Calls(t) : pc[q] # "new" /\ loc[q].goal \in {"boot", "login", "profile"}

\* Login and Signup; calls made before a logout may still be under way.
StartLogin(t, l) ==
  /\ ~signedIn[t] /\ ~Entering(t)
  /\ pc[<<t, l>>] = "new"
  /\ Len(tokens) < MaxLogins
  /\ \E kind \in {"login", "register"}, u \in Accounts, p \in Passwords, keep \in Remember :
       Send(<<t, l>>, Request(kind, "login", u, p, 0, TRUE, kind = "register" \/ keep))
  /\ UNCHANGED <<sessionTables, clientVars>>

\* requestPasswordReset, from the Login page.
StartForgot(t, l) ==
  /\ ~signedIn[t] /\ ~Entering(t)
  /\ pc[<<t, l>>] = "new"
  /\ Len(resets) < MaxResets
  /\ \E u \in Accounts :
       Send(<<t, l>>, [Get(t, "page", TRUE) EXCEPT !.kind = "forgot", !.user = u])
  /\ UNCHANGED <<sessionTables, clientVars>>

\* Without a token to revoke there is no call.
StartLogout(t, l) ==
  /\ signedIn[t]
  /\ pc[<<t, l>>] = "new"
  /\ IF Stored(t) # 0
     THEN /\ Send(<<t, l>>, [Get(t, "logout", TRUE) EXCEPT !.kind = "logout"])
          /\ UNCHANGED clientVars
     ELSE /\ signedIn' = [signedIn EXCEPT ![t] = FALSE]
          /\ UNCHANGED <<runtimeVars, local, session>>
  /\ UNCHANGED sessionTables

\* The tab is reloaded while nothing is under way (what was under way would count as a
\* lost answer): it boots from what is stored.
Reload(t, l) ==
  /\ \A k \in Lanes \cup {"refresh"} : pc[<<t, k>>] = "new"
  /\ signedIn[t]
  /\ signedIn' = [signedIn EXCEPT ![t] = FALSE]
  /\ IF Stored(t) # 0 THEN Send(<<t, l>>, Get(t, "boot", TRUE)) ELSE UNCHANGED runtimeVars
  /\ UNCHANGED <<sessionTables, local, session>>

-----------------------------------------------------------------------------
(* Receiving *)

\* The call ended, well or not, and nothing follows it.
Ended(q) == Goto(q, "new", NoLocals)

SignIn(t, shown) == signedIn' = [signedIn EXCEPT ![t] = shown]

\* A call of lane l resolves: login goes on to fetch the profile.
Resolve(t, l) ==
  LET q == <<t, l>>
      goal == loc[q].goal
  IN /\ pc[q] = "answered"
     /\ loc[q].status \in {200, 204}
     /\ \/ /\ goal = "login"
           /\ SetTokens(t, loc[q].token, loc[q].keep)
           /\ Send(q, [Get(t, "profile", TRUE) EXCEPT !.token = loc[q].token])
           /\ UNCHANGED signedIn
        \/ /\ goal \in {"profile", "boot"}
           /\ SignIn(t, TRUE) /\ Ended(q) /\ UNCHANGED <<local, session>>
        \/ goal = "logout" /\ SignIn(t, FALSE) /\ ClearTokens(t) /\ Ended(q)
        \/ goal = "page" /\ Ended(q) /\ UNCHANGED clientVars

\* Boot and logout give the tokens up when their call fails.
Abandon(t, goals) ==
  IF goals \cap {"boot", "logout"} # {}
  THEN ClearTokens(t) /\ SignIn(t, FALSE)
  ELSE UNCHANGED clientVars

\* Slip: a refresh without a token to refresh with.
RetriableAlways(t, q) == loc[q].status = 401 /\ loc[q].retry

\* 401 with a retry left and a token to refresh with.
Retriable(t, q) == loc[q].status = 401 /\ loc[q].retry /\ Stored(t) # 0

Reject(t, l) ==
  LET q == <<t, l>>
  IN /\ pc[q] = "answered"
     /\ loc[q].status \notin {200, 204}
     /\ ~Retriable(t, q)
     /\ Abandon(t, {loc[q].goal})
     /\ Ended(q)

Waiters(t) == {q \in Calls(t) : pc[q] = "waiting"}

\* refreshAccessToken: the first call sends the request, the others share its promise.
AwaitRefresh(t, l) ==
  LET q == <<t, l>>
      r == Refresher(t)
  IN /\ pc[q] = "answered"
     /\ Retriable(t, q)
     /\ IF pc[r] = "new"
        THEN /\ pc' = [pc EXCEPT ![q] = "waiting", ![r] = "sent"]
             /\ loc' = [loc EXCEPT ![r] = [Get(t, "refresh", FALSE) EXCEPT !.kind = "refresh"]]
        ELSE pc' = [pc EXCEPT ![q] = "waiting"] /\ UNCHANGED loc
     /\ UNCHANGED <<now, job, clientVars>>

\* The promise settles: every waiter goes on, with stage and locals given.
Settle(t, stage, locals(_)) ==
  /\ pc' = [q \in Requests |-> IF q = Refresher(t) THEN "new"
                               ELSE IF q \in Waiters(t) THEN stage ELSE pc[q]]
  /\ loc' = [q \in Requests |-> IF q = Refresher(t) THEN NoLocals
                                ELSE IF q \in Waiters(t) THEN locals(q) ELSE loc[q]]
  /\ UNCHANGED <<now, job>>

\* Slip: the new pair is used for the retries and not stored.
StoreNothing(t, n) == UNCHANGED <<local, session>>

\* Remembered or not by whether localStorage holds a pair now.
StoreRefreshed(t, n) == SetTokens(t, n, local # 0)

Refreshed(t) ==
  LET r == Refresher(t)
      n == loc[r].token
      Again(q) == IF loc[q].kind = "call" THEN [loc[q] EXCEPT !.token = n, !.retry = FALSE]
                  ELSE [loc[q] EXCEPT !.retry = FALSE]
  IN /\ pc[r] = "answered"
     /\ loc[r].status = 200
     /\ StoreRefreshed(t, n)
     /\ Settle(t, "sent", Again)
     /\ UNCHANGED signedIn

\* The waiters throw: the tokens are gone, whatever the calls were for.
RefreshRefused(t) ==
  LET r == Refresher(t)
      Nothing(q) == NoLocals
  IN /\ pc[r] = "answered"
     /\ loc[r].status # 200
     /\ ClearTokens(t)
     /\ IF \E q \in Waiters(t) : loc[q].goal \in {"boot", "logout"}
        THEN SignIn(t, FALSE) ELSE UNCHANGED signedIn
     /\ Settle(t, "new", Nothing)

\* fetch rejects: the request was not delivered, or (LossyAnswers) its answer.
Undelivered(q) == pc[q] = "sent" \/ (LossyAnswers /\ pc[q] = "answered")

CallLost(t, l) ==
  /\ Undelivered(<<t, l>>)
  /\ Abandon(t, {loc[<<t, l>>].goal})
  /\ Ended(<<t, l>>)

\* Slip: the promise is dropped without being rejected.
RefreshLostSilently(t) ==
  /\ Undelivered(Refresher(t))
  /\ Ended(Refresher(t))
  /\ UNCHANGED clientVars

RefreshLost(t) ==
  LET Nothing(q) == NoLocals
  IN /\ Undelivered(Refresher(t))
     /\ Abandon(t, {loc[q].goal : q \in Waiters(t)})
     /\ Settle(t, "new", Nothing)

Receives(t, l) == Resolve(t, l) \/ Reject(t, l) \/ AwaitRefresh(t, l)

ReceivesRefresh(t) == Refreshed(t) \/ RefreshRefused(t)

Network(t) == RefreshLost(t) \/ \E l \in Lanes : CallLost(t, l)

-----------------------------------------------------------------------------

Init == RuntimeInit /\ SessionsInit /\ ClientInit

Next ==
  \/ \E t \in Tabs :
       \/ \E l \in Lanes : StartCall(t, l) \/ StartLogin(t, l) \/ StartForgot(t, l)
                         \/ StartLogout(t, l) \/ Reload(t, l)
       \/ (\E l \in Lanes : Receives(t, l)) /\ UNCHANGED sessionTables
       \/ (ReceivesRefresh(t) \/ Network(t)) /\ UNCHANGED sessionTables
  \/ (\E q \in Requests : Serve(q) \/ ServeDirect(q)) /\ UNCHANGED clientVars
  \/ Tick /\ UNCHANGED <<sessionTables, clientVars>>

Spec == Init /\ [][Next]_vars

-----------------------------------------------------------------------------
(* Properties *)

\* Rows have their types, and everything stored or sent names a token that was issued.
TypeOK ==
  /\ users \in [Accounts -> User]
  /\ tokens \in Seq(RefreshToken)
  /\ resets \in Seq(ResetToken)
  /\ local \in 0..Len(tokens)
  /\ session \in [Tabs -> 0..Len(tokens)]
  /\ signedIn \in [Tabs -> BOOLEAN]
  /\ window \in [hits : 0..LoginLimit + 1, ends : Nat]
  /\ \A q \in Requests : pc[q] = "sent" /\ loc[q].kind \in {"refresh", "logout"} =>
                           loc[q].token \in DOMAIN tokens

\* A refresh token that is not revoked belongs to an active user and was obtained, over
\* however many refreshes, with the password the user has now: blocking a user and
\* resetting a password end every session (users.service.ts:271, auth.service.ts:287).
LiveTokensEntitled ==
  \A n \in DOMAIN tokens :
    ~tokens[n].revoked =>
      /\ Active(tokens[n].user)
      /\ tokens[n].secret = users[tokens[n].user].password

\* Guessing is paced: between two logins of a user no more than MaxFailed wrong
\* passwords are verified, and one more for every lockout that has run out since
\* (auth.service.ts:329), however often clients repeat a login.
GuessesPaced == \A u \in Accounts : guesses[u] <= MaxFailed + now \div LockTtl

\* A refresh never presents a token that was already traded in, which would burn every
\* session of the user (auth.service.ts:212): calls that meet a 401 together share one
\* refresh, and its result is stored before the next one starts (client.ts:56).
NoReplay ==
  \A t \in Tabs :
    LET r == Refresher(t)
    IN pc[r] = "sent" => \A n \in DOMAIN tokens : tokens[n].parent # loc[r].token

\* A call waits only for a refresh that is under way: whatever becomes of the refresh,
\* and although calls join it at any moment, nobody is left waiting (client.ts:75).
NobodyWaitsInVain == \A t \in Tabs : Waiters(t) # {} => pc[Refresher(t)] # "new"

=============================================================================
