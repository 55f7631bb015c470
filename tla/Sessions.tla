------------------------------ MODULE Sessions ------------------------------
(***************************************************************************)
(* Accounts and sessions: auth.service, users.service, the guards.  A      *)
(* session is a pair of tokens: a signed access token, good until it       *)
(* expires, and a refresh token, a row that is revoked when it is traded   *)
(* for the next pair.  Both get the number of the row.  A request q is     *)
(* "sent" by a client (module ApiClient), served in the steps below and    *)
(* "answered" with a status; loc[q] holds the request, what its handler    *)
(* has read and the answer.  Requests in Direct come from elsewhere (an    *)
(* administrator, the link in an e-mail): nobody waits for their answer.   *)
(***************************************************************************)
EXTENDS Runtime, Sequences

CONSTANTS
  Accounts,    \* e-mail addresses, each of at most one user
  Passwords,   \* passwords somebody may try or choose
  Direct,      \* requests that no browser of the model makes; each is made once
  MaxFailed,   \* maxFailedLoginAttempts
  LockTtl,     \* lockoutDurationMinutes
  AccessTtl,   \* life of an access token
  RefreshTtl,  \* life of a refresh token
  ResetTtl,    \* life of a password reset token
  LoginLimit,  \* throttle.loginLimit: logins per window
  LoginTtl,    \* throttle.loginTtl: length of a window
  StatusChoices,  \* bound: statuses that administrators give users
  MaxResets       \* bound: password resets that are asked for

UserStatuses == {"ACTIVE", "INACTIVE", "SUSPENDED"}

ASSUME SessionsAssumption ==
  /\ Accounts # {} /\ Passwords # {}
  /\ Direct \subseteq Requests
  /\ StatusChoices \subseteq UserStatuses
  /\ {MaxFailed, LockTtl, AccessTtl, RefreshTtl, ResetTtl, LoginLimit, LoginTtl}
       \subseteq Nat \ {0}

VARIABLES
  users,    \* users[u]: the row of account u
  tokens,   \* refresh_tokens, in the order they were inserted
  resets,   \* password_reset_tokens, likewise
  window,   \* the counter of the login route in Redis
  guesses   \* history: wrong passwords verified since the last login of each user

sessionTables == <<users, tokens, resets, window, guesses>>

User == [status: UserStatuses \cup {"ABSENT"}, password: Passwords,
         failed: Nat, lockedUntil: Nat]

\* parent: the token this one was traded for, 0 if a password was given for it;
\* secret: that password (both are history)
RefreshToken == [user: Accounts, revoked: BOOLEAN, expires: Nat, issued: Nat,
                 parent: Nat, secret: Passwords]

ResetToken == [user: Accounts, used: BOOLEAN, expires: Nat]

SessionsInit ==
  /\ users = [u \in Accounts |->
                [status |-> "ABSENT", password |-> CHOOSE p \in Passwords : TRUE,
                 failed |-> 0, lockedUntil |-> 0]]
  /\ tokens = <<>>
  /\ resets = <<>>
  /\ window = [hits |-> 0, ends |-> 0]
  /\ guesses = [u \in Accounts |-> 0]

-----------------------------------------------------------------------------
(* Serving a request *)

Serving == {q \in Requests : pc[q] \notin {"new", "sent", "waiting", "answered", "done"}}

CanServe(q) == q \in Serving \/ Cardinality(Serving) < Concurrency

Receive(q, kind) == pc[q] = "sent" /\ loc[q].kind = kind /\ CanServe(q)

Continue(q, stage) == pc[q] = stage /\ CanServe(q)

Answer(q, status) == Goto(q, "answered", [loc[q] EXCEPT !.status = status])

Unauthorized(q) == Answer(q, 401)

\* A request that no client waits for.
Directly(q) == q \in Direct /\ pc[q] = "new" /\ CanServe(q)

Active(u) == users[u].status = "ACTIVE"

-----------------------------------------------------------------------------
(* Tokens *)

\* issueTokenPair: one insert, after which the client is answered.
Issue(q) ==
  /\ Continue(q, "issue")
  /\ tokens' = Append(tokens,
       [user |-> loc[q].user, revoked |-> FALSE, expires |-> now + RefreshTtl,
        issued |-> now, parent |-> loc[q].token, secret |-> loc[q].password])
  /\ Goto(q, "answered", [loc[q] EXCEPT !.status = 200, !.token = Len(tokens) + 1])
  /\ UNCHANGED <<users, resets, window, guesses>>

\* The table with every live token of u revoked.
RevokedFor(u) ==
  [n \in DOMAIN tokens |->
     IF tokens[n].user = u THEN [tokens[n] EXCEPT !.revoked = TRUE] ELSE tokens[n]]

RefreshRead(q) ==
  /\ Receive(q, "refresh")
  /\ LET row == tokens[loc[q].token]
         known == [loc[q] EXCEPT !.user = row.user, !.password = row.secret]
     IN \/ row.revoked /\ Goto(q, "burn", known)
        \/ ~row.revoked /\ (row.expires < now \/ ~Active(row.user)) /\ Unauthorized(q)
        \/ ~row.revoked /\ row.expires >= now /\ Active(row.user) /\ Goto(q, "rotate", known)
  /\ UNCHANGED sessionTables

RefreshBurn(q) ==
  /\ Continue(q, "burn")
  /\ tokens' = RevokedFor(loc[q].user)
  /\ Unauthorized(q)
  /\ UNCHANGED <<users, resets, window, guesses>>

RefreshRotate(q) ==
  /\ Continue(q, "rotate")
  /\ tokens' = [tokens EXCEPT ![loc[q].token].revoked = TRUE]
  /\ Goto(q, "issue", loc[q])
  /\ UNCHANGED <<users, resets, window, guesses>>

LogoutRead(q) ==
  /\ Receive(q, "logout")
  /\ IF tokens[loc[q].token].revoked THEN Answer(q, 204) ELSE Goto(q, "logout", loc[q])
  /\ UNCHANGED sessionTables

LogoutRevoke(q) ==
  /\ Continue(q, "logout")
  /\ tokens' = [tokens EXCEPT ![loc[q].token].revoked = TRUE]
  /\ Answer(q, 204)
  /\ UNCHANGED <<users, resets, window, guesses>>

-----------------------------------------------------------------------------
(* Logging in *)

\* INCR, and EXPIRE on the first hit; beyond the limit the count no longer matters.
Consumed ==
  IF now >= window.ends THEN [hits |-> 1, ends |-> now + LoginTtl]
  ELSE [window EXCEPT !.hits = IF @ > LoginLimit THEN @ ELSE @ + 1]

LoginRead(q) ==
  /\ Receive(q, "login")
  /\ window' = Consumed
  /\ LET row == users[loc[q].user]
     IN IF Consumed.hits > LoginLimit THEN Answer(q, 429)
        ELSE IF row.status = "ABSENT" \/ row.lockedUntil > now THEN Unauthorized(q)
        ELSE Goto(q, "verify", [loc[q] EXCEPT !.seen = row])
  /\ UNCHANGED <<users, tokens, resets, guesses>>

Rejected(q) == loc[q].password # loc[q].seen.password \/ loc[q].seen.status # "ACTIVE"

\* Slip: the attempt that reaches the maximum does not lock yet.
FailedAttemptPastLimit(q) ==
  LET attempts == loc[q].seen.failed + 1
      u == loc[q].user
  IN [users EXCEPT ![u].failed = attempts,
                   ![u].lockedUntil = IF attempts > MaxFailed THEN now + LockTtl ELSE @]

\* registerFailedAttempt, with the count that was read.
FailedAttempt(q) ==
  LET attempts == loc[q].seen.failed + 1
      u == loc[q].user
  IN [users EXCEPT ![u].failed = attempts,
                   ![u].lockedUntil = IF attempts >= MaxFailed THEN now + LockTtl ELSE @]

LoginReject(q) ==
  /\ Continue(q, "verify")
  /\ Rejected(q)
  /\ users' = FailedAttempt(q)
  /\ guesses' = [guesses EXCEPT ![loc[q].user] = @ + 1]
  /\ Unauthorized(q)
  /\ UNCHANGED <<tokens, resets, window>>

LoginAccept(q) ==
  /\ Continue(q, "verify")
  /\ ~Rejected(q)
  /\ users' = [users EXCEPT ![loc[q].user].failed = 0, ![loc[q].user].lockedUntil = 0]
  /\ guesses' = [guesses EXCEPT ![loc[q].user] = 0]
  /\ Goto(q, "issue", loc[q])
  /\ UNCHANGED <<tokens, resets, window>>

\* The e-mail is unique: the insert of a second user with it fails.
Inserted(u, p) ==
  /\ users[u].status = "ABSENT"
  /\ users' = [users EXCEPT ![u].status = "ACTIVE", ![u].password = p]

Register(q) ==
  /\ Receive(q, "register")
  /\ \/ Inserted(loc[q].user, loc[q].password) /\ Goto(q, "issue", loc[q])
     \/ users[loc[q].user].status # "ABSENT" /\ Answer(q, 409) /\ UNCHANGED users
  /\ UNCHANGED <<tokens, resets, window, guesses>>

\* The answer does not tell whether the e-mail is known.
ForgotPassword(q) ==
  /\ Receive(q, "forgot")
  /\ resets' = IF users[loc[q].user].status = "ABSENT" THEN resets
               ELSE Append(resets, [user |-> loc[q].user, used |-> FALSE,
                                    expires |-> now + ResetTtl])
  /\ Answer(q, 200)
  /\ UNCHANGED <<users, tokens, window, guesses>>

-----------------------------------------------------------------------------
(* Every other request: JwtAuthGuard, then the handler *)

AccessValid(n) == now < tokens[n].issued + AccessTtl

Authorized(n) == n # 0 /\ AccessValid(n) /\ Active(tokens[n].user)

Call(q) ==
  /\ Receive(q, "call")
  /\ IF Authorized(loc[q].token) THEN Answer(q, 200) ELSE Unauthorized(q)
  /\ UNCHANGED sessionTables

-----------------------------------------------------------------------------
(* Administrators and e-mail links *)

CreateUser(q) ==
  /\ Directly(q)
  /\ \E u \in Accounts, p \in Passwords : Inserted(u, p)
  /\ Finish(q)
  /\ UNCHANGED <<tokens, resets, window, guesses>>

UpdateStatus(q) ==
  /\ Directly(q)
  /\ \E u \in Accounts, s \in StatusChoices :
       /\ users[u].status # "ABSENT"
       /\ users' = [users EXCEPT ![u].status = s]
       /\ tokens' = IF s # "ACTIVE" THEN RevokedFor(u) ELSE tokens
  /\ Finish(q)
  /\ UNCHANGED <<resets, window, guesses>>

ResetRead(q) ==
  /\ Directly(q)
  /\ \E r \in DOMAIN resets, p \in Passwords :
       /\ ~resets[r].used
       /\ resets[r].expires >= now
       /\ Goto(q, "reset", [reset |-> r, password |-> p])
  /\ UNCHANGED sessionTables

\* Slip: the sessions of the user stay.
ResetPasswordOnly(q) ==
  /\ Continue(q, "reset")
  /\ users' = [users EXCEPT ![resets[loc[q].reset].user].password = loc[q].password]
  /\ resets' = [resets EXCEPT ![loc[q].reset].used = TRUE]
  /\ Finish(q)
  /\ UNCHANGED <<tokens, window, guesses>>

ResetCommit(q) ==
  /\ Continue(q, "reset")
  /\ LET u == resets[loc[q].reset].user
     IN /\ users' = [users EXCEPT ![u].password = loc[q].password]
        /\ tokens' = RevokedFor(u)
  /\ resets' = [resets EXCEPT ![loc[q].reset].used = TRUE]
  /\ Finish(q)
  /\ UNCHANGED <<window, guesses>>

Serve(q) ==
  \/ Issue(q) \/ RefreshRead(q) \/ RefreshBurn(q) \/ RefreshRotate(q)
  \/ LogoutRead(q) \/ LogoutRevoke(q)
  \/ LoginRead(q) \/ LoginReject(q) \/ LoginAccept(q)
  \/ Register(q) \/ ForgotPassword(q) \/ Call(q)

ServeDirect(q) ==
  \/ CreateUser(q) \/ UpdateStatus(q) \/ ResetRead(q) \/ ResetCommit(q)

=============================================================================
