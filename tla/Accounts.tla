------------------------------- MODULE Accounts -------------------------------
(***************************************************************************)
(* Who a request is: the users, the devices they were seen on and their     *)
(* refresh tokens, as the auth endpoints and the sign-in dependencies write *)
(* them.  Every handler is one READ COMMITTED transaction that reads first  *)
(* and writes at its commit; between the two, other requests commit.  Only  *)
(* the unique keys of users (email, cognito_sub) hold across transactions:  *)
(* a device session has none.  An access token is not modelled: it is a     *)
(* signed copy of a user id that nothing revokes.                           *)
(***************************************************************************)
EXTENDS Naturals

CONSTANTS
    Requests,      \* the requests in flight; one that is answered may be sent again
    Users,         \* the ids of user rows
    Tokens,        \* the refresh tokens that can be minted: the bound on logins
    Addresses,     \* the mail addresses people own; an account may change its own
    Identities,    \* Cognito accounts, by their sub
    Devices,       \* device fingerprints, "unknown" among them
    None           \* no row, no id

Address(a) == <<"address", a>>
CognitoAddress(s) == <<"cognito", s>>     \* cognito-<sub>@resume-builder.local
DeviceAddress(d) == <<"device", d>>       \* device-<digest>@resume-builder.local

Placeholders == {CognitoAddress(s) : s \in Identities}

Emails == {Address(a) : a \in Addresses} \cup Placeholders
            \cup {DeviceAddress(d) : d \in Devices}

UserRows ==
    [email    : Emails,
     sub      : Identities \cup {None},     \* users.cognito_sub
     password : BOOLEAN]                    \* a password its owner knows

TokenRows ==
    [user  : Users,
     root  : Tokens,         \* the token of the sign-in this one was rotated from
     state : {"live", "revoked", "expired"}]    \* an expired token may be revoked too

Calls ==
    [at : {"idle"}]
      \cup [at : {"register"}, address : Addresses, device : Devices]
      \cup [at : {"login"}, user : Users, device : Devices, known : BOOLEAN]
      \cup [at : {"device"}, device : Devices, user : Users \cup {None}]
      \cup [at : {"device_row"}, device : Devices, user : Users, known : BOOLEAN]
      \cup [at : {"refresh"}, token : Tokens]
      \cup [at : {"by_email"}, sub : Identities, address : Addresses]
      \cup [at : {"exchange"}, sub : Identities, email : Emails,
            user : Users \cup {None}, how : {"known", "rename", "link", "new"}]

ASSUME AccountsAssumption ==
    None \notin Users \cup Identities \cup Addresses \cup UserRows \cup TokenRows

VARIABLES
    config,        \* settings.env and settings.cognito_enabled
    users,         \* the table users
    sessions,      \* the rows of device_sessions for a user and a fingerprint, counted
    tokens,        \* the table refresh_tokens
    calls,         \* what each request has read
    answered,      \* history: the users an identity's exchanges were answered with
    taken          \* history: the users of an identity that another was linked to

history == <<answered, taken>>
vars == <<config, users, sessions, tokens, calls, answered, taken>>

Idle == [at |-> "idle"]

Init ==
    /\ config \in [production : BOOLEAN, cognito : BOOLEAN]
    /\ users = [u \in Users |-> None]
    /\ sessions = [u \in Users |-> [d \in Devices |-> 0]]
    /\ tokens = [t \in Tokens |-> None]
    /\ calls = [r \in Requests |-> Idle]
    /\ answered = [s \in Identities |-> {}]
    /\ taken = [s \in Identities |-> {}]

\* _local_auth_allowed, for a request from the machine itself.
LocalAuthAllowed == ~(config.cognito /\ config.production)

\* get_current_user_id makes a user of a device only here.
DeviceUsersAllowed == ~config.production /\ ~config.cognito

UserWith(email, u) == users[u] # None /\ users[u].email = email
EmailTaken(email) == \E u \in Users : UserWith(email, u)
HasSub(s, u) == users[u] # None /\ users[u].sub = s
SubTaken(s) == \E u \in Users : HasSub(s, u)

\* UNIQUE (email) and UNIQUE (cognito_sub), for a row that is to be inserted.
Insertable(email, s) == ~EmailTaken(email) /\ (s = None \/ ~SubTaken(s))

InsertUser(u, email, s, password) ==
    /\ users[u] = None
    /\ users' = [users EXCEPT ![u] = [email |-> email, sub |-> s, password |-> password]]

InsertSession(u, d) == sessions' = [sessions EXCEPT ![u][d] = @ + 1]

\* create_refresh_token: t is new, of the family of root (its own at a sign-in).
Minted(rows, t, u, root) ==
    [rows EXCEPT ![t] = [user |-> u, root |-> root, state |-> "live"]]

SignIn(t, u) ==
    /\ tokens[t] = None
    /\ tokens' = Minted(tokens, t, u, t)

Live(t) == tokens[t] # None /\ tokens[t].state = "live"

Suspend(r, call) == calls' = [calls EXCEPT ![r] = call]
Answer(r) == calls' = [calls EXCEPT ![r] = Idle]

\* The transaction breaks a unique key, or a SELECT finds two rows: 500, rolled back.
ServerError(r) ==
    /\ Answer(r)
    /\ UNCHANGED <<config, users, sessions, tokens, history>>

--------------------------------------------------------------------------------
(* POST /auth/register *)

\* 400 when the address is registered, which changes nothing.
RegisterSelect(r, a, d) ==
    /\ calls[r] = Idle
    /\ LocalAuthAllowed
    /\ ~EmailTaken(Address(a))
    /\ Suspend(r, [at |-> "register", address |-> a, device |-> d])
    /\ UNCHANGED <<config, users, sessions, tokens, history>>

RegisterCommit(r, u, t) ==
    /\ calls[r].at = "register"
    /\ Insertable(Address(calls[r].address), None)
    /\ InsertUser(u, Address(calls[r].address), None, TRUE)
    /\ InsertSession(u, calls[r].device)
    /\ SignIn(t, u)
    /\ Answer(r)
    /\ UNCHANGED <<config, history>>

RegisterConflict(r) ==
    /\ calls[r].at = "register"
    /\ ~Insertable(Address(calls[r].address), None)
    /\ ServerError(r)

--------------------------------------------------------------------------------
(* POST /auth/login: authenticate_user, then _upsert_device *)

\* scalar_one_or_none raises on a second row, which changes nothing (500).
LoginSelect(r, u, d) ==
    /\ calls[r] = Idle
    /\ LocalAuthAllowed
    /\ users[u] # None /\ users[u].password
    /\ sessions[u][d] <= 1
    /\ Suspend(r, [at |-> "login", user |-> u, device |-> d, known |-> sessions[u][d] = 1])
    /\ UNCHANGED <<config, users, sessions, tokens, history>>

LoginCommit(r, t) ==
    /\ calls[r].at = "login"
    /\ IF calls[r].known THEN UNCHANGED sessions
                         ELSE InsertSession(calls[r].user, calls[r].device)
    /\ SignIn(t, calls[r].user)
    /\ Answer(r)
    /\ UNCHANGED <<config, users, history>>

--------------------------------------------------------------------------------
(* Any request without a token: _get_or_create_device_user_id *)

DeviceSelect(r, d) ==
    /\ calls[r] = Idle
    /\ DeviceUsersAllowed
    /\ IF EmailTaken(DeviceAddress(d))
       THEN \E u \in Users :
                /\ UserWith(DeviceAddress(d), u)
                /\ Suspend(r, [at |-> "device", device |-> d, user |-> u])
       ELSE Suspend(r, [at |-> "device", device |-> d, user |-> None])
    /\ UNCHANGED <<config, users, sessions, tokens, history>>

\* A slip: the user is committed before its device's row is looked for.
DeviceInsertSlip(r, u) ==
    /\ calls[r].at = "device" /\ calls[r].user = None
    /\ Insertable(DeviceAddress(calls[r].device), None)
    /\ InsertUser(u, DeviceAddress(calls[r].device), None, FALSE)
    /\ Suspend(r, [at |-> "device", device |-> calls[r].device, user |-> u])
    /\ UNCHANGED <<config, sessions, tokens, history>>

\* The user is new: its row and its device's are written in one transaction.
DeviceInsert(r, u) ==
    /\ calls[r].at = "device" /\ calls[r].user = None
    /\ Insertable(DeviceAddress(calls[r].device), None)
    /\ InsertUser(u, DeviceAddress(calls[r].device), None, FALSE)
    /\ InsertSession(u, calls[r].device)
    /\ Answer(r)
    /\ UNCHANGED <<config, tokens, history>>

DeviceConflict(r) ==
    /\ calls[r].at = "device" /\ calls[r].user = None
    /\ ~Insertable(DeviceAddress(calls[r].device), None)
    /\ ServerError(r)

DeviceRowSelect(r) ==
    /\ calls[r].at = "device" /\ calls[r].user # None
    /\ LET rows == sessions[calls[r].user][calls[r].device]
       IN IF rows <= 1
          THEN Suspend(r, [at |-> "device_row", device |-> calls[r].device,
                           user |-> calls[r].user, known |-> rows = 1])
          ELSE Answer(r)
    /\ UNCHANGED <<config, users, sessions, tokens, history>>

DeviceCommit(r) ==
    /\ calls[r].at = "device_row"
    /\ IF calls[r].known THEN UNCHANGED sessions
                         ELSE InsertSession(calls[r].user, calls[r].device)
    /\ Answer(r)
    /\ UNCHANGED <<config, users, tokens, history>>

--------------------------------------------------------------------------------
(* POST /auth/refresh, POST /auth/logout and the passing of time *)

\* A slip: the refresh looks the token up without revoked_at IS NULL.
RefreshSelectSlip(r, t) ==
    /\ calls[r] = Idle
    /\ tokens[t] # None /\ tokens[t].state # "expired"
    /\ Suspend(r, [at |-> "refresh", token |-> t])
    /\ UNCHANGED <<config, users, sessions, tokens, history>>

\* rotate_refresh_token: a token that is revoked or expired is answered 401.
RefreshSelect(r, t) ==
    /\ calls[r] = Idle
    /\ Live(t)
    /\ Suspend(r, [at |-> "refresh", token |-> t])
    /\ UNCHANGED <<config, users, sessions, tokens, history>>

\* The UPDATE is by id alone: it revokes the row whatever became of it since.
RefreshCommit(r, t) ==
    /\ calls[r].at = "refresh"
    /\ tokens[t] = None
    /\ LET old == calls[r].token
           revoked == [tokens EXCEPT ![old].state = "revoked"]
       IN tokens' = Minted(revoked, t, tokens[old].user, tokens[old].root)
    /\ Answer(r)
    /\ UNCHANGED <<config, users, sessions, history>>

\* revoke_refresh_token is one UPDATE, committed at once.
Logout(t) ==
    /\ Live(t)
    /\ tokens' = [tokens EXCEPT ![t].state = "revoked"]
    /\ UNCHANGED <<config, users, sessions, calls, history>>

Expire(t) ==
    /\ Live(t)
    /\ tokens' = [tokens EXCEPT ![t].state = "expired"]
    /\ UNCHANGED <<config, users, sessions, calls, history>>

--------------------------------------------------------------------------------
(* POST /auth/cognito/exchange: get_or_create_cognito_user.  A token carries   *)
(* a claim: the address the pool has verified, or None.  It is the account's to *)
(* change from token to token, and nothing here says that two accounts cannot   *)
(* have verified one address.                                                   *)

EmailOf(s, claim) == IF claim = None THEN CognitoAddress(s) ELSE Address(claim)

Found(r, s, email, u, how) ==
    Suspend(r, [at |-> "exchange", sub |-> s, email |-> email, user |-> u, how |-> how])

ExchangeSelect(r, s, claim) ==
    /\ calls[r] = Idle
    /\ config.cognito
    /\ \/ \E u \in Users :
            /\ HasSub(s, u)
            /\ Found(r, s, EmailOf(s, claim), u,
                     IF claim # None /\ users[u].email \in Placeholders THEN "rename" ELSE "known")
       \/ /\ ~SubTaken(s) /\ claim # None
          /\ Suspend(r, [at |-> "by_email", sub |-> s, address |-> claim])
       \/ /\ ~SubTaken(s) /\ claim = None
          /\ Found(r, s, CognitoAddress(s), None, "new")
    /\ UNCHANGED <<config, users, sessions, tokens, history>>

\* An assignment of the value the row was read with writes nothing.
ExchangeByEmail(r) ==
    /\ calls[r].at = "by_email"
    /\ LET s == calls[r].sub
           email == Address(calls[r].address)
       IN IF EmailTaken(email)
          THEN \E u \in Users :
                  /\ UserWith(email, u)
                  /\ Found(r, s, email, u, IF users[u].sub = s THEN "known" ELSE "link")
          ELSE Found(r, s, email, None, "new")
    /\ UNCHANGED <<config, users, sessions, tokens, history>>

\* A slip: cognito_sub is not unique.
WritableSlip(call) ==
    call.how \in {"rename", "new"} => ~\E v \in Users \ {call.user} : UserWith(call.email, v)

\* What the transaction may break: the unique keys of the row it writes.
Writable(call) ==
    CASE call.how = "known" -> TRUE
      [] call.how = "rename" -> ~\E v \in Users \ {call.user} : UserWith(call.email, v)
      [] call.how = "link" -> ~\E v \in Users \ {call.user} : HasSub(call.sub, v)
      [] call.how = "new" -> Insertable(call.email, call.sub)

\* An address in place of the placeholder, the identity of a user found by its
\* address (in place of another, if it has one), or a new user.
WriteUser(call, u) ==
    CASE call.how = "known" -> UNCHANGED users
      [] call.how = "rename" -> users' = [users EXCEPT ![u].email = call.email]
      [] call.how = "link" -> users' = [users EXCEPT ![u].sub = call.sub]
      [] call.how = "new" -> InsertUser(u, call.email, call.sub, FALSE)

ExchangeCommit(r, u, t) ==
    /\ calls[r].at = "exchange"
    /\ calls[r].user \in {u, None}
    /\ Writable(calls[r])
    /\ WriteUser(calls[r], u)
    /\ SignIn(t, u)
    /\ answered' = [answered EXCEPT ![calls[r].sub] = @ \cup {u}]
    /\ taken' = [s \in Identities |->
                    IF HasSub(s, u) /\ ~HasSub(s, u)' THEN taken[s] \cup {u} ELSE taken[s]]
    /\ Answer(r)
    /\ UNCHANGED <<config, sessions>>

ExchangeConflict(r) ==
    /\ calls[r].at = "exchange"
    /\ ~Writable(calls[r])
    /\ ServerError(r)

Next ==
    \/ \E r \in Requests, d \in Devices :
          \/ \E a \in Addresses : RegisterSelect(r, a, d)
          \/ \E u \in Users : LoginSelect(r, u, d)
          \/ DeviceSelect(r, d)
    \/ \E r \in Requests, u \in Users, t \in Tokens :
          RegisterCommit(r, u, t) \/ ExchangeCommit(r, u, t)
    \/ \E r \in Requests, u \in Users : DeviceInsert(r, u)
    \/ \E r \in Requests, t \in Tokens :
          LoginCommit(r, t) \/ RefreshSelect(r, t) \/ RefreshCommit(r, t)
    \/ \E r \in Requests, s \in Identities, claim \in Addresses \cup {None} : ExchangeSelect(r, s, claim)
    \/ \E r \in Requests :
          \/ RegisterConflict(r) \/ DeviceConflict(r) \/ ExchangeConflict(r)
          \/ DeviceRowSelect(r) \/ DeviceCommit(r) \/ ExchangeByEmail(r)
    \/ \E t \in Tokens : Logout(t) \/ Expire(t)

Spec == Init /\ [][Next]_vars

--------------------------------------------------------------------------------
\* The tables and what the requests have read of them are well formed.
TypeOK ==
    /\ config \in [production : BOOLEAN, cognito : BOOLEAN]
    /\ users \in [Users -> UserRows \cup {None}]
    /\ sessions \in [Users -> [Devices -> Nat]]
    /\ tokens \in [Tokens -> TokenRows \cup {None}]
    /\ calls \in [Requests -> Calls]
    /\ answered \in [Identities -> SUBSET Users]
    /\ taken \in [Identities -> SUBSET Users]

\* A Cognito account is answered with another user, which does not have its
\* runs and payments, only after a second account has been linked to the first
\* one: never because its address was verified, changed or taken by a local
\* account meanwhile, nor by what other exchanges and registrations commit
\* between the two SELECTs and the commit.  A link does take the user from the
\* account it had: existing.cognito_sub is overwritten whatever it was, and
\* the account that loses it is given another (dependencies.py:100-123).
IdentityKeepsAccount ==
    \A s \in Identities : \A u, v \in answered[s] \ taken[s] : u = v

\* The user of a device has one session row, its device's, whatever requests
\* of the device overlap: device_sessions has no unique key, but the row is
\* inserted in the transaction of the user, whose address has one.  A second
\* row would answer 500 to every later request of the device
\* (dependencies.py:49-74).
DeviceKeepsItsRow ==
    \A u \in Users, d \in Devices :
        UserWith(DeviceAddress(d), u) =>
            sessions[u] = [e \in Devices |-> IF e = d THEN 1 ELSE 0]

Family(t) == {k \in Tokens : tokens[k] # None /\ tokens[k].root = t}

Over(t) ==
    /\ Family(t) # {}
    /\ \A k \in Family(t) : ~Live(k)
    /\ \A r \in Requests : calls[r].at = "refresh" => calls[r].token \notin Family(t)

\* A session that has ended, by logout or by time, stays ended once no refresh
\* of it is under way, however its tokens are replayed.  (A refresh that had
\* selected the token before the logout does mint a live one after it.)
LogoutIsFinal == [][\A t \in Tokens : Over(t) => Over(t)']_vars

================================================================================
