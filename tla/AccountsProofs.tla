----------------------------- MODULE AccountsProofs -----------------------------
(***************************************************************************)
(* What holds of the accounts for any number of requests in flight, users,  *)
(* tokens, identities and devices.                                          *)
(*                                                                         *)
(* What a request has read is still true of the tables when it commits,     *)
(* because the facts it relies on are stable: a row is never deleted, a     *)
(* user loses its identity only by being taken from it, no one else gets a  *)
(* device's address, and a device's user keeps both its address and its     *)
(* session.                                                                 *)
(***************************************************************************)
EXTENDS Accounts, TLAPS

USE DEF history

\* An address that is no device's.
Personal(email) == \A d \in Devices : email # DeviceAddress(d)

\* What a request has read of the users, and may still rely on.
StillTrue(call) ==
    /\ call.at = "login" => users[call.user] # None /\ users[call.user].password
    /\ call.at = "device" /\ call.user # None => UserWith(DeviceAddress(call.device), call.user)
    /\ call.at = "device_row" => call.known
    /\ call.at = "refresh" => tokens[call.token] # None
    /\ call.at = "exchange" =>
          /\ Personal(call.email)
          /\ call.how = "new" <=> call.user = None
          /\ call.how # "new" => users[call.user] # None /\ Personal(users[call.user].email)
          /\ call.how = "rename" => \E a \in Addresses : call.email = Address(a)
          /\ call.how \in {"known", "rename"} =>
                HasSub(call.sub, call.user) \/ call.user \in taken[call.sub]

\* An identity is the identity of one user, which is no device's.
SubsAreOwned ==
    /\ \A s \in Identities, u \in Users : HasSub(s, u) => Personal(users[u].email)
    /\ \A s \in Identities, u, v \in Users : HasSub(s, u) /\ HasSub(s, v) => u = v

\* A user with a password has a person's address.
PasswordsHaveAddresses ==
    \A u \in Users : users[u] # None /\ users[u].password
                        => \E a \in Addresses : users[u].email = Address(a)

\* The user an exchange was answered with has the identity, or was taken from it.
AnsweredHasSub == \A s \in Identities : \A u \in answered[s] \ taken[s] : HasSub(s, u)

NoSessionBeforeUser == \A u \in Users : users[u] = None => sessions[u] = [d \in Devices |-> 0]

\* The first token of a family is its root, and a token like the others.
RootsAreTokens ==
    \A t \in Tokens : tokens[t] # None => /\ tokens[tokens[t].root] # None
                                          /\ tokens[tokens[t].root].root = tokens[t].root

Inv ==
    /\ TypeOK
    /\ \A r \in Requests : StillTrue(calls[r])
    /\ SubsAreOwned
    /\ PasswordsHaveAddresses
    /\ AnsweredHasSub
    /\ NoSessionBeforeUser
    /\ RootsAreTokens
    /\ DeviceKeepsItsRow

--------------------------------------------------------------------------------
(* Addresses and calls *)

\* The three kinds of address are distinct, and each names its owner.
LEMMA AddressesDiffer ==
    /\ \A a, b \in Addresses : Address(a) = Address(b) => a = b
    /\ \A d, e \in Devices : DeviceAddress(d) = DeviceAddress(e) => d = e
    /\ \A s, z \in Identities : CognitoAddress(s) = CognitoAddress(z) => s = z
    /\ \A a \in Addresses, d \in Devices : Address(a) # DeviceAddress(d)
    /\ \A a \in Addresses, s \in Identities : Address(a) # CognitoAddress(s)
    /\ \A d \in Devices, s \in Identities : DeviceAddress(d) # CognitoAddress(s)
  BY DEF Address, DeviceAddress, CognitoAddress

LEMMA AddressesTyped ==
    /\ \A a \in Addresses : Address(a) \in Emails
    /\ \A d \in Devices : DeviceAddress(d) \in Emails
    /\ \A s \in Identities : CognitoAddress(s) \in Emails
  BY DEF Emails, Placeholders

LEMMA PersonalAddresses ==
    /\ \A a \in Addresses : Personal(Address(a))
    /\ \A s \in Identities : Personal(CognitoAddress(s))
  BY AddressesDiffer DEF Personal

LEMMA CallFields ==
    ASSUME NEW c \in Calls
    PROVE  /\ c.at = "register" => c.address \in Addresses /\ c.device \in Devices
           /\ c.at = "login" => c.user \in Users /\ c.device \in Devices /\ c.known \in BOOLEAN
           /\ c.at = "device" => c.user \in Users \cup {None} /\ c.device \in Devices
           /\ c.at = "device_row" => c.user \in Users /\ c.device \in Devices
           /\ c.at = "refresh" => c.token \in Tokens
           /\ c.at = "by_email" => c.sub \in Identities /\ c.address \in Addresses
           /\ c.at = "exchange" => /\ c.sub \in Identities /\ c.email \in Emails
                                   /\ c.user \in Users \cup {None}
                                   /\ c.how \in {"known", "rename", "link", "new"}
  BY DEF Calls

--------------------------------------------------------------------------------
(* What lasts *)

UsersLast ==
    \A u \in Users : users[u] # None =>
          /\ users'[u] # None
          /\ users'[u].password = users[u].password
          /\ \A d \in Devices : users'[u].email = DeviceAddress(d)
                                <=> users[u].email = DeviceAddress(d)

SubsLast ==
    \A s \in Identities :
        /\ taken[s] \subseteq taken'[s]
        /\ \A u \in Users : HasSub(s, u) => HasSub(s, u)' \/ u \in taken'[s]

TokensLast == \A t \in Tokens : tokens[t] # None => tokens'[t] # None

\* Whatever lasts of the tables, a request may rely on it when it commits.
LEMMA StillTrueLasts ==
    ASSUME TypeOK, UsersLast, SubsLast, TokensLast, NEW c \in Calls, StillTrue(c)
    PROVE  StillTrue(c)'
<1> USE CallFields
<1>1. ASSUME NEW u \in Users, users[u] # None, Personal(users[u].email)
      PROVE  users'[u] # None /\ Personal(users'[u].email)
  BY <1>1 DEF UsersLast, Personal
<1>2. ASSUME NEW u \in Users, NEW d \in Devices, UserWith(DeviceAddress(d), u)
      PROVE  UserWith(DeviceAddress(d), u)'
  BY <1>2 DEF UserWith, UsersLast
<1>3. c.at = "login" => users'[c.user] # None /\ users'[c.user].password
  BY DEF StillTrue, UsersLast
<1>4. c.at = "device" /\ c.user # None => UserWith(DeviceAddress(c.device), c.user)'
  BY <1>2 DEF StillTrue
<1>5. c.at = "refresh" => tokens'[c.token] # None
  BY DEF StillTrue, TokensLast
<1>6. ASSUME c.at = "exchange"
      PROVE  /\ c.how # "new" => users'[c.user] # None /\ Personal(users'[c.user].email)
             /\ c.how \in {"known", "rename"} =>
                   HasSub(c.sub, c.user)' \/ c.user \in taken'[c.sub]
  <2>1. c.sub \in Identities /\ (c.how # "new" => c.user \in Users)
    BY <1>6 DEF StillTrue
  <2>2. c.how # "new" => users[c.user] # None /\ Personal(users[c.user].email)
    BY <1>6 DEF StillTrue
  <2>3. c.how \in {"known", "rename"} => HasSub(c.sub, c.user) \/ c.user \in taken[c.sub]
    BY <1>6 DEF StillTrue
  <2>4. c.how # "new" => users'[c.user] # None /\ Personal(users'[c.user].email)
    BY <1>1, <2>1, <2>2
  <2>5. c.how \in {"known", "rename"} => HasSub(c.sub, c.user)' \/ c.user \in taken'[c.sub]
    BY <2>1, <2>3 DEF SubsLast
  <2> QED  BY <2>4, <2>5
<1>7. Personal(c.email)' <=> Personal(c.email)
  BY DEF Personal
<1>8. c.at = "exchange" => StillTrue(c)'
  BY <1>6, <1>7 DEF StillTrue
<1> QED  BY <1>3, <1>4, <1>5, <1>8 DEF StillTrue

\* A request reads, or is refused: only what it has read changes.
LEMMA SuspendKeeps ==
    ASSUME Inv, NEW r \in Requests, NEW c \in Calls, StillTrue(c), Suspend(r, c),
           UNCHANGED <<config, users, sessions, tokens, history>>
    PROVE  Inv'
<1>1. TypeOK'
  BY DEF Inv, TypeOK, Suspend
<1>2. ASSUME NEW q \in Requests PROVE StillTrue(calls[q])'
  <2>1. calls'[q] = IF q = r THEN c ELSE calls[q]
    BY DEF Inv, TypeOK, Suspend
  <2> QED  BY <2>1 DEF Inv, StillTrue, UserWith, HasSub, Personal
<1>3. (SubsAreOwned /\ PasswordsHaveAddresses /\ AnsweredHasSub)'
  BY DEF Inv, SubsAreOwned, PasswordsHaveAddresses, AnsweredHasSub, HasSub, Personal
<1>4. (NoSessionBeforeUser /\ RootsAreTokens /\ DeviceKeepsItsRow)'
  BY DEF Inv, NoSessionBeforeUser, RootsAreTokens, DeviceKeepsItsRow, UserWith
<1> QED  BY <1>1, <1>2, <1>3, <1>4 DEF Inv

LEMMA AnswerKeeps ==
    ASSUME Inv, NEW r \in Requests, Answer(r),
           UNCHANGED <<config, users, sessions, tokens, history>>
    PROVE  Inv'
<1>1. Idle \in Calls /\ StillTrue(Idle)
  BY DEF Idle, Calls, StillTrue
<1>2. Suspend(r, Idle)
  BY DEF Answer, Suspend
<1> QED  BY <1>1, <1>2, SuspendKeeps

--------------------------------------------------------------------------------
(* The tables *)

\* A sign-in mints the root of a family.
LEMMA SignInKeeps ==
    ASSUME Inv, NEW t \in Tokens, NEW u \in Users, SignIn(t, u)
    PROVE  /\ tokens' \in [Tokens -> TokenRows \cup {None}]
           /\ TokensLast
           /\ RootsAreTokens'
<1> DEFINE row == [user |-> u, root |-> t, state |-> "live"]
<1>1. row \in TokenRows /\ row # None
  BY AccountsAssumption DEF TokenRows
<1>2. tokens[t] = None /\ tokens' = [tokens EXCEPT ![t] = row]
  BY DEF SignIn, Minted
<1> HIDE DEF row
<1>3. tokens \in [Tokens -> TokenRows \cup {None}]
  BY DEF Inv, TypeOK
<1>4. TokensLast
  BY <1>2, <1>3 DEF TokensLast
<1>5. ASSUME NEW k \in Tokens, tokens'[k] # None
      PROVE  tokens'[tokens'[k].root] # None /\ tokens'[tokens'[k].root].root = tokens'[k].root
  <2>1. CASE k = t
    BY <2>1, <1>1, <1>2, <1>3 DEF row
  <2>2. CASE k # t
    <3>1. tokens[k] # None /\ tokens'[k] = tokens[k] /\ tokens[k].root \in Tokens
      BY <2>2, <1>2, <1>3, <1>5 DEF TokenRows
    <3>2. tokens[tokens[k].root] # None /\ tokens[tokens[k].root].root = tokens[k].root
      BY <3>1 DEF Inv, RootsAreTokens
    <3> QED  BY <3>1, <3>2, <1>2, <1>3
  <2> QED  BY <2>1, <2>2
<1> QED  BY <1>1, <1>2, <1>3, <1>4, <1>5 DEF RootsAreTokens

\* A new user.
LEMMA InsertUserKeeps ==
    ASSUME Inv, NEW u \in Users, NEW email \in Emails, NEW s \in Identities \cup {None},
           NEW password \in BOOLEAN,
           InsertUser(u, email, s, password), Insertable(email, s),
           s # None => Personal(email),
           password => \E a \in Addresses : email = Address(a)
    PROVE  /\ users' \in [Users -> UserRows \cup {None}]
           /\ UsersLast
           /\ SubsAreOwned'
           /\ PasswordsHaveAddresses'
<1> DEFINE row == [email |-> email, sub |-> s, password |-> password]
<1>1. row \in UserRows /\ row # None
  BY AccountsAssumption DEF UserRows
<1>2. users[u] = None /\ users' = [users EXCEPT ![u] = row]
  BY DEF InsertUser
<1>3. row.email = email /\ row.sub = s /\ row.password = password
  OBVIOUS
<1> HIDE DEF row
<1>4. users \in [Users -> UserRows \cup {None}]
  BY DEF Inv, TypeOK
<1>5. \A v \in Users : v # u => users'[v] = users[v]
  BY <1>2, <1>4
<1>6. users'[u] = row
  BY <1>2, <1>4
<1>7. UsersLast
  BY <1>2, <1>5 DEF UsersLast
<1>8. ASSUME NEW z \in Identities, NEW v \in Users, HasSub(z, v)'
      PROVE  /\ Personal(users'[v].email)
             /\ v = u => z = s /\ ~SubTaken(z)
             /\ v # u => HasSub(z, v)
  <2>1. CASE v = u
    <3>1. z = s
      BY <2>1, <1>3, <1>6, <1>8 DEF HasSub
    <3>2. s # None
      BY <3>1, AccountsAssumption
    <3> QED  BY <2>1, <3>1, <3>2, <1>3, <1>6 DEF Insertable
  <2>2. CASE v # u
    BY <2>2, <1>5, <1>8 DEF HasSub, Inv, SubsAreOwned
  <2> QED  BY <2>1, <2>2
<1>9. ASSUME NEW z \in Identities, NEW v \in Users, NEW w \in Users,
             HasSub(z, v)', HasSub(z, w)'
      PROVE  v = w
  BY <1>8, <1>9 DEF SubTaken, Inv, SubsAreOwned
<1>10. SubsAreOwned'
  BY <1>8, <1>9 DEF SubsAreOwned
<1>11. PasswordsHaveAddresses'
  BY <1>3, <1>5, <1>6 DEF Inv, PasswordsHaveAddresses
<1> QED  BY <1>1, <1>2, <1>4, <1>7, <1>10, <1>11

\* Identities last where no user has another than it had.
LEMMA SubsStay ==
    ASSUME TypeOK, history' = history,
           \A u \in Users : users[u] # None => users'[u] = users[u]
    PROVE  SubsLast /\ (AnsweredHasSub => AnsweredHasSub')
<1>1. \A s \in Identities, u \in Users : HasSub(s, u) => HasSub(s, u)'
  BY DEF HasSub
<1>2. \A s \in Identities : answered[s] \subseteq Users
  BY DEF TypeOK
<1> QED  BY <1>1, <1>2 DEF SubsLast, AnsweredHasSub

\* The other requests go on with what they have read.
LEMMA OthersKeep ==
    ASSUME TypeOK, \A q \in Requests : StillTrue(calls[q]),
           UsersLast, SubsLast, TokensLast, NEW r \in Requests, Answer(r)
    PROVE  /\ calls' \in [Requests -> Calls]
           /\ \A q \in Requests : StillTrue(calls[q])'
<1>1. calls \in [Requests -> Calls]
  BY DEF TypeOK
<1>2. Idle \in Calls
  BY DEF Idle, Calls
<1>3. calls' = [calls EXCEPT ![r] = Idle]
  BY DEF Answer
<1>4. ASSUME NEW q \in Requests PROVE StillTrue(calls[q])'
  <2>1. CASE q = r
    BY <2>1, <1>1, <1>3 DEF StillTrue, Idle
  <2>2. CASE q # r
    <3>1. calls[q] \in Calls /\ calls'[q] = calls[q] /\ StillTrue(calls[q])
      BY <2>2, <1>1, <1>3
    <3>2. ASSUME NEW c \in Calls, StillTrue(c), calls'[q] = c
          PROVE  StillTrue(calls[q])'
      <4>1. StillTrue(c)'
        BY <3>2, StillTrueLasts
      <4> QED  BY <3>2, <4>1 DEF StillTrue, UserWith, HasSub, Personal
    <3> QED  BY <3>1, <3>2
  <2> QED  BY <2>1, <2>2
<1> QED  BY <1>1, <1>2, <1>3, <1>4

\* A session more, of a user who is no device's.
LEMMA InsertSessionKeeps ==
    ASSUME Inv, UsersLast, NEW u \in Users, NEW d \in Devices, NEW a \in Addresses,
           sessions' \in [Users -> [Devices -> Nat]],
           \A v \in Users : v # u => sessions'[v] = sessions[v] /\ users'[v] = users[v],
           UserWith(Address(a), u)'
    PROVE  NoSessionBeforeUser' /\ DeviceKeepsItsRow'
<1>1. NoSessionBeforeUser'
  BY DEF Inv, NoSessionBeforeUser, UserWith
<1>2. ASSUME NEW v \in Users, NEW e \in Devices, UserWith(DeviceAddress(e), v)'
      PROVE  sessions'[v] = [x \in Devices |-> IF x = e THEN 1 ELSE 0]
  <2>1. v # u
    BY <1>2, AddressesDiffer DEF UserWith
  <2>2. UserWith(DeviceAddress(e), v)
    BY <1>2, <2>1 DEF UserWith
  <2> QED  BY <2>1, <2>2 DEF Inv, DeviceKeepsItsRow
<1> QED  BY <1>1, <1>2 DEF DeviceKeepsItsRow

--------------------------------------------------------------------------------
(* The commits *)

LEMMA RegisterCommitKeeps ==
    ASSUME Inv, NEW r \in Requests, NEW u \in Users, NEW t \in Tokens, RegisterCommit(r, u, t)
    PROVE  Inv'
<1>1. PICK a \in Addresses, d \in Devices : a = calls[r].address /\ d = calls[r].device
  BY CallFields DEF RegisterCommit, Inv, TypeOK
<1>2. Address(a) \in Emails
  BY <1>1, AddressesTyped
<1>3. /\ users[u] = None
      /\ users' = [users EXCEPT ![u] = [email |-> Address(a), sub |-> None, password |-> TRUE]]
      /\ sessions' = [sessions EXCEPT ![u][d] = @ + 1]
      /\ InsertUser(u, Address(a), None, TRUE) /\ Insertable(Address(a), None)
      /\ SignIn(t, u) /\ Answer(r) /\ config' = config /\ history' = history
  BY <1>1 DEF RegisterCommit, InsertUser, InsertSession
<1>4. /\ users' \in [Users -> UserRows \cup {None}]
      /\ UsersLast /\ SubsAreOwned' /\ PasswordsHaveAddresses'
  BY <1>1, <1>2, <1>3, InsertUserKeeps
<1>5. tokens' \in [Tokens -> TokenRows \cup {None}] /\ TokensLast /\ RootsAreTokens'
  BY <1>3, SignInKeeps
<1>12. \A v \in Users : users[v] # None => users'[v] = users[v]
  BY <1>3 DEF Inv, TypeOK
<1>13. SubsLast /\ AnsweredHasSub'
  BY <1>3, <1>12, SubsStay DEF Inv
<1>6. calls' \in [Requests -> Calls] /\ \A q \in Requests : StillTrue(calls[q])'
  BY <1>3, <1>4, <1>5, <1>13, OthersKeep DEF Inv
<1>7. UserWith(Address(a), u)'
  <2>1. [email |-> Address(a), sub |-> None, password |-> TRUE] \in UserRows
    BY <1>2 DEF UserRows
  <2> QED  BY <1>3, <2>1, AccountsAssumption DEF UserWith, Inv, TypeOK
<1>8. /\ sessions' \in [Users -> [Devices -> Nat]]
      /\ \A v \in Users : v # u => sessions'[v] = sessions[v] /\ users'[v] = users[v]
  BY <1>1, <1>3 DEF Inv, TypeOK
<1>9. NoSessionBeforeUser' /\ DeviceKeepsItsRow'
  BY <1>1, <1>4, <1>7, <1>8, InsertSessionKeeps
<1>11. TypeOK'
  BY <1>3, <1>4, <1>5, <1>6, <1>8 DEF Inv, TypeOK
<1> QED  BY <1>4, <1>5, <1>6, <1>9, <1>11, <1>13 DEF Inv

LEMMA LoginCommitKeeps ==
    ASSUME Inv, NEW r \in Requests, NEW t \in Tokens, LoginCommit(r, t)
    PROVE  Inv'
<1>1. PICK u \in Users, d \in Devices :
         /\ u = calls[r].user /\ d = calls[r].device
         /\ users[u] # None /\ users[u].password
  BY CallFields DEF LoginCommit, Inv, TypeOK, StillTrue
<1>2. /\ sessions' \in {sessions, [sessions EXCEPT ![u][d] = @ + 1]}
      /\ SignIn(t, u) /\ Answer(r) /\ users' = users /\ config' = config /\ history' = history
  BY <1>1 DEF LoginCommit, InsertSession
<1>3. UsersLast /\ SubsLast /\ AnsweredHasSub'
  BY <1>2, SubsStay DEF UsersLast, Inv
<1>4. tokens' \in [Tokens -> TokenRows \cup {None}] /\ TokensLast /\ RootsAreTokens'
  BY <1>1, <1>2, SignInKeeps
<1>5. calls' \in [Requests -> Calls] /\ \A q \in Requests : StillTrue(calls[q])'
  BY <1>2, <1>3, <1>4, OthersKeep DEF Inv
<1>6. PICK a \in Addresses : UserWith(Address(a), u)'
  BY <1>1, <1>2 DEF Inv, PasswordsHaveAddresses, UserWith
<1>7. /\ sessions' \in [Users -> [Devices -> Nat]]
      /\ \A v \in Users : v # u => sessions'[v] = sessions[v] /\ users'[v] = users[v]
  <2>1. CASE sessions' = sessions
    BY <2>1, <1>2 DEF Inv, TypeOK
  <2>2. CASE sessions' = [sessions EXCEPT ![u][d] = @ + 1]
    BY <2>2, <1>1, <1>2 DEF Inv, TypeOK
  <2> QED  BY <1>2, <2>1, <2>2
<1>8. NoSessionBeforeUser' /\ DeviceKeepsItsRow'
  BY <1>1, <1>3, <1>6, <1>7, InsertSessionKeeps
<1>9. (SubsAreOwned /\ PasswordsHaveAddresses)'
  BY <1>2 DEF Inv, SubsAreOwned, PasswordsHaveAddresses, HasSub, Personal
<1>10. TypeOK'
  BY <1>2, <1>4, <1>5, <1>7 DEF Inv, TypeOK
<1> QED  BY <1>3, <1>4, <1>5, <1>8, <1>9, <1>10 DEF Inv

LEMMA DeviceInsertKeeps ==
    ASSUME Inv, NEW r \in Requests, NEW u \in Users, DeviceInsert(r, u)
    PROVE  Inv'
<1>1. PICK d \in Devices : d = calls[r].device
  BY CallFields DEF DeviceInsert, Inv, TypeOK
<1>2. DeviceAddress(d) \in Emails
  BY <1>1, AddressesTyped
<1>3. /\ users[u] = None
      /\ users' = [users EXCEPT ![u] = [email |-> DeviceAddress(d), sub |-> None, password |-> FALSE]]
      /\ sessions' = [sessions EXCEPT ![u][d] = @ + 1]
      /\ InsertUser(u, DeviceAddress(d), None, FALSE) /\ Insertable(DeviceAddress(d), None)
      /\ Answer(r) /\ config' = config /\ tokens' = tokens /\ history' = history
  BY <1>1 DEF DeviceInsert, InsertUser, InsertSession
<1>4. /\ users' \in [Users -> UserRows \cup {None}]
      /\ UsersLast /\ SubsAreOwned' /\ PasswordsHaveAddresses'
  BY <1>1, <1>2, <1>3, InsertUserKeeps
<1>5. TokensLast /\ RootsAreTokens'
  BY <1>3 DEF Inv, TokensLast, RootsAreTokens
<1>12. SubsLast /\ AnsweredHasSub'
  <2>1. \A v \in Users : users[v] # None => users'[v] = users[v]
    BY <1>3 DEF Inv, TypeOK
  <2> QED  BY <1>3, <2>1, SubsStay DEF Inv
<1>6. calls' \in [Requests -> Calls] /\ \A q \in Requests : StillTrue(calls[q])'
  BY <1>3, <1>4, <1>5, <1>12, OthersKeep DEF Inv
<1>7. users'[u].email = DeviceAddress(d) /\ users'[u] # None
  <2>1. [email |-> DeviceAddress(d), sub |-> None, password |-> FALSE] \in UserRows
    BY <1>2 DEF UserRows
  <2> QED  BY <1>3, <2>1, AccountsAssumption DEF Inv, TypeOK
<1>8. /\ sessions' \in [Users -> [Devices -> Nat]]
      /\ \A v \in Users : v # u => sessions'[v] = sessions[v] /\ users'[v] = users[v]
  BY <1>1, <1>3 DEF Inv, TypeOK
<1>9. sessions'[u] = [e \in Devices |-> IF e = d THEN 1 ELSE 0]
  <2>1. sessions[u] = [e \in Devices |-> 0]
    BY <1>3 DEF Inv, NoSessionBeforeUser
  <2>2. sessions'[u] = [sessions[u] EXCEPT ![d] = sessions[u][d] + 1]
    BY <1>3 DEF Inv, TypeOK
  <2> QED  BY <1>1, <2>1, <2>2
<1>10. NoSessionBeforeUser'
  BY <1>7, <1>8 DEF Inv, NoSessionBeforeUser
<1>11. DeviceKeepsItsRow'
  <2> SUFFICES ASSUME NEW v \in Users, NEW e \in Devices, UserWith(DeviceAddress(e), v)'
               PROVE  sessions'[v] = [x \in Devices |-> IF x = e THEN 1 ELSE 0]
    BY DEF DeviceKeepsItsRow
  <2>1. CASE v = u
    BY <2>1, <1>1, <1>7, <1>9, AddressesDiffer DEF UserWith
  <2>2. CASE v # u
    <3>1. UserWith(DeviceAddress(e), v) /\ sessions'[v] = sessions[v]
      BY <2>2, <1>8 DEF UserWith
    <3>2. sessions[v] = [x \in Devices |-> IF x = e THEN 1 ELSE 0]
      BY <3>1 DEF Inv, DeviceKeepsItsRow
    <3> QED  BY <3>1, <3>2
  <2> QED  BY <2>1, <2>2
<1>13. TypeOK'
  BY <1>3, <1>4, <1>6, <1>8 DEF Inv, TypeOK
<1> QED  BY <1>4, <1>5, <1>6, <1>10, <1>11, <1>12, <1>13 DEF Inv

\* The device's row was found: nothing is inserted.
LEMMA DeviceCommitKeeps ==
    ASSUME Inv, NEW r \in Requests, DeviceCommit(r)
    PROVE  Inv'
<1>1. calls[r].known
  BY DEF DeviceCommit, Inv, StillTrue
<1> QED  BY <1>1, AnswerKeeps DEF DeviceCommit

\* A token's state alone changes.
LEMMA TokenEndsKeeps ==
    ASSUME Inv, NEW t \in Tokens, NEW state \in {"revoked", "expired"}, Live(t),
           tokens' = [tokens EXCEPT ![t].state = state],
           UNCHANGED <<config, users, sessions, calls, history>>
    PROVE  Inv'
<1>1. tokens \in [Tokens -> TokenRows \cup {None}] /\ tokens[t] \in TokenRows
  BY DEF Inv, TypeOK, Live
<1> DEFINE row == [tokens[t] EXCEPT !.state = state]
<1>2. row \in TokenRows /\ row # None /\ row.root = tokens[t].root
  BY <1>1, AccountsAssumption DEF TokenRows
<1>3. tokens' = [tokens EXCEPT ![t] = row]
  BY <1>1
<1> HIDE DEF row
<1>4. tokens' \in [Tokens -> TokenRows \cup {None}] /\ TokensLast
  BY <1>1, <1>2, <1>3 DEF TokensLast
<1>5. \A k \in Tokens : tokens[k] # None <=> tokens'[k] # None
  BY <1>1, <1>2, <1>3, AccountsAssumption
<1>6. \A k \in Tokens : tokens'[k] # None => tokens'[k].root = tokens[k].root /\ tokens[k].root \in Tokens
  BY <1>1, <1>2, <1>3, <1>5 DEF TokenRows
<1>7. RootsAreTokens'
  BY <1>5, <1>6 DEF Inv, RootsAreTokens
<1>8. UsersLast /\ SubsLast
  BY SubsStay DEF UsersLast, Inv
<1>9. ASSUME NEW q \in Requests PROVE StillTrue(calls[q])'
  <2>1. calls[q] \in Calls /\ StillTrue(calls[q])
    BY DEF Inv, TypeOK
  <2>2. ASSUME NEW c \in Calls, StillTrue(c), calls'[q] = c
        PROVE  StillTrue(calls[q])'
    <3>1. StillTrue(c)'
      BY <2>2, <1>4, <1>8, StillTrueLasts DEF Inv
    <3> QED  BY <2>2, <3>1 DEF StillTrue, UserWith, HasSub, Personal
  <2> QED  BY <2>1, <2>2
<1>10. (SubsAreOwned /\ PasswordsHaveAddresses /\ AnsweredHasSub)'
  BY DEF Inv, SubsAreOwned, PasswordsHaveAddresses, AnsweredHasSub, HasSub, Personal
<1>11. (NoSessionBeforeUser /\ DeviceKeepsItsRow)'
  BY DEF Inv, NoSessionBeforeUser, DeviceKeepsItsRow, UserWith
<1>12. TypeOK'
  BY <1>4 DEF Inv, TypeOK
<1> QED  BY <1>7, <1>9, <1>10, <1>11, <1>12 DEF Inv

\* The old token is revoked, and a new one of its family minted.
LEMMA Rotation ==
    ASSUME Inv, NEW r \in Requests, NEW t \in Tokens, RefreshCommit(r, t)
    PROVE  \E old \in Tokens :
              /\ calls[r].at = "refresh" /\ calls[r].token = old
              /\ tokens[old] # None /\ tokens[t] = None
              /\ tokens' \in [Tokens -> TokenRows \cup {None}]
              /\ tokens'[t] # None /\ tokens'[t].root = tokens[old].root
              /\ tokens'[old] # None /\ tokens'[old].root = tokens[old].root
              /\ tokens'[old].state = "revoked"
              /\ \A k \in Tokens \ {t, old} : tokens'[k] = tokens[k]
<1>1. PICK old \in Tokens : /\ calls[r].at = "refresh" /\ calls[r].token = old
                            /\ tokens[old] # None
  BY CallFields DEF RefreshCommit, Inv, TypeOK, StillTrue
<1>2. tokens \in [Tokens -> TokenRows \cup {None}] /\ tokens[old] \in TokenRows
  BY <1>1 DEF Inv, TypeOK
<1> DEFINE revoked == [tokens[old] EXCEPT !.state = "revoked"]
           row == [user |-> tokens[old].user, root |-> tokens[old].root, state |-> "live"]
<1>3. revoked \in TokenRows /\ revoked # None /\ revoked.root = tokens[old].root
      /\ revoked.state = "revoked"
  BY <1>2, AccountsAssumption DEF TokenRows
<1>4. row \in TokenRows /\ row # None /\ row.root = tokens[old].root
  BY <1>2, AccountsAssumption DEF TokenRows
<1>5. tokens[t] = None /\ tokens' = [[tokens EXCEPT ![old] = revoked] EXCEPT ![t] = row]
  BY <1>1, <1>2 DEF RefreshCommit, Minted
<1>6. t # old
  BY <1>1, <1>5
<1> HIDE DEF revoked, row
<1>7. /\ tokens' \in [Tokens -> TokenRows \cup {None}]
      /\ tokens'[t] = row /\ tokens'[old] = revoked
      /\ \A k \in Tokens \ {t, old} : tokens'[k] = tokens[k]
  BY <1>2, <1>3, <1>4, <1>5, <1>6
<1> QED  BY <1>1, <1>3, <1>4, <1>5, <1>7

LEMMA RefreshCommitKeeps ==
    ASSUME Inv, NEW r \in Requests, NEW t \in Tokens, RefreshCommit(r, t)
    PROVE  Inv'
<1>1. PICK old \in Tokens :
              /\ tokens[old] # None /\ tokens[t] = None
              /\ tokens' \in [Tokens -> TokenRows \cup {None}]
              /\ tokens'[t] # None /\ tokens'[t].root = tokens[old].root
              /\ tokens'[old] # None /\ tokens'[old].root = tokens[old].root
              /\ \A k \in Tokens \ {t, old} : tokens'[k] = tokens[k]
  BY Rotation
<1>2. Answer(r) /\ UNCHANGED <<config, users, sessions, history>>
  BY DEF RefreshCommit
<1>3. UsersLast /\ SubsLast
  BY <1>2, SubsStay DEF UsersLast, Inv
<1>4. TokensLast
  BY <1>1 DEF TokensLast
<1>5. calls' \in [Requests -> Calls] /\ \A q \in Requests : StillTrue(calls[q])'
  BY <1>2, <1>3, <1>4, OthersKeep DEF Inv
<1>6. RootsAreTokens'
  <2>1. \A k \in Tokens : tokens[k] # None =>
            /\ tokens'[k] # None /\ tokens'[k].root = tokens[k].root
            /\ tokens[k].root \in Tokens
            /\ tokens[tokens[k].root] # None /\ tokens[tokens[k].root].root = tokens[k].root
    BY <1>1 DEF Inv, RootsAreTokens, TypeOK, TokenRows
  <2>2. ASSUME NEW k \in Tokens, tokens'[k] # None
        PROVE  \E m \in Tokens : tokens[m] # None /\ tokens'[k].root = tokens[m].root
    BY <1>1, <2>1, <2>2
  <2>3. ASSUME NEW m \in Tokens, tokens[m] # None
        PROVE  /\ tokens'[tokens[m].root] # None
               /\ tokens'[tokens[m].root].root = tokens[m].root
    BY <2>1, <2>3
  <2> QED  BY <2>2, <2>3 DEF RootsAreTokens
<1>7. (SubsAreOwned /\ PasswordsHaveAddresses /\ AnsweredHasSub)'
  BY <1>2 DEF Inv, SubsAreOwned, PasswordsHaveAddresses, AnsweredHasSub, HasSub, Personal
<1>8. (NoSessionBeforeUser /\ DeviceKeepsItsRow)'
  BY <1>2 DEF Inv, NoSessionBeforeUser, DeviceKeepsItsRow, UserWith
<1>9. TypeOK'
  BY <1>1, <1>2, <1>5 DEF Inv, TypeOK
<1> QED  BY <1>5, <1>6, <1>7, <1>8, <1>9 DEF Inv

\* The user of an exchange keeps its password and gets no device's address;
\* nobody else changes.
LEMMA WriteUserKeeps ==
    ASSUME Inv, NEW c \in Calls, c.at = "exchange", StillTrue(c), Writable(c),
           NEW u \in Users, c.user \in {u, None}, WriteUser(c, u)
    PROVE  /\ users' \in [Users -> UserRows \cup {None}]
           /\ UsersLast
           /\ SubsAreOwned'
           /\ PasswordsHaveAddresses'
           /\ HasSub(c.sub, u)' \/ u \in taken[c.sub]
           /\ \A v \in Users : v # u => users'[v] = users[v]
           /\ users'[u] # None /\ Personal(users'[u].email)
<1>1. /\ c.sub \in Identities /\ c.email \in Emails /\ c.user \in Users \cup {None}
      /\ c.how \in {"known", "rename", "link", "new"} /\ Personal(c.email)
  BY CallFields DEF StillTrue
<1>2. users \in [Users -> UserRows \cup {None}]
  BY DEF Inv, TypeOK
<1>3. c.how # "new" => c.user = u /\ users[u] # None /\ Personal(users[u].email)
  BY <1>1 DEF StillTrue
<1>4. c.how \in {"known", "rename"} => HasSub(c.sub, u) \/ u \in taken[c.sub]
  BY <1>3 DEF StillTrue
<1>5. CASE c.how = "known"
  <2>1. users' = users
    BY <1>5 DEF WriteUser
  <2>2. UsersLast /\ SubsAreOwned' /\ PasswordsHaveAddresses'
    BY <2>1 DEF UsersLast, Inv, SubsAreOwned, PasswordsHaveAddresses, HasSub, Personal
  <2>3. HasSub(c.sub, u)' \/ u \in taken[c.sub]
    BY <1>4, <1>5, <2>1 DEF HasSub
  <2> QED  BY <1>2, <1>3, <1>5, <2>1, <2>2, <2>3
<1>6. CASE c.how = "rename"
  <2>1. PICK a \in Addresses : c.email = Address(a)
    BY <1>6 DEF StillTrue
  <2>2. users' = [users EXCEPT ![u].email = c.email]
    BY <1>6 DEF WriteUser
  <2> DEFINE row == [users[u] EXCEPT !.email = c.email]
  <2>3. users[u] \in UserRows
    BY <1>2, <1>3, <1>6
  <2>4. /\ row \in UserRows /\ row # None /\ row.email = c.email
        /\ row.sub = users[u].sub /\ row.password = users[u].password
    BY <1>1, <2>3, AccountsAssumption DEF UserRows
  <2> HIDE DEF row
  <2>5. /\ users' \in [Users -> UserRows \cup {None}] /\ users'[u] = row
        /\ \A v \in Users : v # u => users'[v] = users[v]
    <3>1. users' = [users EXCEPT ![u] = row]
      BY <2>2 DEF row
    <3> QED  BY <3>1, <1>2, <2>4
  <2>6. UsersLast
    BY <1>1, <1>3, <1>6, <2>4, <2>5 DEF UsersLast, Personal
  <2>7. \A s \in Identities, v \in Users : HasSub(s, v)' <=> HasSub(s, v)
    BY <1>3, <1>6, <2>4, <2>5 DEF HasSub
  <2>8. SubsAreOwned'
    <3>1. ASSUME NEW s \in Identities, NEW v \in Users, HasSub(s, v)'
          PROVE  Personal(users'[v].email)
      BY <3>1, <1>1, <2>4, <2>5, <2>7 DEF Inv, SubsAreOwned
    <3> QED  BY <3>1, <2>7 DEF Inv, SubsAreOwned, Personal
  <2>9. PasswordsHaveAddresses'
    BY <2>1, <2>4, <2>5 DEF Inv, PasswordsHaveAddresses
  <2>10. HasSub(c.sub, u)' \/ u \in taken[c.sub]
    BY <1>1, <1>4, <1>6, <2>7
  <2> QED  BY <1>1, <2>4, <2>5, <2>6, <2>8, <2>9, <2>10
<1>7. CASE c.how = "link"
  <2>1. users' = [users EXCEPT ![u].sub = c.sub]
    BY <1>7 DEF WriteUser
  <2> DEFINE row == [users[u] EXCEPT !.sub = c.sub]
  <2>2. users[u] \in UserRows
    BY <1>2, <1>3, <1>7
  <2>3. /\ row \in UserRows /\ row # None /\ row.email = users[u].email
        /\ row.sub = c.sub /\ row.password = users[u].password
    BY <1>1, <2>2, AccountsAssumption DEF UserRows
  <2> HIDE DEF row
  <2>4. /\ users' \in [Users -> UserRows \cup {None}] /\ users'[u] = row
        /\ \A v \in Users : v # u => users'[v] = users[v]
    <3>1. users' = [users EXCEPT ![u] = row]
      BY <2>1 DEF row
    <3> QED  BY <3>1, <1>2, <2>3
  <2>5. HasSub(c.sub, u)'
    BY <2>3, <2>4 DEF HasSub
  <2>6. UsersLast
    BY <1>3, <1>7, <2>3, <2>4 DEF UsersLast
  <2>7. \A s \in Identities, v \in Users : HasSub(s, v)' =>
            (v = u /\ s = c.sub) \/ (v # u /\ HasSub(s, v))
    BY <2>3, <2>4 DEF HasSub
  <2>8. \A v \in Users : HasSub(c.sub, v) => v = u
    BY <1>3, <1>7 DEF Writable
  <2>9. SubsAreOwned'
    <3>1. ASSUME NEW s \in Identities, NEW v \in Users, HasSub(s, v)'
          PROVE  Personal(users'[v].email)
      <4>1. CASE v = u
        BY <4>1, <1>3, <1>7, <2>3, <2>4
      <4>2. CASE v # u
        BY <3>1, <4>2, <2>4, <2>7 DEF Inv, SubsAreOwned
      <4> QED  BY <4>1, <4>2
    <3>2. ASSUME NEW s \in Identities, NEW v \in Users, NEW w \in Users, HasSub(s, v)', HasSub(s, w)'
          PROVE  v = w
      <4>1. HasSub(s, v) /\ HasSub(s, w) => v = w
        BY DEF Inv, SubsAreOwned
      <4> QED  BY <3>2, <4>1, <2>7, <2>8
    <3> QED  BY <3>1, <3>2 DEF SubsAreOwned, Personal
  <2>10. PasswordsHaveAddresses'
    BY <1>3, <1>7, <2>3, <2>4 DEF Inv, PasswordsHaveAddresses
  <2> QED  BY <1>3, <1>7, <2>3, <2>4, <2>5, <2>6, <2>9, <2>10
<1>8. CASE c.how = "new"
  <2>1. InsertUser(u, c.email, c.sub, FALSE) /\ Insertable(c.email, c.sub)
    BY <1>8 DEF WriteUser, Writable
  <2>2. /\ users' \in [Users -> UserRows \cup {None}]
        /\ UsersLast /\ SubsAreOwned' /\ PasswordsHaveAddresses'
    BY <1>1, <2>1, InsertUserKeeps
  <2> DEFINE row == [email |-> c.email, sub |-> c.sub, password |-> FALSE]
  <2>3. row \in UserRows /\ row # None /\ row.email = c.email /\ row.sub = c.sub
    <3>1. row \in UserRows
      BY <1>1 DEF UserRows
    <3> QED  BY <3>1, AccountsAssumption
  <2> HIDE DEF row
  <2>4. users'[u] = row /\ \A v \in Users : v # u => users'[v] = users[v]
    <3>1. users' = [users EXCEPT ![u] = row]
      BY <2>1 DEF InsertUser, row
    <3> QED  BY <3>1, <1>2
  <2>5. HasSub(c.sub, u)'
    BY <2>3, <2>4 DEF HasSub
  <2> QED  BY <1>1, <2>2, <2>3, <2>4, <2>5
<1> QED  BY <1>1, <1>5, <1>6, <1>7, <1>8

LEMMA ExchangeCommitKeeps ==
    ASSUME Inv, NEW r \in Requests, NEW u \in Users, NEW t \in Tokens, ExchangeCommit(r, u, t)
    PROVE  Inv'
<1>1. PICK c \in Calls : c = calls[r] /\ c.at = "exchange" /\ StillTrue(c)
  BY DEF ExchangeCommit, Inv, TypeOK
<1>2. /\ c.user \in {u, None} /\ Writable(c) /\ WriteUser(c, u) /\ SignIn(t, u)
      /\ answered' = [answered EXCEPT ![c.sub] = @ \cup {u}]
      /\ taken' = [s \in Identities |->
                     IF HasSub(s, u) /\ ~HasSub(s, u)' THEN taken[s] \cup {u} ELSE taken[s]]
      /\ Answer(r) /\ config' = config /\ sessions' = sessions
  BY <1>1 DEF ExchangeCommit
<1>3. /\ users' \in [Users -> UserRows \cup {None}]
      /\ UsersLast /\ SubsAreOwned' /\ PasswordsHaveAddresses'
      /\ HasSub(c.sub, u)' \/ u \in taken[c.sub]
      /\ \A v \in Users : v # u => users'[v] = users[v]
      /\ users'[u] # None /\ Personal(users'[u].email)
  BY <1>1, <1>2, WriteUserKeeps
<1>4. tokens' \in [Tokens -> TokenRows \cup {None}] /\ TokensLast /\ RootsAreTokens'
  BY <1>2, SignInKeeps
<1>11. SubsLast
  <2>1. ASSUME NEW s \in Identities, NEW v \in Users, HasSub(s, v)
        PROVE  HasSub(s, v)' \/ v \in taken'[s]
    <3>1. CASE v = u
      BY <3>1, <2>1, <1>2
    <3>2. CASE v # u
      BY <3>2, <2>1, <1>3 DEF HasSub
    <3> QED  BY <3>1, <3>2
  <2>2. \A s \in Identities : taken[s] \subseteq taken'[s]
    BY <1>2
  <2> QED  BY <2>1, <2>2 DEF SubsLast
<1>5. calls' \in [Requests -> Calls] /\ \A q \in Requests : StillTrue(calls[q])'
  BY <1>2, <1>3, <1>4, <1>11, OthersKeep DEF Inv
<1>6. NoSessionBeforeUser'
  BY <1>2, <1>3 DEF Inv, NoSessionBeforeUser
<1>7. DeviceKeepsItsRow'
  <2> SUFFICES ASSUME NEW v \in Users, NEW e \in Devices, UserWith(DeviceAddress(e), v)'
               PROVE  sessions'[v] = [x \in Devices |-> IF x = e THEN 1 ELSE 0]
    BY DEF DeviceKeepsItsRow
  <2>1. v # u
    BY <1>3 DEF UserWith, Personal
  <2>2. UserWith(DeviceAddress(e), v) /\ sessions'[v] = sessions[v]
    BY <2>1, <1>2, <1>3 DEF UserWith
  <2>3. sessions[v] = [x \in Devices |-> IF x = e THEN 1 ELSE 0]
    BY <2>2 DEF Inv, DeviceKeepsItsRow
  <2> QED  BY <2>2, <2>3
<1>8. c.sub \in Identities
  BY <1>1, CallFields
<1>9. AnsweredHasSub'
  <2> SUFFICES ASSUME NEW s \in Identities, NEW v \in answered'[s] \ taken'[s]
               PROVE  HasSub(s, v)'
    BY DEF AnsweredHasSub
  <2>1. (s = c.sub /\ v = u) \/ v \in answered[s]
    BY <1>2, <1>8 DEF Inv, TypeOK
  <2>2. v \notin taken[s]
    BY <1>11 DEF SubsLast
  <2>3. CASE v \in answered[s]
    <3>1. v \in Users /\ HasSub(s, v)
      BY <2>2, <2>3 DEF Inv, TypeOK, AnsweredHasSub
    <3> QED  BY <3>1, <1>11 DEF SubsLast
  <2> QED  BY <2>1, <2>2, <2>3, <1>3
<1>10. TypeOK'
  <2>1. answered' \in [Identities -> SUBSET Users]
    BY <1>2, <1>8 DEF Inv, TypeOK
  <2>2. taken' \in [Identities -> SUBSET Users]
    BY <1>2 DEF Inv, TypeOK
  <2> QED  BY <1>2, <1>3, <1>4, <1>5, <2>1, <2>2 DEF Inv, TypeOK
<1> QED  BY <1>3, <1>4, <1>5, <1>6, <1>7, <1>9, <1>10 DEF Inv

--------------------------------------------------------------------------------
(* The reads *)

LEMMA LocalSelectKeeps ==
    ASSUME Inv, NEW r \in Requests, NEW d \in Devices,
           \/ \E a \in Addresses : RegisterSelect(r, a, d)
           \/ \E u \in Users : LoginSelect(r, u, d)
    PROVE  Inv'
<1>1. ASSUME NEW a \in Addresses, RegisterSelect(r, a, d) PROVE Inv'
  <2> DEFINE c == [at |-> "register", address |-> a, device |-> d]
  <2>1. c \in Calls /\ StillTrue(c)
    BY DEF Calls, StillTrue
  <2> QED  BY <1>1, <2>1, SuspendKeeps DEF RegisterSelect
<1>2. ASSUME NEW u \in Users, LoginSelect(r, u, d) PROVE Inv'
  <2>1. PICK known \in BOOLEAN : known = (sessions[u][d] = 1)
    OBVIOUS
  <2> DEFINE c == [at |-> "login", user |-> u, device |-> d, known |-> known]
  <2>2. c \in Calls /\ StillTrue(c)
    BY <1>2 DEF Calls, StillTrue, LoginSelect
  <2>3. Suspend(r, c) /\ UNCHANGED <<config, users, sessions, tokens, history>>
    BY <1>2, <2>1 DEF LoginSelect
  <2> QED  BY <2>2, <2>3, SuspendKeeps
<1> QED  BY <1>1, <1>2

LEMMA DeviceSelectKeeps ==
    ASSUME Inv, NEW r \in Requests, NEW d \in Devices, DeviceSelect(r, d)
    PROVE  Inv'
<1>1. PICK u \in Users \cup {None} :
         /\ u # None => UserWith(DeviceAddress(d), u)
         /\ Suspend(r, [at |-> "device", device |-> d, user |-> u])
  BY DEF DeviceSelect
<1> DEFINE c == [at |-> "device", device |-> d, user |-> u]
<1>2. c \in Calls /\ StillTrue(c)
  BY <1>1 DEF Calls, StillTrue
<1> QED  BY <1>1, <1>2, SuspendKeeps DEF DeviceSelect

\* The user of the device has its row already.
LEMMA DeviceRowSelectKeeps ==
    ASSUME Inv, NEW r \in Requests, DeviceRowSelect(r)
    PROVE  Inv'
<1>1. PICK u \in Users, d \in Devices : /\ u = calls[r].user /\ d = calls[r].device
                                        /\ UserWith(DeviceAddress(d), u)
  BY CallFields DEF DeviceRowSelect, Inv, TypeOK, StillTrue
<1>2. sessions[u][d] = 1
  <2>1. sessions[u] = [e \in Devices |-> IF e = d THEN 1 ELSE 0]
    BY <1>1 DEF Inv, DeviceKeepsItsRow
  <2> QED  BY <2>1
<1>3. PICK known \in BOOLEAN : known = (sessions[u][d] = 1)
  OBVIOUS
<1> DEFINE c == [at |-> "device_row", device |-> d, user |-> u, known |-> known]
<1>4. c \in Calls /\ StillTrue(c)
  BY <1>2, <1>3 DEF Calls, StillTrue
<1>5. Suspend(r, c) /\ UNCHANGED <<config, users, sessions, tokens, history>>
  BY <1>1, <1>2, <1>3 DEF DeviceRowSelect
<1> QED  BY <1>4, <1>5, SuspendKeeps

LEMMA RefreshSelectKeeps ==
    ASSUME Inv, NEW r \in Requests, NEW t \in Tokens, RefreshSelect(r, t)
    PROVE  Inv'
<1> DEFINE c == [at |-> "refresh", token |-> t]
<1>1. c \in Calls /\ StillTrue(c)
  BY DEF Calls, StillTrue, RefreshSelect, Live
<1> QED  BY <1>1, SuspendKeeps DEF RefreshSelect

LEMMA ExchangeReadsKeep ==
    ASSUME Inv, NEW r \in Requests,
           \/ \E s \in Identities, claim \in Addresses \cup {None} : ExchangeSelect(r, s, claim)
           \/ ExchangeByEmail(r)
    PROVE  Inv'
<1> DEFINE C(s, email, u, how) ==
             [at |-> "exchange", sub |-> s, email |-> email, user |-> u, how |-> how]
<1>1. ASSUME NEW s \in Identities, NEW email, NEW u \in Users \cup {None}, NEW how,
             how \in {"known", "rename", "link", "new"},
             email \in Emails,
             StillTrue(C(s, email, u, how)), Found(r, s, email, u, how),
             UNCHANGED <<config, users, sessions, tokens, history>>
      PROVE  Inv'
  <2>1. C(s, email, u, how) \in Calls
    BY <1>1 DEF Calls
  <2> QED  BY <1>1, <2>1, SuspendKeeps DEF Found
<1>2. ASSUME NEW s \in Identities, NEW claim \in Addresses \cup {None}, ExchangeSelect(r, s, claim)
      PROVE  Inv'
  <2>1. UNCHANGED <<config, users, sessions, tokens, history>>
    BY <1>2 DEF ExchangeSelect
  <2>2. /\ EmailOf(s, claim) \in Emails /\ CognitoAddress(s) \in Emails
        /\ Personal(EmailOf(s, claim)) /\ Personal(CognitoAddress(s))
        /\ claim # None => claim \in Addresses /\ EmailOf(s, claim) = Address(claim)
    BY AddressesTyped, PersonalAddresses DEF EmailOf
  <2>3. CASE \E u \in Users : /\ HasSub(s, u)
                              /\ Found(r, s, EmailOf(s, claim), u,
                                       IF claim # None /\ users[u].email \in Placeholders
                                       THEN "rename" ELSE "known")
    <3>1. PICK u \in Users, how \in {"known", "rename"} :
             /\ HasSub(s, u)
             /\ how = "rename" => claim # None
             /\ Found(r, s, EmailOf(s, claim), u, how)
      BY <2>3
    <3>2. u # None /\ users[u] # None /\ Personal(users[u].email)
      BY <3>1, AccountsAssumption DEF HasSub, Inv, SubsAreOwned
    <3>3. StillTrue(C(s, EmailOf(s, claim), u, how))
      BY <2>2, <3>1, <3>2 DEF StillTrue
    <3> QED  BY <1>1, <2>1, <2>2, <3>1, <3>3
  <2>4. CASE claim # None /\ Suspend(r, [at |-> "by_email", sub |-> s, address |-> claim])
    <3>1. /\ [at |-> "by_email", sub |-> s, address |-> claim] \in Calls
          /\ StillTrue([at |-> "by_email", sub |-> s, address |-> claim])
      BY <2>2, <2>4 DEF Calls, StillTrue
    <3> QED  BY <2>1, <2>4, <3>1, SuspendKeeps
  <2>5. CASE Found(r, s, CognitoAddress(s), None, "new")
    <3>1. StillTrue(C(s, CognitoAddress(s), None, "new"))
      BY <2>2 DEF StillTrue
    <3> QED  BY <1>1, <2>1, <2>2, <2>5, <3>1
  <2> QED  BY <1>2, <2>3, <2>4, <2>5 DEF ExchangeSelect
<1>3. CASE ExchangeByEmail(r)
  <2>1. PICK s \in Identities, a \in Addresses : s = calls[r].sub /\ a = calls[r].address
    BY <1>3, CallFields DEF ExchangeByEmail, Inv, TypeOK
  <2>2. UNCHANGED <<config, users, sessions, tokens, history>>
    BY <1>3 DEF ExchangeByEmail
  <2>3. Address(a) \in Emails /\ Personal(Address(a))
    BY AddressesTyped, PersonalAddresses
  <2>4. ASSUME NEW u \in Users, UserWith(Address(a), u),
               Found(r, s, Address(a), u, IF users[u].sub = s THEN "known" ELSE "link")
        PROVE  Inv'
    <3>1. PICK how \in {"known", "link"} : /\ how = "known" => users[u].sub = s
                                           /\ Found(r, s, Address(a), u, how)
      BY <2>4
    <3>2. StillTrue(C(s, Address(a), u, how))
      BY <2>3, <2>4, <3>1, AccountsAssumption DEF StillTrue, UserWith, HasSub
    <3> QED  BY <1>1, <2>2, <2>3, <3>1, <3>2
  <2>5. CASE Found(r, s, Address(a), None, "new")
    <3>1. StillTrue(C(s, Address(a), None, "new"))
      BY <2>3 DEF StillTrue
    <3> QED  BY <1>1, <2>2, <2>3, <2>5, <3>1
  <2> QED  BY <1>3, <2>1, <2>4, <2>5 DEF ExchangeByEmail
<1> QED  BY <1>2, <1>3

--------------------------------------------------------------------------------
(* The theorems *)

LEMMA InitInv == Init => Inv
<1> SUFFICES ASSUME Init PROVE Inv
  OBVIOUS
<1> USE DEF Init
<1>1. Idle \in Calls /\ StillTrue(Idle)
  BY DEF Idle, Calls, StillTrue
<1>2. TypeOK
  BY <1>1 DEF TypeOK
<1>3. \A r \in Requests : StillTrue(calls[r])
  BY <1>1
<1>4. SubsAreOwned /\ PasswordsHaveAddresses /\ AnsweredHasSub
  BY DEF SubsAreOwned, PasswordsHaveAddresses, AnsweredHasSub, HasSub
<1>5. NoSessionBeforeUser /\ RootsAreTokens /\ DeviceKeepsItsRow
  BY DEF NoSessionBeforeUser, RootsAreTokens, DeviceKeepsItsRow, UserWith
<1> QED  BY <1>2, <1>3, <1>4, <1>5 DEF Inv

LEMMA NextInv == Inv /\ [Next]_vars => Inv'
<1> SUFFICES ASSUME Inv, [Next]_vars PROVE Inv'
  OBVIOUS
<1>1. ASSUME NEW r \in Requests, NEW d \in Devices,
             \/ \E a \in Addresses : RegisterSelect(r, a, d)
             \/ \E u \in Users : LoginSelect(r, u, d)
             \/ DeviceSelect(r, d)
      PROVE  Inv'
  BY <1>1, LocalSelectKeeps, DeviceSelectKeeps
<1>2. ASSUME NEW r \in Requests, NEW u \in Users, NEW t \in Tokens,
             RegisterCommit(r, u, t) \/ ExchangeCommit(r, u, t)
      PROVE  Inv'
  BY <1>2, RegisterCommitKeeps, ExchangeCommitKeeps
<1>3. ASSUME NEW r \in Requests, NEW u \in Users, DeviceInsert(r, u)
      PROVE  Inv'
  BY <1>3, DeviceInsertKeeps
<1>4. ASSUME NEW r \in Requests, NEW t \in Tokens,
             LoginCommit(r, t) \/ RefreshSelect(r, t) \/ RefreshCommit(r, t)
      PROVE  Inv'
  BY <1>4, LoginCommitKeeps, RefreshSelectKeeps, RefreshCommitKeeps
<1>5. ASSUME NEW r \in Requests, NEW s \in Identities, NEW claim \in Addresses \cup {None},
             ExchangeSelect(r, s, claim)
      PROVE  Inv'
  BY <1>5, ExchangeReadsKeep
<1>6. ASSUME NEW r \in Requests,
             RegisterConflict(r) \/ DeviceConflict(r) \/ ExchangeConflict(r)
      PROVE  Inv'
  BY <1>6, AnswerKeeps DEF RegisterConflict, DeviceConflict, ExchangeConflict, ServerError
<1>7. ASSUME NEW r \in Requests, DeviceRowSelect(r) \/ DeviceCommit(r) \/ ExchangeByEmail(r)
      PROVE  Inv'
  BY <1>7, DeviceRowSelectKeeps, DeviceCommitKeeps, ExchangeReadsKeep
<1>8. ASSUME NEW t \in Tokens, Logout(t) \/ Expire(t)
      PROVE  Inv'
  BY <1>8, TokenEndsKeeps DEF Logout, Expire
<1>9. CASE UNCHANGED vars
  BY <1>9 DEF vars, Inv, TypeOK, StillTrue, SubsAreOwned, PasswordsHaveAddresses, AnsweredHasSub,
              NoSessionBeforeUser, RootsAreTokens, DeviceKeepsItsRow, UserWith, HasSub, Personal
<1> QED  BY <1>1, <1>2, <1>3, <1>4, <1>5, <1>6, <1>7, <1>8, <1>9 DEF Next

\* The inductive invariant holds in every reachable state.
THEOREM AccountsInvariance == Spec => []Inv
<1> QED  BY InitInv, NextInv, PTL DEF Spec

\* The tables and what the requests have read of them are well formed.
THEOREM AccountsTyped == Spec => []TypeOK
<1>1. Inv => TypeOK
  BY DEF Inv
<1> QED  BY <1>1, AccountsInvariance, PTL

\* A Cognito account is answered with one user for as long as no other account
\* is linked to it: verified or not, whatever address it verifies, whatever
\* commits between its reads and its commit.
THEOREM IdentityIsKept == Spec => []IdentityKeepsAccount
<1>1. Inv => IdentityKeepsAccount
  BY DEF Inv, TypeOK, AnsweredHasSub, SubsAreOwned, IdentityKeepsAccount
<1> QED  BY <1>1, AccountsInvariance, PTL

\* The user of a device has exactly one session row, its device's.
THEOREM DeviceRowIsKept == Spec => []DeviceKeepsItsRow
<1>1. Inv => DeviceKeepsItsRow
  BY DEF Inv
<1> QED  BY <1>1, AccountsInvariance, PTL

--------------------------------------------------------------------------------
(* A session that has ended *)

\* What no step may do to a family: give it a token, wake one of its tokens, or
\* select one that is not live.
FamilyLasts(t) ==
    /\ \A k \in Tokens : tokens[k] # None =>
          tokens'[k] # None /\ tokens'[k].root = tokens[k].root /\ (Live(k)' => Live(k))
    /\ \A k \in Tokens : tokens[k] = None /\ tokens'[k] # None => tokens'[k].root # t
    /\ \A r \in Requests :
          \/ calls'[r] = calls[r] \/ calls'[r].at # "refresh"
          \/ calls'[r].token \in Tokens /\ Live(calls'[r].token)

LEMMA OverLasts ==
    ASSUME TypeOK, NEW t \in Tokens, Over(t), FamilyLasts(t)
    PROVE  Over(t)'
<1>1. \A k \in Tokens : k \in Family(t)' <=> k \in Family(t)
  BY DEF Family, FamilyLasts
<1>2. Family(t)' # {}
  BY <1>1 DEF Over, Family
<1>3. ASSUME NEW k \in Family(t)' PROVE ~Live(k)'
  <2>1. k \in Tokens /\ k \in Family(t) /\ tokens[k] # None
    BY <1>1 DEF Family
  <2> QED  BY <2>1 DEF Over, FamilyLasts
<1>4. ASSUME NEW r \in Requests, calls'[r].at = "refresh" PROVE calls'[r].token \notin Family(t)'
  <2>1. CASE calls'[r] = calls[r]
    <3>1. calls[r].token \in Tokens /\ calls[r].token \notin Family(t)
      BY <2>1, <1>4, CallFields DEF Over, TypeOK
    <3> QED  BY <2>1, <3>1, <1>1
  <2>2. CASE calls'[r].token \in Tokens /\ Live(calls'[r].token)
    <3>1. calls'[r].token \notin Family(t)
      BY <2>2 DEF Over
    <3> QED  BY <2>2, <3>1, <1>1
  <2> QED  BY <2>1, <2>2, <1>4 DEF FamilyLasts
<1> QED  BY <1>2, <1>3, <1>4 DEF Over

\* A family that has a token has its root, so that no sign-in joins it.
LEMMA FamilyHasRoot ==
    ASSUME Inv, NEW t \in Tokens, Family(t) # {}
    PROVE  tokens[t] # None
BY DEF Inv, RootsAreTokens, Family

LEMMA SignInJoinsNone ==
    ASSUME Inv, NEW t \in Tokens, Over(t), NEW k \in Tokens, NEW u \in Users, SignIn(k, u),
           NEW r \in Requests, Answer(r)
    PROVE  FamilyLasts(t)
<1>1. tokens[k] = None /\ tokens' = [tokens EXCEPT ![k] = [user |-> u, root |-> k, state |-> "live"]]
  BY DEF SignIn, Minted
<1>2. k # t
  BY <1>1, FamilyHasRoot DEF Over
<1>3. /\ tokens'[k].root = k
      /\ \A m \in Tokens : m # k => tokens'[m] = tokens[m]
  BY <1>1 DEF Inv, TypeOK
<1>4. \A q \in Requests : calls'[q] = calls[q] \/ calls'[q].at # "refresh"
  BY DEF Answer, Idle, Inv, TypeOK
<1> QED  BY <1>1, <1>2, <1>3, <1>4 DEF FamilyLasts, Live

LEMMA RotationJoinsNone ==
    ASSUME Inv, NEW t \in Tokens, Over(t), NEW k \in Tokens, NEW r \in Requests, RefreshCommit(r, k)
    PROVE  FamilyLasts(t)
<1>1. PICK old \in Tokens :
              /\ calls[r].at = "refresh" /\ calls[r].token = old
              /\ tokens[old] # None /\ tokens[k] = None
              /\ tokens' \in [Tokens -> TokenRows \cup {None}]
              /\ tokens'[k] # None /\ tokens'[k].root = tokens[old].root
              /\ tokens'[old] # None /\ tokens'[old].root = tokens[old].root
              /\ tokens'[old].state = "revoked"
              /\ \A m \in Tokens \ {k, old} : tokens'[m] = tokens[m]
  BY Rotation
<1>2. tokens[old].root # t
  BY <1>1 DEF Over, Family
<1>3. \A q \in Requests : calls'[q] = calls[q] \/ calls'[q].at # "refresh"
  BY DEF RefreshCommit, Answer, Idle, Inv, TypeOK
<1> QED  BY <1>1, <1>2, <1>3 DEF FamilyLasts, Live

\* Nothing is minted: tokens may end and a request may select a live one.
LEMMA NoTokenJoinsNone ==
    ASSUME Inv, NEW t \in Tokens,
           \/ tokens' = tokens
           \/ \E k \in Tokens, state \in {"revoked", "expired"} :
                 Live(k) /\ tokens' = [tokens EXCEPT ![k].state = state],
           \A r \in Requests : \/ calls'[r] = calls[r] \/ calls'[r].at # "refresh"
                               \/ calls'[r].token \in Tokens /\ Live(calls'[r].token)
    PROVE  FamilyLasts(t)
<1>1. CASE tokens' = tokens
  BY <1>1 DEF FamilyLasts, Live
<1>2. ASSUME NEW k \in Tokens, NEW state \in {"revoked", "expired"},
             Live(k), tokens' = [tokens EXCEPT ![k].state = state]
      PROVE  FamilyLasts(t)
  <2>1. tokens \in [Tokens -> TokenRows \cup {None}] /\ tokens[k] \in TokenRows
    BY <1>2 DEF Inv, TypeOK, Live
  <2> DEFINE row == [tokens[k] EXCEPT !.state = state]
  <2>2. row \in TokenRows /\ row # None /\ row.root = tokens[k].root /\ row.state # "live"
    BY <2>1, AccountsAssumption DEF TokenRows
  <2>3. tokens' = [tokens EXCEPT ![k] = row]
    BY <1>2
  <2> HIDE DEF row
  <2>4. tokens'[k] = row /\ \A m \in Tokens : m # k => tokens'[m] = tokens[m]
    BY <2>1, <2>3
  <2> QED  BY <1>2, <2>2, <2>4 DEF FamilyLasts, Live
<1> QED  BY <1>1, <1>2

LEMMA OverStep == Inv /\ [Next]_vars => \A t \in Tokens : Over(t) => Over(t)'
<1> SUFFICES ASSUME Inv, [Next]_vars, NEW t \in Tokens, Over(t) PROVE FamilyLasts(t)
  BY OverLasts DEF Inv
<1>1. ASSUME NEW r \in Requests, NEW u \in Users, NEW k \in Tokens,
             RegisterCommit(r, u, k) \/ ExchangeCommit(r, u, k)
      PROVE  FamilyLasts(t)
  BY <1>1, SignInJoinsNone DEF RegisterCommit, ExchangeCommit
<1>2. ASSUME NEW r \in Requests, NEW k \in Tokens, LoginCommit(r, k)
      PROVE  FamilyLasts(t)
  <2>1. PICK u \in Users : u = calls[r].user
    BY <1>2, CallFields DEF LoginCommit, Inv, TypeOK
  <2> QED  BY <1>2, <2>1, SignInJoinsNone DEF LoginCommit
<1>3. ASSUME NEW r \in Requests, NEW k \in Tokens, RefreshCommit(r, k)
      PROVE  FamilyLasts(t)
  BY <1>3, RotationJoinsNone
<1>4. ASSUME NEW r \in Requests, NEW k \in Tokens, RefreshSelect(r, k)
      PROVE  FamilyLasts(t)
  <2>1. /\ tokens' = tokens /\ Live(k)
        /\ calls' = [calls EXCEPT ![r] = [at |-> "refresh", token |-> k]]
    BY <1>4 DEF RefreshSelect, Suspend
  <2>2. \A q \in Requests : calls'[q] = calls[q] \/ calls'[q].token = k
    BY <2>1 DEF Inv, TypeOK
  <2> QED  BY <2>1, <2>2, NoTokenJoinsNone
<1>5. ASSUME NEW k \in Tokens, Logout(k) \/ Expire(k)
      PROVE  FamilyLasts(t)
  BY <1>5, NoTokenJoinsNone DEF Logout, Expire
<1>6. ASSUME tokens' = tokens, NEW r \in Requests, NEW c,
             c.at # "refresh", calls' = [calls EXCEPT ![r] = c]
      PROVE  FamilyLasts(t)
  BY <1>6, NoTokenJoinsNone DEF Inv, TypeOK
<1>7. ASSUME NEW r \in Requests, NEW d \in Devices,
             \/ \E a \in Addresses : RegisterSelect(r, a, d)
             \/ \E u \in Users : LoginSelect(r, u, d)
             \/ DeviceSelect(r, d)
      PROVE  FamilyLasts(t)
  BY <1>6, <1>7 DEF RegisterSelect, LoginSelect, DeviceSelect, Suspend
<1>8. ASSUME NEW r \in Requests,
             \/ \E s \in Identities, claim \in Addresses \cup {None} : ExchangeSelect(r, s, claim)
             \/ ExchangeByEmail(r)
      PROVE  FamilyLasts(t)
  BY <1>6, <1>8 DEF ExchangeSelect, ExchangeByEmail, Found, Suspend
<1>9. ASSUME NEW r \in Requests,
             \/ RegisterConflict(r) \/ DeviceConflict(r) \/ ExchangeConflict(r)
             \/ DeviceRowSelect(r) \/ DeviceCommit(r)
             \/ \E u \in Users : DeviceInsert(r, u)
      PROVE  FamilyLasts(t)
  BY <1>6, <1>9 DEF RegisterConflict, DeviceConflict, ExchangeConflict, ServerError,
                    DeviceRowSelect, DeviceCommit, DeviceInsert, Suspend, Answer, Idle
<1>10. CASE UNCHANGED vars
  BY <1>10, NoTokenJoinsNone DEF vars
<1> QED  BY <1>1, <1>2, <1>3, <1>4, <1>5, <1>7, <1>8, <1>9, <1>10 DEF Next

\* A session that has ended stays ended, whatever requests race.
THEOREM EndedSessionsStayEnded == Spec => LogoutIsFinal
<1> QED  BY AccountsInvariance, OverStep, PTL DEF Spec, LogoutIsFinal

================================================================================
