------------------------------ MODULE Accounts ------------------------------
(***************************************************************************)
(* Accounts, passwords, sessions and attempt limits: the users, sessions   *)
(* and login_attempts tables, and the HTTP requests that use them.  A      *)
(* request is a process whose steps are its database calls and its Argon2  *)
(* work, so a password, a session or an account may change between any two *)
(* of them.                                                                *)
(*                                                                         *)
(* Abstractions: a password is a value and a hash an index into hashes, so *)
(* that two hashes of one password differ as their salts do.  Forms, CSRF  *)
(* tokens and cookies are left out, except that cookies holds the sessions *)
(* whose token reached a browser.  All clients share one address.          *)
(***************************************************************************)
EXTENDS Naturals, Sequences, FiniteSets

CONSTANTS
  Requests,      \* HTTP requests that run at the same time
  Names,         \* user names
  Passwords,
  Ops,           \* the forms this instance posts
  MaxUsers,      \* bound: accounts ever created
  MaxHashes,     \* bound: password hashes ever computed
  MaxSessions,   \* bound: sessions ever issued
  MaxTime,       \* bound: the last tick
  Lifetime,      \* sessionLifetime
  IdleTimeout,   \* SessionIdleTimeout
  Window,        \* loginWindow
  Retention,     \* how long attempts are kept
  SessionLimit,  \* sessions per account
  UserLimit,     \* loginUserLimit and passwordLimit
  AddressLimit,  \* loginIPLimit
  SetupLimit,    \* failed set-up tokens, from anywhere
  WorkLimit      \* passwordWork slots

AllOps == {"setup", "login", "page", "logout", "password", "username",
           "create", "update", "reset", "delete"}

ASSUME AccountsAssumption ==
  /\ Ops \subseteq AllOps
  /\ MaxUsers \in Nat \ {0} /\ MaxHashes \in Nat /\ MaxSessions \in Nat /\ MaxTime \in Nat
  /\ Lifetime \in Nat \ {0} /\ IdleTimeout \in Nat \ {0} /\ Window \in Nat \ {0}
  /\ Retention \in Nat /\ Window <= Retention
  /\ SessionLimit \in Nat \ {0} /\ UserLimit \in Nat /\ AddressLimit \in Nat
  /\ SetupLimit \in Nat /\ WorkLimit \in Nat

VARIABLES
  users,        \* the users table
  created,      \* users ever inserted: the next AUTOINCREMENT id
  hashes,       \* the password of every hash computed so far
  sessions,     \* the sessions table; hash is the one its password was checked with
  issued,       \* sessions ever inserted
  cookies,      \* sessions whose token a browser has
  attempts,     \* login_attempts: the failures of each key, <<time, number>>
  reqs,         \* the requests
  loginBusy,    \* loginMu
  changeBusy,   \* accountChangeBusy
  now

UserIds == 1..MaxUsers
SessionIds == 1..MaxSessions

\* Rows that do not exist.
NoUser == [role |-> "none", name |-> "", status |-> "disabled", hash |-> 0, must |-> FALSE]
NoSession == [user |-> 0, hash |-> 0, expires |-> 0, seen |-> 0]
Idle == [pc |-> "idle", op |-> "none", user |-> 0, session |-> 0, name |-> "", pass |-> "",
         hash |-> 0, new |-> "", newHash |-> 0, must |-> FALSE, ok |-> FALSE]

tables == <<users, created, sessions, issued>>
locks == <<loginBusy, changeBusy>>
vars == <<tables, hashes, cookies, attempts, reqs, locks, now>>

Exists(u) == u \in UserIds /\ users[u].role # "none"
HasUsers == \E u \in UserIds : Exists(u)
Named(n) == {u \in UserIds : Exists(u) /\ users[u].name = n}
Taken(n, u) == Named(n) \ {u} # {}        \* UNIQUE username_normalized
Active(u) == Exists(u) /\ users[u].status = "active"
\* Mutant: the administrator is an account like any other.
Unprotected(u) == FALSE
Protected(u) == users[u].role = "admin"
WithoutSessionsOf(u) ==
  [s \in SessionIds |-> IF sessions[s].user = u THEN NoSession ELSE sessions[s]]

-----------------------------------------------------------------------------
(***************************************************************************)
(* Attempt limits.                                                         *)
(***************************************************************************)
Keys == {<<"ip">>, <<"setup-ip">>, <<"setup-global">>}
          \cup {<<"ip-user", n>> : n \in Names} \cup {<<"password-change", u>> : u \in UserIds}
Limit(k) ==
  CASE k[1] \in {"ip", "setup-ip"} -> AddressLimit
    [] k[1] = "setup-global" -> SetupLimit
    [] OTHER -> UserLimit

Recent(k) == {a \in attempts[k] : a[1] + Window > now}
LoginRateLimit(k) == Cardinality(Recent(k)) < Limit(k)

\* A row for a failure now: its time, and its number among those of the same moment
\* (they are only deleted together).
NewAttempt(k) == <<now, Cardinality({a \in attempts[k] : a[1] = now}) + 1>>

RecordLoginAttempts(keys, succeeded) ==
  attempts' = [k \in Keys |->
    {a \in IF k \notin keys THEN attempts[k]
           ELSE IF succeeded THEN {} ELSE attempts[k] \cup {NewAttempt(k)} : a[1] + Retention >= now}]

KeysOf(q) ==
  IF q.op = "login" THEN {<<"ip">>, <<"ip-user", q.name>>} ELSE {<<"password-change", q.user>>}

-----------------------------------------------------------------------------
(***************************************************************************)
(* Requests.  Finish is every return: the deferred unlocks.                *)
(***************************************************************************)
At(r, pc) == reqs[r].pc = pc
Goto(r, q, pc) == reqs' = [reqs EXCEPT ![r] = [q EXCEPT !.pc = pc]]
Finish(r) ==
  /\ reqs' = [reqs EXCEPT ![r] = Idle]
  /\ loginBusy' = (loginBusy /\ reqs[r].op \notin {"login", "setup"})
  /\ changeBusy' = IF reqs[r].op \in {"password", "username"} /\ reqs[r].pc \notin {"touch", "begin"}
                   THEN changeBusy \ {reqs[r].user} ELSE changeBusy

\* passwordWork: the requests that compute a hash now.
Work == Cardinality({r \in Requests : reqs[r].pc \in {"verify", "hash"}})

\* Mutant: sign-ins run side by side.
LoginUnserialized(r) ==
  /\ At(r, "idle") /\ "login" \in Ops /\ HasUsers
  /\ \E n \in Names, p \in Passwords :
       LET q == [Idle EXCEPT !.op = "login", !.name = n, !.pass = p] IN
       /\ \A k \in KeysOf(q) : LoginRateLimit(k)
       /\ Goto(r, q, "lookup")
  /\ UNCHANGED <<tables, hashes, cookies, attempts, locks, now>>

Login(r) ==
  /\ At(r, "idle") /\ "login" \in Ops /\ ~loginBusy /\ HasUsers
  /\ \E n \in Names, p \in Passwords :
       LET q == [Idle EXCEPT !.op = "login", !.name = n, !.pass = p] IN
       /\ \A k \in KeysOf(q) : LoginRateLimit(k)
       /\ Goto(r, q, "lookup")
  /\ loginBusy' = TRUE
  /\ UNCHANGED <<tables, hashes, cookies, attempts, changeBusy, now>>

Setup(r) ==
  /\ At(r, "idle") /\ "setup" \in Ops /\ ~loginBusy /\ ~HasUsers
  /\ \E n \in Names, p \in Passwords :
       Goto(r, [Idle EXCEPT !.op = "setup", !.name = n, !.pass = p, !.new = p], "prehash")
  /\ loginBusy' = TRUE
  /\ UNCHANGED <<tables, hashes, cookies, attempts, changeBusy, now>>

\* admitInvalidSetupToken
RefuseSetup ==
  /\ "setup" \in Ops /\ ~loginBusy /\ ~HasUsers
  /\ \A k \in {<<"setup-global">>, <<"setup-ip">>} : LoginRateLimit(k)
  /\ RecordLoginAttempts({<<"setup-global">>, <<"setup-ip">>}, FALSE)
  /\ UNCHANGED <<tables, hashes, cookies, reqs, locks, now>>

\* GetSession of the cookie: the rest of the request uses what it read.
Usable(s) ==
  /\ sessions[s].user # 0 /\ Active(sessions[s].user)
  /\ sessions[s].expires > now /\ sessions[s].seen + IdleTimeout > now

Authenticate(r, s) ==
  /\ At(r, "idle") /\ s \in cookies /\ Usable(s)
  /\ \E op \in Ops \ {"login", "setup"} :
       Goto(r, [Idle EXCEPT !.op = op, !.session = s, !.user = sessions[s].user,
                            !.must = users[sessions[s].user].must], "touch")
  /\ UNCHANGED <<tables, hashes, cookies, attempts, locks, now>>

\* Mutant: the session is refreshed without looking at it again.
StillUsable(s) == sessions[s].user # 0
TouchCondition(s) == Usable(s)

\* TouchSession, then the gates of a pending password change and of adminOnly,
\* then the start of the handler with its form.
Permitted(q) ==
  /\ q.must => q.op \in {"password", "logout"}
  /\ q.op \in {"create", "update", "reset", "delete"} => users[q.user].role = "admin"

Start(r, q) ==
  \/ q.op = "page" /\ Finish(r)
  \/ q.op = "logout" /\ Goto(r, q, "logout") /\ UNCHANGED locks
  \/ /\ q.op = "password"
     /\ \E p, new \in Passwords : Goto(r, [q EXCEPT !.pass = p, !.new = new], "begin")
     /\ UNCHANGED locks
  \/ /\ q.op = "username"
     /\ \E p \in Passwords, n \in Names : Goto(r, [q EXCEPT !.pass = p, !.name = n], "begin")
     /\ UNCHANGED locks
  \/ /\ q.op = "create"
     /\ \E p \in Passwords, n \in Names : Goto(r, [q EXCEPT !.new = p, !.name = n], "prehash")
     /\ UNCHANGED locks
  \/ /\ q.op \in {"update", "reset", "delete"}
     /\ \/ (\E u \in UserIds : ~Exists(u) \/ Protected(u)) /\ Finish(r)
        \/ /\ \E u \in UserIds, p \in Passwords :
                /\ Exists(u) /\ ~Protected(u)
                /\ Goto(r, [q EXCEPT !.user = u, !.new = p],
                        IF q.op = "reset" THEN "prehash" ELSE "commit")
           /\ UNCHANGED locks

Touch(r) ==
  LET q == reqs[r] IN
  /\ At(r, "touch")
  /\ IF TouchCondition(q.session)
     THEN /\ sessions' = [sessions EXCEPT ![q.session].seen = now]
          /\ IF Permitted(q) THEN Start(r, q) ELSE Finish(r)
     ELSE Finish(r) /\ UNCHANGED sessions
  /\ UNCHANGED <<users, created, issued, hashes, cookies, attempts, now>>

RefuseChange(r) == Finish(r)

BeginAccountChange(r) ==
  LET q == reqs[r] IN
  /\ At(r, "begin")
  /\ \/ q.user \in changeBusy /\ Finish(r)
     \/ /\ q.user \notin changeBusy /\ \E k \in KeysOf(q) : ~LoginRateLimit(k)
        /\ RefuseChange(r)
     \/ /\ q.user \notin changeBusy /\ \A k \in KeysOf(q) : LoginRateLimit(k)
        /\ Goto(r, q, "lookup") /\ changeBusy' = changeBusy \cup {q.user} /\ UNCHANGED loginBusy
  /\ UNCHANGED <<tables, hashes, cookies, attempts, now>>

\* Reads the account and its hash, by name or by id, and enters passwordWork.
\* A stranger's password is checked against a dummy hash.
Lookup(r) ==
  LET q == reqs[r]
      byName == q.op \in {"login", "setup"}
      found == IF byName THEN Named(q.name) ELSE {u \in {q.user} : Exists(u)}
      valid == {u \in found : Active(u) /\ (q.op = "username" => ~users[u].must)}
  IN
  /\ At(r, "lookup")
  /\ \/ /\ ~byName /\ valid = {} /\ Goto(r, q, "record") /\ UNCHANGED locks
     \/ /\ byName \/ valid # {}
        /\ Work < WorkLimit
        /\ \/ valid = {} /\ Goto(r, q, "verify")
           \/ \E u \in valid : Goto(r, [q EXCEPT !.user = u, !.hash = users[u].hash], "verify")
        /\ UNCHANGED locks
     \/ (byName \/ valid # {}) /\ Work >= WorkLimit /\ Finish(r)
  /\ UNCHANGED <<tables, hashes, cookies, attempts, now>>

Verified(q) == q.hash # 0 /\ hashes[q.hash] = q.pass

Verify(r) ==
  LET q == reqs[r] IN
  /\ At(r, "verify")
  /\ \/ Verified(q) /\ q.op \in {"login", "setup"} /\ Goto(r, q, "issue") /\ UNCHANGED locks
     \/ Verified(q) /\ q.op = "username" /\ Goto(r, q, "commit") /\ UNCHANGED locks
     \/ /\ Verified(q) /\ q.op = "password" /\ q.pass # q.new
        /\ Goto(r, q, "prehash") /\ UNCHANGED locks
     \/ /\ q.op # "setup" /\ (Verified(q) => q.op = "password" /\ q.pass = q.new)
        /\ Goto(r, q, "record") /\ UNCHANGED locks
     \/ ~Verified(q) /\ q.op = "setup" /\ Finish(r)
  /\ UNCHANGED <<tables, hashes, cookies, attempts, now>>

BeginHash(r) ==
  /\ At(r, "prehash")
  /\ \/ Work < WorkLimit /\ Goto(r, reqs[r], "hash") /\ UNCHANGED locks
     \/ Work >= WorkLimit /\ Finish(r)
  /\ UNCHANGED <<tables, hashes, cookies, attempts, now>>

HashPassword(r) ==
  /\ At(r, "hash") /\ Len(hashes) < MaxHashes
  /\ hashes' = Append(hashes, reqs[r].new)
  /\ Goto(r, [reqs[r] EXCEPT !.newHash = Len(hashes) + 1], "commit")
  /\ UNCHANGED <<tables, cookies, attempts, locks, now>>

-----------------------------------------------------------------------------
(***************************************************************************)
(* The conditional writes.                                                 *)
(***************************************************************************)
Commit(r, op) == At(r, "commit") /\ reqs[r].op = op /\ UNCHANGED <<hashes, cookies, attempts, now>>

Insert(role, q, must) ==
  /\ created < MaxUsers /\ created' = created + 1
  /\ users' = [users EXCEPT ![created + 1] =
       [role |-> role, name |-> q.name, status |-> "active", hash |-> q.newHash, must |-> must]]
  /\ UNCHANGED <<sessions, issued>>

SetupAdmin(r) ==
  /\ Commit(r, "setup")
  /\ IF HasUsers THEN Finish(r) /\ UNCHANGED tables
     ELSE Insert("admin", reqs[r], FALSE) /\ Goto(r, reqs[r], "lookup") /\ UNCHANGED locks

CreateMember(r) ==
  /\ Commit(r, "create")
  /\ IF (\E u \in UserIds : users[u].role = "admin") /\ ~Taken(reqs[r].name, 0)
     THEN Insert("member", reqs[r], TRUE) ELSE UNCHANGED tables
  /\ Finish(r)

\* A new hash revokes every session of its account, in the same transaction.
SetPassword(u, h, must) ==
  /\ users' = [users EXCEPT ![u].hash = h, ![u].must = must]
  /\ sessions' = WithoutSessionsOf(u)
  /\ UNCHANGED <<created, issued>>

\* Mutant: the password that was checked need not be the current one.
StillActive(q) == Active(q.user)
Current(q) == Active(q.user) /\ users[q.user].hash = q.hash

ChangeUserPassword(r) ==
  LET q == reqs[r] IN
  /\ Commit(r, "password")
  /\ \/ Current(q) /\ SetPassword(q.user, q.newHash, FALSE)
     \/ ~Current(q) /\ UNCHANGED tables
  /\ Goto(r, [q EXCEPT !.ok = Current(q)], "record")
  /\ UNCHANGED locks

ChangeUsername(r) ==
  LET q == reqs[r]
      fits == Current(q) /\ ~users[q.user].must /\ ~Taken(q.name, q.user)
  IN
  /\ Commit(r, "username")
  /\ users' = IF fits THEN [users EXCEPT ![q.user].name = q.name] ELSE users
  /\ Goto(r, [q EXCEPT !.ok = fits], "record")
  /\ UNCHANGED <<created, sessions, issued, locks>>

ResetUserPassword(r) ==
  LET q == reqs[r] IN
  /\ Commit(r, "reset")
  /\ \/ Exists(q.user) /\ SetPassword(q.user, q.newHash, TRUE)
     \/ ~Exists(q.user) /\ UNCHANGED tables
  /\ Finish(r)

\* Disabling also revokes the sessions (and the jobs, see JobStore).
UpdateUser(r) ==
  LET q == reqs[r] IN
  /\ Commit(r, "update")
  /\ \E n \in Names, status \in {"active", "disabled"} :
       \/ /\ Exists(q.user) /\ ~Taken(n, q.user) /\ (Protected(q.user) => status = "active")
          /\ users' = [users EXCEPT ![q.user].name = n, ![q.user].status = status]
          /\ sessions' = IF status = "disabled" THEN WithoutSessionsOf(q.user) ELSE sessions
          /\ UNCHANGED <<created, issued>>
       \/ (~Exists(q.user) \/ Taken(n, q.user)) /\ UNCHANGED tables
  /\ Finish(r)

Remove(u) == users' = [users EXCEPT ![u] = NoUser]

\* The account must be disabled; jobs that are still active refuse as well.
DeleteMember(r) ==
  LET u == reqs[r].user IN
  /\ Commit(r, "delete")
  /\ \/ /\ Exists(u) /\ ~Protected(u) /\ users[u].status = "disabled"
        /\ Remove(u) /\ sessions' = WithoutSessionsOf(u)
        /\ UNCHANGED <<created, issued>>
     \/ UNCHANGED tables
  /\ Finish(r)

KeptSessions == SessionLimit - 1

\* sessions_user_limit: what may stay of u's sessions before one is added.
Kept(u) ==
  LET own == {s \in SessionIds : sessions[s].user = u} IN
  {k \in SUBSET own :
     /\ Cardinality(k) <= KeptSessions
     /\ k = own \/ Cardinality(k) = KeptSessions
     /\ \A s \in k, t \in own \ k : sessions[s].seen >= sessions[t].seen}

NewSession(r) ==
  LET q == reqs[r] IN
  /\ At(r, "issue")
  /\ \/ /\ Current(q) /\ issued < MaxSessions /\ issued' = issued + 1
        /\ \E k \in Kept(q.user) :
             sessions' = [s \in SessionIds |->
               IF s = issued + 1
               THEN [user |-> q.user, hash |-> q.hash, expires |-> now + Lifetime, seen |-> now]
               ELSE IF sessions[s].user = q.user /\ s \notin k THEN NoSession ELSE sessions[s]]
        /\ \/ /\ q.op = "login" /\ Goto(r, [q EXCEPT !.session = issued + 1, !.ok = TRUE], "record")
              /\ UNCHANGED <<locks, cookies>>
           \/ q.op = "setup" /\ Finish(r) /\ cookies' = cookies \cup {issued + 1}
     \/ /\ ~Current(q)
        /\ \/ q.op = "login" /\ Goto(r, q, "record") /\ UNCHANGED locks
           \/ q.op = "setup" /\ Finish(r)
        /\ UNCHANGED <<sessions, issued, cookies>>
  /\ UNCHANGED <<users, created, hashes, attempts, now>>

\* The end of a login or of an account change.
Record(r) ==
  LET q == reqs[r] IN
  /\ At(r, "record")
  /\ RecordLoginAttempts(KeysOf(q), q.ok)
  /\ cookies' = IF q.op = "login" /\ q.ok THEN cookies \cup {q.session} ELSE cookies
  /\ Finish(r)
  /\ UNCHANGED <<tables, hashes, now>>

DeleteSession(s) == sessions' = [sessions EXCEPT ![s] = NoSession]

Logout(r) ==
  /\ At(r, "logout") /\ DeleteSession(reqs[r].session) /\ Finish(r)
  /\ UNCHANGED <<users, created, issued, hashes, cookies, attempts, now>>

\* A database call fails, or its client went away: the request returns, except
\* that an account change still records the attempt it had begun.  A login that
\* cannot record its attempt takes its session back if it can.
Fails(r) ==
  LET q == reqs[r]
      change == q.op \in {"password", "username"} /\ q.pc \in {"lookup", "commit"}
  IN
  /\ q.pc \in {"touch", "begin", "lookup", "commit", "issue", "record", "logout"}
  /\ IF change THEN Goto(r, q, "record") /\ UNCHANGED locks ELSE Finish(r)
  /\ \/ UNCHANGED sessions
     \/ At(r, "record") /\ q.op = "login" /\ q.ok /\ DeleteSession(q.session)
  /\ UNCHANGED <<users, created, issued, hashes, cookies, attempts, now>>

\* The host's recovery command, and maintenance.
ResetAdministratorPassword ==
  /\ Len(hashes) < MaxHashes
  /\ \E u \in UserIds, p \in Passwords :
       /\ users[u].role = "admin"
       /\ hashes' = Append(hashes, p)
       /\ users' = [users EXCEPT ![u].hash = Len(hashes) + 1, ![u].must = FALSE, ![u].status = "active"]
       /\ sessions' = WithoutSessionsOf(u)
  /\ UNCHANGED <<created, issued, cookies, attempts, reqs, locks, now>>

PurgeExpiredSessions ==
  /\ sessions' = [s \in SessionIds |->
       IF sessions[s].expires <= now \/ sessions[s].seen + IdleTimeout <= now
       THEN NoSession ELSE sessions[s]]
  /\ UNCHANGED <<users, created, issued, hashes, cookies, attempts, reqs, locks, now>>

Tick ==
  /\ now < MaxTime /\ now' = now + 1
  /\ UNCHANGED <<tables, hashes, cookies, attempts, reqs, locks>>

-----------------------------------------------------------------------------
Init ==
  /\ users = [u \in UserIds |-> NoUser] /\ created = 0 /\ hashes = <<>>
  /\ sessions = [s \in SessionIds |-> NoSession] /\ issued = 0 /\ cookies = {}
  /\ attempts = [k \in Keys |-> {}] /\ reqs = [r \in Requests |-> Idle]
  /\ loginBusy = FALSE /\ changeBusy = {} /\ now = 0

Step(r) ==
  \/ Login(r) \/ Setup(r) \/ \E s \in SessionIds : Authenticate(r, s)
  \/ Touch(r) \/ BeginAccountChange(r) \/ Lookup(r) \/ Verify(r) \/ BeginHash(r)
  \/ HashPassword(r) \/ SetupAdmin(r) \/ CreateMember(r) \/ ChangeUserPassword(r)
  \/ ChangeUsername(r) \/ ResetUserPassword(r) \/ UpdateUser(r) \/ DeleteMember(r)
  \/ NewSession(r) \/ Record(r) \/ Logout(r) \/ Fails(r)

Next ==
  \/ \E r \in Requests : Step(r)
  \/ RefuseSetup \/ ResetAdministratorPassword \/ PurgeExpiredSessions \/ Tick

Spec == Init /\ [][Next]_vars

-----------------------------------------------------------------------------
(***************************************************************************)
(* Properties.                                                             *)
(***************************************************************************)
User == [role : {"none", "admin", "member"}, name : Names \cup {""},
         status : {"active", "disabled"}, hash : 0..MaxHashes, must : BOOLEAN]
Session == [user : 0..MaxUsers, hash : 0..MaxHashes, expires : Nat, seen : Nat]

\* Every column and every local variable of a request holds a value of its kind.
TypeOK ==
  /\ users \in [UserIds -> User] /\ created \in 0..MaxUsers
  /\ hashes \in Seq(Passwords) /\ Len(hashes) <= MaxHashes
  /\ sessions \in [SessionIds -> Session] /\ issued \in 0..MaxSessions
  /\ cookies \subseteq SessionIds /\ attempts \in [Keys -> SUBSET (Nat \X Nat)]
  /\ reqs \in [Requests ->
       [pc : {"idle", "touch", "begin", "lookup", "verify", "prehash", "hash", "commit", "issue",
              "record", "logout"},
        op : AllOps \cup {"none"}, user : 0..MaxUsers, session : 0..MaxSessions,
        name : Names \cup {""}, pass : Passwords \cup {""}, hash : 0..MaxHashes,
        new : Passwords \cup {""}, newHash : 0..MaxHashes, must : BOOLEAN, ok : BOOLEAN]]
  /\ loginBusy \in BOOLEAN /\ changeBusy \subseteq UserIds /\ now \in Nat

\* Every session in the table belongs to an active account and was issued for
\* the password that account has now: a change, a reset, a recovery or a
\* disabling that commits while a sign-in is under way leaves none behind.
SessionsFollowPassword ==
  \A s \in SessionIds : sessions[s].user # 0 =>
    /\ Active(sessions[s].user)
    /\ users[sessions[s].user].hash = sessions[s].hash

\* Once there are accounts, exactly one is an administrator, and it is active:
\* set-up cannot run twice, and no request demotes, disables or deletes it.
OnePermanentAdmin ==
  HasUsers => \E a \in UserIds :
    /\ users[a].role = "admin" /\ users[a].status = "active"
    /\ \A u \in UserIds : users[u].role = "admin" => u = a

\* No account has more sessions than its limit, and the failures recorded in any
\* window never exceed the limit of their key, with requests that check, compute and
\* record at the same time.
LimitsHold ==
  /\ \A u \in UserIds : Cardinality({s \in SessionIds : sessions[s].user = u}) <= SessionLimit
  /\ \A k \in Keys : Cardinality(Recent(k)) <= Limit(k)

\* A session that could not be used any more (expired, idle, revoked, evicted)
\* never becomes usable again, not by a refresh that raced its expiry nor by
\* enabling its account.
DeadSessionsStayDead ==
  [][\A s \in SessionIds : s <= issued /\ ~Usable(s) => ~Usable(s)']_vars

\* A temporary password set by an administrator is replaced, its change no longer
\* due, only by someone who gave that very password (or by recovery).
TemporaryPasswordStands ==
  [][\A u \in UserIds : Exists(u) /\ users[u].must /\ ~users'[u].must /\ users'[u].role # "none" =>
       \E r \in Requests : reqs[r].user = u /\ reqs[r].hash = users[u].hash
                            /\ reqs[r].pass = hashes[users[u].hash]]_vars
=============================================================================
