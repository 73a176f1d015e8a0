----------------------------- MODULE MCAccounts -----------------------------
(***************************************************************************)
(* An instance of Accounts for TLC.  A behaviour has one of four           *)
(* workloads, so that the bounds are spent where they matter: set-up from  *)
(* an empty database, changes of passwords, a member who is disabled and   *)
(* removed, and the passing of time.  All but the first start from a state *)
(* that set-up and the creation of a member lead to: "ann", the            *)
(* administrator, is signed in, and "bob" has a temporary password.        *)
(***************************************************************************)
EXTENDS Accounts, TLC

VARIABLE accountsLoad

\* Requests are interchangeable.
Symmetry == Permutations(Requests)

Account(role, name, hash, must) ==
  [role |-> role, name |-> name, status |-> "active", hash |-> hash, must |-> must]

TwoAccounts ==
  /\ users = [u \in UserIds |-> CASE u = 1 -> Account("admin", "ann", 1, FALSE)
                                  [] u = 2 -> Account("member", "bob", 2, TRUE)
                                  [] OTHER -> NoUser]
  /\ created = 2 /\ hashes = <<"p", "p">>
  /\ sessions = [s \in SessionIds |-> IF s = 1 THEN [user |-> 1, hash |-> 1, expires |-> Lifetime,
                                                     seen |-> 0] ELSE NoSession]
  /\ issued = 1 /\ cookies = {1}
  /\ attempts = [k \in Keys |-> {}] /\ reqs = [r \in Requests |-> Idle]
  /\ loginBusy = FALSE /\ changeBusy = {} /\ now = 0

AccountsLoad(ops, names, hashed, signedIn, failed, keys, time) ==
  [ops |-> ops \cup {"none"}, names |-> names \cup {""}, hashes |-> hashed,
   sessions |-> signedIn, failed |-> failed, keys |-> keys, time |-> time]

SetUp   == AccountsLoad({"setup", "login", "create", "update", "delete", "username"}, Names, 2, 1, 1, 2, 0)
Changes == AccountsLoad({"login", "password", "reset"}, Names, 4, 2, 1, 1, 0)
Removal == AccountsLoad({"login", "password", "update", "reset", "delete"}, {"bob"}, 3, 2, 1, 1, 0)
Time    == AccountsLoad({"login", "page", "logout"}, {"ann"}, 2, 3, 4, 2, 3)

\* Bounds of the workload on what a step may use: the forms and their names, hashes
\* computed, sessions issued, failures recorded for a key, keys with failures,
\* and time.
AccountsWithin ==
  /\ \A r \in Requests : reqs[r].op \in accountsLoad.ops /\ reqs[r].name \in accountsLoad.names
  /\ Len(hashes) <= accountsLoad.hashes /\ issued <= accountsLoad.sessions /\ now <= accountsLoad.time
  /\ \A k \in Keys : Cardinality(attempts[k]) <= accountsLoad.failed
  /\ Cardinality({k \in Keys : attempts[k] # {}}) <= accountsLoad.keys

AccountsLoadInit ==
  (accountsLoad = SetUp /\ Init) \/ (accountsLoad \in {Changes, Removal, Time} /\ TwoAccounts)
AccountsLoadNext == Next /\ UNCHANGED accountsLoad /\ AccountsWithin'
=============================================================================
