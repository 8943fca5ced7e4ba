------------------------------ MODULE AuthStore ------------------------------
(***************************************************************************)
(* The adapters behind auth.Storage: the maps under a mutex of             *)
(* storage/memory, and the statements of storage/sql (in its three         *)
(* dialects) and of storage/pgx, which are the same SQL with errors        *)
(* translated differently.  A call is one critical section or one          *)
(* statement, except the SQL DeleteUser, a transaction of five statements  *)
(* under read committed: between them other callers' statements commit.    *)
(*                                                                         *)
(* The database is modelled by what the adapters rely on: a statement sees *)
(* what is committed, unique indexes refuse a second row, and a row an     *)
(* open transaction has deleted is visible to readers but makes writers    *)
(* wait.  A user's id is fresh when it is created (UUIDv7, identity.go).   *)
(* In SQLite a transaction that commits is alone: once its SELECT has run, *)
(* another writer's commit makes its first DELETE fail with SQLITE_BUSY,   *)
(* so the writers it meets come before its SELECT or after its end.        *)
(***************************************************************************)
EXTENDS Integers

CONSTANTS
  Users, Emails, Keys,
  Callers,    \* those that call DeleteUser; every other call is a step of its own
  Backends,   \* the adapters and dialects a run is about
  Shares,     \* whether a caller may give a user the email that another has
  NoEmail

ASSUME SharesAssumption == Shares \in BOOLEAN
ASSUME BackendsAssumption == Backends \subseteq {"memory", "postgres", "mysql", "sqlite", "pgx"}
ASSUME NoEmailAssumption == NoEmail \notin Users \cup Emails

VARIABLES
  backend,    \* the adapter in use
  users,      \* users: id -> email
  byEmail,    \* the memory adapter's usersByEmail: email -> id
  rows,       \* sessions, accounts and verifications
  tx,         \* each caller's DeleteUser
  had,        \* of the rows its user had when it was called, those still there
  clashed,    \* the emails UpdateUser gave to a user while another had them
  answer      \* what the last call answered

authVars == <<backend, users, byEmail, rows, tx, had, clashed, answer>>
data == <<users, byEmail, rows, clashed>>

Kinds == {"session", "account", "verification"}
NoTx == [at |-> "idle", user |-> NoEmail, gone |-> {}, goneUser |-> FALSE]

Exists(u) == users[u] # NoEmail
Holders(e) == {u \in Users : users[u] = e}
Of(u) == {r \in rows : r.user = u}
Under(kind, k) == {r \in rows : r.kind = kind /\ r.key = k}
Memory == backend = "memory"

Id(r) == <<r.kind, r.key, r.user>>

(* The committed rows are now these (and of `had' what is left). *)
Become(new) ==
  /\ rows' = new
  /\ had' = [c \in Callers |-> had[c] \cap {Id(r) : r \in new}]

Says(op, res, got) == answer' = [op |-> op, res |-> res, got |-> got]
Reads(op, res, got) == Says(op, res, got) /\ UNCHANGED <<backend, data, tx, had>>
Fails(op, res) == Reads(op, res, {})
-----------------------------------------------------------------------------
(* What each adapter makes of the outcome of a statement: a unique index   *)
(* refused it, it found no row, it changed none.                           *)
sqlUsers == [CreateUser |-> [unique |-> "conflict"],
             UpdateUser |-> [unique |-> "error", zero |-> "notFound"],
             UserByID |-> [none |-> "notFound"], UserByEmail |-> [none |-> "notFound"]]
sqlSessions == [unique |-> "error", none |-> "notFound", zero |-> "notFound"]
sqlAccounts == [unique |-> "conflict", zero |-> "notFound"]
sqlVerifications == [unique |-> "error", none |-> "notFound", zero |-> "notFound"]

(* pgx.CollectOneRow gives ErrNoRows before scanUser is called, and        *)
(* neither lookup of a user translates it.                                 *)
pgxUsers == [CreateUser |-> [unique |-> "conflict"],
             UpdateUser |-> [unique |-> "error", zero |-> "notFound"],
             UserByID |-> [none |-> "error"], UserByEmail |-> [none |-> "error"]]
pgxSessions == [unique |-> "error", none |-> "notFound", zero |-> "notFound"]
pgxAccounts == [unique |-> "conflict", zero |-> "notFound"]
pgxVerifications == [unique |-> "error", none |-> "notFound", zero |-> "notFound"]

OfUsers == IF backend = "pgx" THEN pgxUsers ELSE sqlUsers
OfRows(kind) ==
  LET pgx == [session |-> pgxSessions, account |-> pgxAccounts, verification |-> pgxVerifications]
      sql == [session |-> sqlSessions, account |-> sqlAccounts, verification |-> sqlVerifications]
  IN  IF backend = "pgx" THEN pgx[kind] ELSE sql[kind]

(* scanUser reads email_verified into an int, which the BOOLEAN column of  *)
(* the Postgres schema does not convert to.                                *)
scanUser(op, u) == IF backend = "postgres" THEN Fails(op, "error") ELSE Reads(op, "ok", {u})

(* The unique indexes of the schema: users by email, sessions by token,    *)
(* accounts by provider account; the one on verification codes is not.     *)
UniqueKinds == {"session", "account"}

(* Who waits: a statement for a row that an open transaction has deleted;  *)
(* in SQLite, any writer while a transaction is open.                      *)
Locked(some) == \E c \in Callers : tx[c].gone \cap some # {}
LockedUser(u) == \E c \in Callers : tx[c].goneUser /\ tx[c].user = u
UnderWay(c) == tx[c].at \notin {"idle", "called"}
SQLiteBusy == backend = "sqlite" /\ \E c \in Callers : UnderWay(c)

(* RowsAffected of an UPDATE: MySQL counts the rows that changed, and an   *)
(* update that carries the values already there changes none.              *)
affected(u, e) ==
  IF ~Exists(u) THEN {0} ELSE IF backend = "mysql" /\ users[u] = e THEN {0, 1} ELSE {1}
-----------------------------------------------------------------------------
AuthInit ==
  /\ backend \in Backends
  /\ users = [u \in Users |-> NoEmail] /\ byEmail = [e \in Emails |-> NoEmail]
  /\ rows = {} /\ clashed = {}
  /\ tx = [c \in Callers |-> NoTx] /\ had = [c \in Callers |-> {}]
  /\ answer = [op |-> "New", res |-> "ok", got |-> {}]

memCreateUser(u, e) ==
  \/ byEmail[e] # NoEmail /\ Fails("CreateUser", "conflict")
  \/ /\ byEmail[e] = NoEmail
     /\ users' = [users EXCEPT ![u] = e] /\ byEmail' = [byEmail EXCEPT ![e] = u]
     /\ Says("CreateUser", "ok", {}) /\ UNCHANGED <<backend, rows, clashed, tx, had>>

sqlCreateUser(u, e) ==
  /\ ~SQLiteBusy /\ \A h \in Holders(e) : ~LockedUser(h)
  /\ \/ Holders(e) # {} /\ Fails("CreateUser", OfUsers.CreateUser.unique)
     \/ /\ Holders(e) = {}
        /\ users' = [users EXCEPT ![u] = e]
        /\ Says("CreateUser", "ok", {}) /\ UNCHANGED <<backend, byEmail, rows, clashed, tx, had>>

CreateUser(u, e) ==
  ~Exists(u) /\ IF Memory THEN memCreateUser(u, e) ELSE sqlCreateUser(u, e)

UserByID(u) ==
  CASE Memory -> Reads("UserByID", IF Exists(u) THEN "ok" ELSE "notFound", {u} \cap {v \in Users : Exists(v)})
    [] ~Memory /\ Exists(u) -> scanUser("UserByID", u)
    [] OTHER -> Fails("UserByID", OfUsers.UserByID.none)

(* The memory adapter goes by its index. *)
UserByEmail(e) ==
  CASE Memory /\ byEmail[e] # NoEmail -> Reads("UserByEmail", "ok", {byEmail[e]})
    [] Memory /\ byEmail[e] = NoEmail -> Fails("UserByEmail", "notFound")
    [] ~Memory /\ Holders(e) # {} -> \E u \in Holders(e) : scanUser("UserByEmail", u)
    [] OTHER -> Fails("UserByEmail", OfUsers.UserByEmail.none)

(* The index follows the email; whether the email is free is not checked. *)
memUpdateUser(u, e) ==
  \/ ~Exists(u) /\ Fails("UpdateUser", "notFound")
  \/ /\ Exists(u)
     /\ byEmail' = IF users[u] # e THEN [byEmail EXCEPT ![users[u]] = NoEmail, ![e] = u] ELSE byEmail
     /\ users' = [users EXCEPT ![u] = e]
     /\ clashed' = IF Holders(e) \subseteq {u} THEN clashed ELSE clashed \cup {e}
     /\ Says("UpdateUser", "ok", {}) /\ UNCHANGED <<backend, rows, tx, had>>

sqlUpdateUser(u, e) ==
  /\ ~SQLiteBusy /\ ~LockedUser(u) /\ \A h \in Holders(e) : ~LockedUser(h)
  /\ \E n \in affected(u, e) :
       \/ n = 0 /\ Fails("UpdateUser", OfUsers.UpdateUser.zero)
       \/ n = 1 /\ ~(Holders(e) \subseteq {u}) /\ Fails("UpdateUser", OfUsers.UpdateUser.unique)
       \/ /\ n = 1 /\ Holders(e) \subseteq {u}
          /\ users' = [users EXCEPT ![u] = e]
          /\ Says("UpdateUser", "ok", {}) /\ UNCHANGED <<backend, byEmail, rows, clashed, tx, had>>

UpdateUser(u, e) ==
  /\ Shares \/ Holders(e) \subseteq {u}
  /\ IF Memory THEN memUpdateUser(u, e) ELSE sqlUpdateUser(u, e)
-----------------------------------------------------------------------------
(* DeleteUser is called. *)
CallDeleteUser(c, u) ==
  /\ tx[c].at = "idle"
  /\ tx' = [tx EXCEPT ![c] = [NoTx EXCEPT !.at = "called", !.user = u]]
  /\ had' = [had EXCEPT ![c] = {Id(r) : r \in Of(u)}]
  /\ UNCHANGED <<backend, data, answer>>

(* It returns, and the rows are these. *)
TxEnds(c, res, new) ==
  /\ tx' = [tx EXCEPT ![c] = NoTx]
  /\ rows' = new
  /\ had' = [o \in Callers |-> IF o = c THEN {} ELSE had[o] \cap {Id(r) : r \in new}]
  /\ Says("DeleteUser", res, {})

(* In memory: one critical section. *)
memDeleteUser(c) ==
  /\ Memory /\ tx[c].at = "called"
  /\ LET u == tx[c].user
     IN  IF Exists(u)
           THEN /\ byEmail' = [byEmail EXCEPT ![users[u]] = NoEmail]
                /\ users' = [users EXCEPT ![u] = NoEmail]
                /\ TxEnds(c, "ok", rows \ Of(u))
           ELSE TxEnds(c, "notFound", rows) /\ UNCHANGED <<users, byEmail>>
  /\ UNCHANGED <<backend, clashed>>

(* In SQL: SELECT, then a DELETE per table, then COMMIT. *)
sqlCheckUser(c) ==
  /\ ~Memory /\ tx[c].at = "called"
  /\ \/ /\ Exists(tx[c].user) /\ ~SQLiteBusy
        /\ tx' = [tx EXCEPT ![c].at = "session"] /\ UNCHANGED <<rows, had, answer>>
     \/ ~Exists(tx[c].user) /\ TxEnds(c, "notFound", rows)
  /\ UNCHANGED <<backend, users, byEmail, clashed>>

(* Mutant: one table is left out of the cascade. *)
AfterForgetsVerifications(kind) ==
  [session |-> "account", account |-> "user", verification |-> "user"][kind]

After(kind) == [session |-> "account", account |-> "verification", verification |-> "user"][kind]

sqlDeleteRows(c) ==
  /\ tx[c].at \in Kinds
  /\ LET taken == {r \in Of(tx[c].user) : r.kind = tx[c].at}
     IN  /\ \A o \in Callers \ {c} : tx[o].gone \cap taken = {}
         /\ tx' = [tx EXCEPT ![c].gone = @ \cup taken, ![c].at = After(@)]
  /\ UNCHANGED <<backend, data, had, answer>>

sqlDeleteUserRow(c) ==
  /\ tx[c].at = "user"
  /\ \A o \in Callers \ {c} : ~(tx[o].goneUser /\ tx[o].user = tx[c].user)
  /\ tx' = [tx EXCEPT ![c].goneUser = TRUE, ![c].at = "commit"]
  /\ UNCHANGED <<backend, data, had, answer>>

sqlCommit(c) ==
  /\ tx[c].at = "commit"
  /\ users' = [users EXCEPT ![tx[c].user] = NoEmail]
  /\ TxEnds(c, "ok", rows \ tx[c].gone)
  /\ UNCHANGED <<backend, byEmail, clashed>>

(* BEGIN, a statement or the commit fails, or the context ends: rollback. *)
sqlRollback(c) ==
  /\ ~Memory /\ tx[c].at # "idle"
  /\ TxEnds(c, "error", rows)
  /\ UNCHANGED <<backend, users, byEmail, clashed>>
-----------------------------------------------------------------------------
NewRow(kind, k, u, live) == [kind |-> kind, key |-> k, user |-> u, live |-> live]

(* A map entry is replaced. *)
memCreate(kind, k, u, live) ==
  /\ Become((rows \ Under(kind, k)) \cup {NewRow(kind, k, u, live)})
  /\ Says("Create", "ok", {}) /\ UNCHANGED <<backend, users, byEmail, clashed, tx>>

sqlCreate(kind, k, u, live) ==
  /\ ~SQLiteBusy /\ ~Locked(Under(kind, k))
  /\ \/ /\ kind \in UniqueKinds /\ Under(kind, k) # {}
        /\ Fails("Create", OfRows(kind).unique)
     \/ /\ kind \notin UniqueKinds \/ Under(kind, k) = {}
        /\ Become(rows \cup {NewRow(kind, k, u, live)})
        /\ Says("Create", "ok", {}) /\ UNCHANGED <<backend, users, byEmail, clashed, tx>>

(* CreateSession, CreateAccount and CreateVerification; none looks for the *)
(* user.                                                                   *)
Create(kind, k, u) ==
  \E live \in IF kind = "session" THEN BOOLEAN ELSE {TRUE} :
    IF Memory THEN memCreate(kind, k, u, live) ELSE sqlCreate(kind, k, u, live)

SessionByToken(k) ==
  \/ /\ Under("session", k) = {}
     /\ Fails("Find", IF Memory THEN "notFound" ELSE OfRows("session").none)
  \/ \E r \in Under("session", k) :
       IF r.live THEN Reads("Find", "ok", {r}) ELSE Fails("Find", "expired")

(* The expiry of a verification is left to the caller. *)
VerificationByCode(k) ==
  \/ /\ Under("verification", k) = {}
     /\ Fails("Find", IF Memory THEN "notFound" ELSE OfRows("verification").none)
  \/ \E r \in Under("verification", k) : Reads("Find", "ok", {r})

AccountsByUser(u) == Reads("AccountsByUser", "ok", {r \in Of(u) : r.kind = "account"})

(* A statement that changes or deletes rows waits for the transaction that *)
(* has deleted one of them.                                                *)
Writable(some) == Memory \/ (~SQLiteBusy /\ ~Locked(some))

RefreshSession(k) ==
  LET s == Under("session", k)
  IN  /\ Writable(s)
      /\ \/ s = {} /\ Fails("RefreshSession", IF Memory THEN "notFound" ELSE OfRows("session").zero)
         \/ /\ s # {}
            /\ Become((rows \ s) \cup {[r EXCEPT !.live = TRUE] : r \in s})
            /\ Says("RefreshSession", "ok", {}) /\ UNCHANGED <<backend, users, byEmail, clashed, tx>>

Deletes(op, some) ==
  /\ Writable(some)
  /\ Become(rows \ some)
  /\ Says(op, "ok", {}) /\ UNCHANGED <<backend, users, byEmail, clashed, tx>>

RevokeSession(k) == Deletes("RevokeSession", Under("session", k))

RevokeAllSessions(u) == Deletes("RevokeAllSessions", {r \in Of(u) : r.kind = "session"})

RemoveRow(kind, k) ==
  \/ /\ Under(kind, k) = {} /\ Writable({})
     /\ Fails("Remove", IF Memory THEN "notFound" ELSE OfRows(kind).zero)
  \/ Under(kind, k) # {} /\ Deletes("Remove", Under(kind, k))

UnlinkAccount(k) == RemoveRow("account", k)
ConsumeVerification(k) == RemoveRow("verification", k)

(* Time passes a session's ExpiresAt. *)
Lapse ==
  /\ \E r \in rows : /\ r.live /\ r.kind = "session" /\ ~Locked({r})
                     /\ Become((rows \ {r}) \cup {[r EXCEPT !.live = FALSE]})
  /\ UNCHANGED <<backend, users, byEmail, clashed, tx, answer>>

AuthNext ==
  \/ \E u \in Users, e \in Emails : CreateUser(u, e) \/ UpdateUser(u, e)
  \/ \E u \in Users : UserByID(u) \/ AccountsByUser(u) \/ RevokeAllSessions(u)
  \/ \E e \in Emails : UserByEmail(e)
  \/ \E c \in Callers : \/ \E u \in Users : CallDeleteUser(c, u)
                        \/ memDeleteUser(c) \/ sqlCheckUser(c) \/ sqlDeleteRows(c)
                        \/ sqlDeleteUserRow(c) \/ sqlCommit(c) \/ sqlRollback(c)
  \/ \E kind \in Kinds, k \in Keys, u \in Users : Create(kind, k, u)
  \/ \E k \in Keys : \/ SessionByToken(k) \/ VerificationByCode(k) \/ RefreshSession(k)
                     \/ RevokeSession(k) \/ UnlinkAccount(k) \/ ConsumeVerification(k)
  \/ Lapse

AuthSpec == AuthInit /\ [][AuthNext]_authVars
-----------------------------------------------------------------------------
Storage == INSTANCE AuthStorage

(* The promise of auth.Storage as storage.go states it, kept to the letter *)
(* (memory.go, sql.go): each answer and each change of what is stored, the *)
(* statements of overlapping DeleteUsers included, is one call of the      *)
(* interface or nothing at all.  Of the memory adapter while no two users  *)
(* are given one email, and of the SQL adapter on SQLite.                  *)
KeepsPromise == Storage!StorageSpec

(* What the code answers elsewhere against that promise, case by case; the *)
(* data as in a call that fails, unless said otherwise.  pgx's lookups     *)
(* answer an untranslated ErrNoRows for a user that is not there.          *)
pgxLookupDeviates ==
  /\ backend = "pgx"
  /\ \/ \E u \in Users : ~Exists(u) /\ Storage!Fails("UserByID", "error")
     \/ \E e \in Emails : Holders(e) = {} /\ Storage!Fails("UserByEmail", "error")

(* On Postgres the lookups of the SQL adapter cannot scan the user found. *)
postgresLookupDeviates ==
  /\ backend = "postgres"
  /\ \/ \E u \in Users : Exists(u) /\ Storage!Fails("UserByID", "error")
     \/ \E e \in Emails : Holders(e) # {} /\ Storage!Fails("UserByEmail", "error")

(* MySQL counts no row for an update that changes nothing. *)
mysqlUpdateDeviates ==
  backend = "mysql" /\ (\E u \in Users : Exists(u)) /\ Storage!Fails("UpdateUser", "notFound")

(* The index of an email that was shared may have lost the one left. *)
memoryIndexDeviates ==
  /\ Memory
  /\ \E e \in clashed :
       /\ Holders(e) # {}
       /\ \/ Storage!Fails("UserByEmail", "notFound")
          \/ \E u \in Users : /\ ~Exists(u) /\ users' = [users EXCEPT ![u] = e]
                              /\ Says("CreateUser", "ok", {}) /\ UNCHANGED rows

(* Under read committed a DeleteUser takes with it at least the rows its   *)
(* user had when it was called; later ones, and a user that another        *)
(* DeleteUser has removed meanwhile, it does not see.                      *)
ReadCommitted == {"postgres", "mysql", "pgx"}
sqlDeleteDeviates ==
  /\ backend \in ReadCommitted
  /\ \E c \in Callers : \E taken \in SUBSET Of(tx[c].user) :
       /\ tx[c].user \in Users /\ had[c] \subseteq {Id(r) : r \in taken}
       /\ users' = [users EXCEPT ![tx[c].user] = NoEmail] /\ rows' = rows \ taken
       /\ Says("DeleteUser", "ok", {})

Deviates ==
  \/ pgxLookupDeviates \/ postgresLookupDeviates \/ mysqlUpdateDeviates
  \/ memoryIndexDeviates \/ sqlDeleteDeviates

(* Every adapter on every database keeps the promise but for those five    *)
(* cases: no other answer and no other change of what is stored departs    *)
(* from it (memory.go, sql.go, pgx.go).  None of the five is of the memory *)
(* adapter while emails are not shared, nor of SQLite: there it is the     *)
(* promise itself.                                                         *)
DeviatesOnlySo ==
  Storage!StorageInit
  /\ [][UNCHANGED Storage!storageVars \/ Storage!StorageNext \/ Deviates]_(Storage!storageVars)

Row == [kind : Kinds, key : Keys, user : Users, live : BOOLEAN]
Stages == {"idle", "called", "user", "commit"} \cup Kinds

AuthTypeOK ==
  /\ backend \in Backends
  /\ users \in [Users -> Emails \cup {NoEmail}] /\ byEmail \in [Emails -> Users \cup {NoEmail}]
  /\ rows \in SUBSET Row /\ clashed \in SUBSET Emails
  /\ tx \in [Callers -> [at : Stages, user : Users \cup {NoEmail}, gone : SUBSET Row,
                         goneUser : BOOLEAN]]
  /\ had \in [Callers -> SUBSET (Kinds \X Keys \X Users)]

(* What the lookups of the memory adapter rest on: an entry of its index   *)
(* is of a user that has the email, and an email that never clashed is in  *)
(* the index with the one user that has it.                                *)
IndexFollows ==
  Memory => \A e \in Emails :
    /\ byEmail[e] # NoEmail => users[byEmail[e]] = e
    /\ e \notin clashed => \A u \in Holders(e) : byEmail[e] = u

(* The kinds of rows a DeleteUser has deleted at each of its statements. *)
Passed(at) ==
  CASE at = "account" -> {"session"}
    [] at = "verification" -> {"session", "account"}
    [] at \in {"user", "commit"} -> Kinds
    [] OTHER -> {}

(* What the commit of a DeleteUser rests on: the rows it has deleted are   *)
(* its user's and still there, no other transaction has deleted them, and  *)
(* among them are those the user had when it was called, kind by kind.     *)
TxHolds ==
  \A c \in Callers :
    /\ tx[c].at = "idle" <=> tx[c].user = NoEmail
    /\ Memory => tx[c].at \in {"idle", "called"}
    /\ tx[c].at \in {"idle", "called"} => tx[c].gone = {}
    /\ tx[c].gone \subseteq Of(tx[c].user)
    /\ \A o \in Callers \ {c} : tx[o].gone \cap tx[c].gone = {}
    /\ \A i \in had[c] : i[3] = tx[c].user /\ \E r \in rows : Id(r) = i
    /\ \A i \in had[c] : i[1] \in Passed(tx[c].at) => \E r \in tx[c].gone : Id(r) = i

(* What the commit of a DeleteUser on SQLite rests on besides: it is the   *)
(* only one under way, its user is still there, and of the kinds it has    *)
(* been through it has deleted every row of its user.                      *)
SQLiteAlone ==
  backend = "sqlite" => \A c \in Callers : UnderWay(c) =>
    /\ \A o \in Callers \ {c} : ~UnderWay(o)
    /\ Exists(tx[c].user)
    /\ \A r \in Of(tx[c].user) : r.kind \in Passed(tx[c].at) => r \in tx[c].gone

(* Emails clash only where callers share them. *)
ClashesAreShared == Shares \/ clashed = {}
=============================================================================
