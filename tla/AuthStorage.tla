----------------------------- MODULE AuthStorage -----------------------------
(***************************************************************************)
(* What auth.Storage (packages/auth/storage.go) promises the flows built   *)
(* on it, whichever adapter is behind it: users, found by id and by email, *)
(* and the sessions, accounts and verifications that belong to them.       *)
(*                                                                         *)
(* A call is one step that gives an answer, and an answer is what the      *)
(* comment of the method says it is in the state the call finds: a user    *)
(* that exists is found, one that does not is ErrNotFound, an email that   *)
(* is taken is ErrConflict.  What the interface leaves open stays open:    *)
(* what becomes of two rows under one key, and whether UpdateUser may give *)
(* a user an email that another has.  A database that is down is outside   *)
(* the promise, except that a DeleteUser that fails removes nothing.       *)
(***************************************************************************)
EXTENDS Integers

CONSTANTS Users, Emails, Keys, NoEmail

VARIABLES
  users,    \* the email of each user, NoEmail for one that does not exist
  rows,     \* the sessions, accounts and verifications
  answer    \* what the last call answered

storageVars == <<users, rows, answer>>

Kinds == {"session", "account", "verification"}

Exists(u) == users[u] # NoEmail
Holders(e) == {u \in Users : users[u] = e}
Of(u) == {r \in rows : r.user = u}
Under(kind, k) == {r \in rows : r.kind = kind /\ r.key = k}

Answers(op, res, got) == answer' = [op |-> op, res |-> res, got |-> got]

(* A call that only reads, and one that fails: nothing changes. *)
Finds(op, got) == Answers(op, "ok", got) /\ UNCHANGED <<users, rows>>
Fails(op, res) == Answers(op, res, {}) /\ UNCHANGED <<users, rows>>
-----------------------------------------------------------------------------
StorageInit ==
  /\ users = [u \in Users |-> NoEmail] /\ rows = {}
  /\ answer = [op |-> "New", res |-> "ok", got |-> {}]

(* "Returns ErrConflict if a user with the same Email already exists." *)
CreateUser(u, e) ==
  \/ /\ ~Exists(u) /\ Holders(e) = {}
     /\ users' = [users EXCEPT ![u] = e]
     /\ Answers("CreateUser", "ok", {}) /\ UNCHANGED rows
  \/ Holders(e) # {} /\ Fails("CreateUser", "conflict")

(* "Returns ErrNotFound if no such user exists." *)
UserByID(u) ==
  \/ Exists(u) /\ Finds("UserByID", {u})
  \/ ~Exists(u) /\ Fails("UserByID", "notFound")

UserByEmail(e) ==
  \/ \E u \in Holders(e) : Finds("UserByEmail", {u})
  \/ Holders(e) = {} /\ Fails("UserByEmail", "notFound")

(* "Returns ErrNotFound if the user does not exist."  An email that        *)
(* another user has may be refused.                                        *)
UpdateUser(u, e) ==
  \/ /\ Exists(u)
     /\ users' = [users EXCEPT ![u] = e]
     /\ Answers("UpdateUser", "ok", {}) /\ UNCHANGED rows
  \/ ~Exists(u) /\ Fails("UpdateUser", "notFound")
  \/ Exists(u) /\ Holders(e) \ {u} # {} /\ Fails("UpdateUser", "error")

(* "DeleteUser removes the User and cascades the deletion to all           *)
(* associated Sessions, Accounts, and Verifications. Returns ErrNotFound   *)
(* if the user does not exist."                                            *)
DeleteUser(u) ==
  \/ /\ Exists(u)
     /\ users' = [users EXCEPT ![u] = NoEmail] /\ rows' = rows \ Of(u)
     /\ Answers("DeleteUser", "ok", {})
  \/ ~Exists(u) /\ Fails("DeleteUser", "notFound")
  \/ Fails("DeleteUser", "error")

(* CreateSession, CreateAccount (LinkAccount) and CreateVerification: the  *)
(* row is there, beside or instead of the one under the same key.          *)
Create(kind, k, u, live) ==
  LET r == [kind |-> kind, key |-> k, user |-> u, live |-> live]
  IN  \/ /\ \E old \in {{}, Under(kind, k)} : rows' = (rows \ old) \cup {r}
         /\ Answers("Create", "ok", {}) /\ UNCHANGED users
      \/ Under(kind, k) # {} /\ \E res \in {"conflict", "error"} : Fails("Create", res)

(* SessionByToken and VerificationByCode answer a row under the key; a     *)
(* session past its expiry is ErrSessionExpired.                           *)
Find(kind, k) ==
  \/ \E r \in Under(kind, k) : (kind = "session" => r.live) /\ Finds("Find", {r})
  \/ kind = "session" /\ (\E r \in Under(kind, k) : ~r.live) /\ Fails("Find", "expired")
  \/ Under(kind, k) = {} /\ Fails("Find", "notFound")

AccountsByUser(u) == Finds("AccountsByUser", {r \in Of(u) : r.kind = "account"})

RefreshSession(k) ==
  LET s == Under("session", k)
  IN  \/ /\ s # {}
         /\ rows' = (rows \ s) \cup {[r EXCEPT !.live = TRUE] : r \in s}
         /\ Answers("RefreshSession", "ok", {}) /\ UNCHANGED users
      \/ s = {} /\ Fails("RefreshSession", "notFound")

(* "Idempotent: returns nil if the session does not exist." *)
RevokeSession(k) ==
  /\ rows' = rows \ Under("session", k)
  /\ Answers("RevokeSession", "ok", {}) /\ UNCHANGED users

RevokeAllSessions(u) ==
  /\ rows' = {r \in rows : r.kind # "session" \/ r.user # u}
  /\ Answers("RevokeAllSessions", "ok", {}) /\ UNCHANGED users

(* UnlinkAccount and ConsumeVerification: of those who try to remove a     *)
(* row, one succeeds.                                                      *)
Remove(kind, k) ==
  \/ /\ Under(kind, k) # {}
     /\ rows' = rows \ Under(kind, k)
     /\ Answers("Remove", "ok", {}) /\ UNCHANGED users
  \/ Under(kind, k) = {} /\ Fails("Remove", "notFound")

(* Time passes a session's ExpiresAt. *)
Lapse ==
  /\ \E r \in rows : /\ r.live /\ r.kind = "session"
                     /\ rows' = (rows \ {r}) \cup {[r EXCEPT !.live = FALSE]}
  /\ UNCHANGED <<users, answer>>

StorageNext ==
  \/ \E u \in Users, e \in Emails : CreateUser(u, e) \/ UpdateUser(u, e)
  \/ \E u \in Users : UserByID(u) \/ DeleteUser(u) \/ AccountsByUser(u) \/ RevokeAllSessions(u)
  \/ \E e \in Emails : UserByEmail(e)
  \/ \E kind \in Kinds, k \in Keys, u \in Users, live \in BOOLEAN : Create(kind, k, u, live)
  \/ \E kind \in {"session", "verification"}, k \in Keys : Find(kind, k)
  \/ \E kind \in {"account", "verification"}, k \in Keys : Remove(kind, k)
  \/ \E k \in Keys : RefreshSession(k) \/ RevokeSession(k)
  \/ Lapse

StorageSpec == StorageInit /\ [][StorageNext]_storageVars
=============================================================================
