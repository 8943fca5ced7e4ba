-------------------------- MODULE AuthStoreProofs --------------------------
(***************************************************************************)
(* Where the adapters behind auth.Storage implement it, and where they     *)
(* depart from it, for every number of users, emails, keys and callers.    *)
(* Four invariants carry the refinement: the memory adapter's index        *)
(* follows the users' emails (IndexFollows, ClashesAreShared), a           *)
(* DeleteUser under way has hold of the rows it will take with it          *)
(* (TxHolds), and on SQLite of all of them (SQLiteAlone).                  *)
(***************************************************************************)
EXTENDS AuthStore, TLAPS

AuthInv == AuthTypeOK /\ IndexFollows /\ TxHolds
AloneInv == SQLiteAlone /\ ClashesAreShared

TxSet == [at : Stages, user : Users \cup {NoEmail}, gone : SUBSET Row, goneUser : BOOLEAN]

LEMMA TxTyped ==
  ASSUME AuthTypeOK, NEW c \in Callers
  PROVE  /\ tx[c] \in TxSet /\ tx[c].at \in Stages /\ tx[c].user \in Users \cup {NoEmail}
         /\ tx[c].gone \in SUBSET Row
<1>1. tx[c] \in TxSet
  BY DEF AuthTypeOK, TxSet
<1> QED
  BY <1>1 DEF TxSet

LEMMA RowIds ==
  ASSUME NEW r \in Row
  PROVE  /\ Id(r) \in Kinds \X Keys \X Users /\ Id(r)[1] = r.kind /\ Id(r)[3] = r.user
         /\ r.kind \in Kinds /\ r.key \in Keys /\ r.user \in Users
<1>1. r.kind \in Kinds /\ r.key \in Keys /\ r.user \in Users
  BY DEF Row
<1> QED
  BY <1>1 DEF Id

LEMMA TxRecord ==
  ASSUME NEW A, NEW B, NEW C, NEW D, NEW a \in A, NEW b \in B, NEW g \in C, NEW d \in D,
         NEW s \in [at : A, user : B, gone : C, goneUser : D]
  PROVE  /\ [s EXCEPT !.at = a] \in [at : A, user : B, gone : C, goneUser : D]
         /\ [s EXCEPT !.at = a, !.user = b] \in [at : A, user : B, gone : C, goneUser : D]
         /\ [s EXCEPT !.gone = g, !.at = a] \in [at : A, user : B, gone : C, goneUser : D]
         /\ [s EXCEPT !.goneUser = d, !.at = a] \in [at : A, user : B, gone : C, goneUser : D]
  OBVIOUS

LEMMA NoTxIs == NoTx \in TxSet /\ NoTx.at = "idle" /\ NoTx.user = NoEmail /\ NoTx.gone = {}
  BY DEF NoTx, TxSet, Stages

-----------------------------------------------------------------------------
(* What each step leaves of the two invariants. *)

LEMMA IndexSame ==
  ASSUME IndexFollows, UNCHANGED <<backend, users, byEmail, clashed>>
  PROVE  IndexFollows'
  BY DEF IndexFollows, Memory, Holders

LEMMA TxSame ==
  ASSUME TxHolds, UNCHANGED <<backend, rows, tx, had>>
  PROVE  TxHolds'
  BY DEF TxHolds, Memory, Of

(* The rows change, but none that a transaction has deleted goes. *)
LEMMA RowsStep ==
  ASSUME AuthInv, NEW new \in SUBSET Row, Become(new),
         UNCHANGED <<backend, users, byEmail, clashed, tx>>,
         \A c \in Callers : tx[c].gone \subseteq new
  PROVE  AuthInv'
<1>1. /\ rows' = new
      /\ had' = [c \in Callers |-> had[c] \cap {Id(r) : r \in new}]
  BY DEF Become
<1>2. AuthTypeOK'
  BY <1>1 DEF AuthInv, AuthTypeOK
<1>3. IndexFollows'
  BY IndexSame DEF AuthInv
<1>4. TxHolds'
  <2> SUFFICES ASSUME NEW c \in Callers
               PROVE  /\ tx[c].at = "idle" <=> tx[c].user = NoEmail
                      /\ Memory => tx[c].at \in {"idle", "called"}
                      /\ tx[c].at \in {"idle", "called"} => tx[c].gone = {}
                      /\ tx[c].gone \subseteq {r \in new : r.user = tx[c].user}
                      /\ \A o \in Callers \ {c} : tx[o].gone \cap tx[c].gone = {}
                      /\ \A i \in had'[c] : i[3] = tx[c].user /\ \E r \in new : Id(r) = i
                      /\ \A i \in had'[c] : i[1] \in Passed(tx[c].at) => \E r \in tx[c].gone : Id(r) = i
    BY <1>1 DEF TxHolds, Of, Memory
  <2>1. /\ tx[c].at = "idle" <=> tx[c].user = NoEmail
        /\ Memory => tx[c].at \in {"idle", "called"}
        /\ tx[c].at \in {"idle", "called"} => tx[c].gone = {}
        /\ tx[c].gone \subseteq Of(tx[c].user)
        /\ \A o \in Callers \ {c} : tx[o].gone \cap tx[c].gone = {}
        /\ \A i \in had[c] : i[3] = tx[c].user
        /\ \A i \in had[c] : i[1] \in Passed(tx[c].at) => \E r \in tx[c].gone : Id(r) = i
    BY DEF AuthInv, TxHolds
  <2>2. had'[c] = had[c] \cap {Id(r) : r \in new}
    BY <1>1
  <2>3. tx[c].gone \subseteq {r \in new : r.user = tx[c].user}
    BY <2>1 DEF Of
  <2>4. \A i \in had'[c] : i \in had[c] /\ \E r \in new : Id(r) = i
    BY <2>2
  <2> QED
    BY <2>1, <2>3, <2>4
<1> QED
  BY <1>2, <1>3, <1>4 DEF AuthInv

(* Which rows a statement may remove: none that a transaction has deleted; *)
(* in memory none is under way.                                            *)
LEMMA Removable ==
  ASSUME AuthInv, NEW some, Writable(some), NEW c \in Callers
  PROVE  tx[c].gone \cap some = {}
<1>1. Memory => tx[c].gone = {}
  BY DEF AuthInv, TxHolds
<1> QED
  BY <1>1 DEF Writable, Locked

LEMMA GoneAreRows == ASSUME AuthInv, NEW c \in Callers PROVE tx[c].gone \subseteq rows
  BY DEF AuthInv, TxHolds, Of

LEMMA RefreshedAreRows ==
  ASSUME NEW s \in SUBSET Row, NEW b \in BOOLEAN
  PROVE  {[r EXCEPT !.live = b] : r \in s} \in SUBSET Row
<1> SUFFICES ASSUME NEW r \in Row PROVE [r EXCEPT !.live = b] \in Row
  OBVIOUS
<1> DEFINE L == BOOLEAN
<1>1. Row = [kind : Kinds, key : Keys, user : Users, live : L] /\ b \in L
  BY DEF Row
<1> HIDE DEF L
<1> QED
  BY <1>1

LEMMA DeletesStep ==
  ASSUME AuthInv, NEW op, NEW some, Deletes(op, some)
  PROVE  AuthInv'
<1>1. /\ Writable(some) /\ Become(rows \ some) /\ UNCHANGED <<backend, users, byEmail, clashed, tx>>
  BY DEF Deletes
<1>2. \A c \in Callers : tx[c].gone \subseteq rows \ some
  BY <1>1, Removable, GoneAreRows
<1>3. rows \ some \in SUBSET Row
  BY DEF AuthInv, AuthTypeOK
<1> QED
  BY <1>1, <1>2, <1>3, RowsStep

LEMMA ReadsStep ==
  ASSUME AuthInv, NEW op, NEW res, NEW got, Reads(op, res, got)
  PROVE  AuthInv'
<1>1. UNCHANGED <<backend, users, byEmail, rows, clashed, tx, had>>
  BY DEF Reads, data
<1> QED
  BY <1>1, IndexSame, TxSame DEF AuthInv, AuthTypeOK

LEMMA CreateStep ==
  ASSUME AuthInv, NEW kind \in Kinds, NEW k \in Keys, NEW u \in Users, Create(kind, k, u)
  PROVE  AuthInv'
<1>1. PICK live \in BOOLEAN :
        IF Memory THEN memCreate(kind, k, u, live) ELSE sqlCreate(kind, k, u, live)
  BY DEF Create
<1>2. NewRow(kind, k, u, live) \in Row
  BY DEF NewRow, Row
<1> DEFINE n == NewRow(kind, k, u, live)
<1> HIDE DEF n
<1>3. n \in Row
  BY <1>2 DEF n
<1>4. CASE memCreate(kind, k, u, live) /\ Memory
  <2>1. /\ Become((rows \ Under(kind, k)) \cup {n})
        /\ UNCHANGED <<backend, users, byEmail, clashed, tx>>
    BY <1>4 DEF memCreate, n
  <2>2. (rows \ Under(kind, k)) \cup {n} \in SUBSET Row
    BY <1>3 DEF AuthInv, AuthTypeOK
  <2>3. \A c \in Callers : tx[c].gone = {}
    BY <1>4 DEF AuthInv, TxHolds
  <2> QED
    BY <2>1, <2>2, <2>3, RowsStep
<1>5. CASE Become(rows \cup {n}) /\ UNCHANGED <<backend, users, byEmail, clashed, tx>>
  <2>1. rows \cup {n} \in SUBSET Row
    BY <1>3 DEF AuthInv, AuthTypeOK
  <2>2. \A c \in Callers : tx[c].gone \subseteq rows \cup {n}
    BY GoneAreRows
  <2> QED
    BY <1>5, <2>1, <2>2, RowsStep
<1>6. CASE sqlCreate(kind, k, u, live)
  <2>1. \/ Fails("Create", OfRows(kind).unique)
        \/ Become(rows \cup {n}) /\ UNCHANGED <<backend, users, byEmail, clashed, tx>>
    BY <1>6 DEF sqlCreate, n
  <2> QED
    BY <1>5, <2>1, ReadsStep DEF Fails
<1> QED
  BY <1>1, <1>4, <1>6

LEMMA RefreshStep ==
  ASSUME AuthInv, NEW k \in Keys, RefreshSession(k)
  PROVE  AuthInv'
<1> DEFINE s == Under("session", k)
           new == (rows \ s) \cup {[r EXCEPT !.live = TRUE] : r \in s}
<1>1. Writable(s)
  BY DEF RefreshSession
<1>2. \/ \E res : Fails("RefreshSession", res)
      \/ Become(new) /\ UNCHANGED <<backend, users, byEmail, clashed, tx>>
  BY DEF RefreshSession
<1>3. rows \in SUBSET Row /\ s \in SUBSET Row
  BY DEF AuthInv, AuthTypeOK, Under
<1>4. {[r EXCEPT !.live = TRUE] : r \in s} \in SUBSET Row
  BY <1>3, RefreshedAreRows
<1>5. new \in SUBSET Row
  BY <1>3, <1>4
<1>6. \A c \in Callers : tx[c].gone \subseteq new
  BY <1>1, Removable, GoneAreRows
<1> HIDE DEF new, s
<1>7. CASE Become(new) /\ UNCHANGED <<backend, users, byEmail, clashed, tx>>
  BY <1>5, <1>6, <1>7, RowsStep
<1> QED
  BY <1>2, <1>7, ReadsStep DEF Fails

LEMMA LapseStep == ASSUME AuthInv, Lapse PROVE AuthInv'
<1>1. PICK r \in rows : /\ ~Locked({r}) /\ Become((rows \ {r}) \cup {[r EXCEPT !.live = FALSE]})
                        /\ UNCHANGED <<backend, users, byEmail, clashed, tx>>
  BY DEF Lapse
<1> DEFINE x == [r EXCEPT !.live = FALSE]
<1>2. rows \in SUBSET Row
  BY DEF AuthInv, AuthTypeOK
<1>3. {[q EXCEPT !.live = FALSE] : q \in rows} \in SUBSET Row
  BY <1>2, RefreshedAreRows
<1>4. x \in Row
  BY <1>3
<1> HIDE DEF x
<1>5. (rows \ {r}) \cup {x} \in SUBSET Row
  BY <1>2, <1>4
<1>6. \A c \in Callers : tx[c].gone \subseteq (rows \ {r}) \cup {x}
  BY <1>1, GoneAreRows DEF Locked
<1>7. Become((rows \ {r}) \cup {x})
  BY <1>1 DEF x
<1> QED
  BY <1>1, <1>5, <1>6, <1>7, RowsStep

LEMMA CreateUserStep ==
  ASSUME AuthInv, NEW u \in Users, NEW e \in Emails, CreateUser(u, e)
  PROVE  AuthInv'
<1>1. ~Exists(u) /\ IF Memory THEN memCreateUser(u, e) ELSE sqlCreateUser(u, e)
  BY DEF CreateUser
<1>2. /\ users \in [Users -> Emails \cup {NoEmail}] /\ byEmail \in [Emails -> Users \cup {NoEmail}]
      /\ IndexFollows
  BY DEF AuthInv, AuthTypeOK
<1>3. CASE /\ Memory /\ byEmail[e] = NoEmail
           /\ users' = [users EXCEPT ![u] = e] /\ byEmail' = [byEmail EXCEPT ![e] = u]
           /\ UNCHANGED <<backend, rows, clashed, tx, had>>
  <2>1. AuthTypeOK' /\ TxHolds'
    BY <1>3, TxSame DEF AuthInv, AuthTypeOK
  <2>2. ASSUME NEW x \in Emails
        PROVE  /\ byEmail'[x] # NoEmail => users'[byEmail'[x]] = x
               /\ x \notin clashed => \A v \in Users : users'[v] = x => byEmail'[x] = v
    <3>1. /\ byEmail[x] # NoEmail => users[byEmail[x]] = x
          /\ x \notin clashed => \A v \in Users : users[v] = x => byEmail[x] = v
      BY <1>2, <1>3 DEF IndexFollows, Holders
    <3>2. users[u] = NoEmail /\ NoEmail \notin Users \cup Emails
      BY <1>1, NoEmailAssumption DEF Exists
    <3>3. CASE x = e
      <4>1. byEmail'[x] = u /\ users'[u] = x
        BY <1>2, <1>3, <3>3
      <4>2. \A v \in Users \ {u} : users'[v] = users[v]
        BY <1>2, <1>3
      <4> QED
        BY <1>2, <1>3, <3>1, <3>2, <3>3, <4>1, <4>2
    <3>4. CASE x # e
      <4>1. byEmail'[x] = byEmail[x]
        BY <1>2, <1>3, <3>4
      <4>2. byEmail[x] # u
        BY <3>1, <3>2
      <4>3. users'[u] = e /\ \A v \in Users \ {u} : users'[v] = users[v]
        BY <1>2, <1>3
      <4> QED
        BY <1>2, <3>1, <3>4, <4>1, <4>2, <4>3
    <3> QED
      BY <3>3, <3>4
  <2>3. IndexFollows'
    BY <1>3, <2>2 DEF IndexFollows, Holders, Memory
  <2> QED
    BY <2>1, <2>3 DEF AuthInv
<1>4. CASE /\ ~Memory /\ users' = [users EXCEPT ![u] = e]
           /\ UNCHANGED <<backend, byEmail, rows, clashed, tx, had>>
  BY <1>4, TxSame DEF AuthInv, AuthTypeOK, IndexFollows, Memory
<1>5. CASE \E res : Fails("CreateUser", res)
  BY <1>5, ReadsStep DEF Fails
<1> QED
  BY <1>1, <1>3, <1>4, <1>5 DEF memCreateUser, sqlCreateUser

LEMMA UpdateUserStep ==
  ASSUME AuthInv, NEW u \in Users, NEW e \in Emails, UpdateUser(u, e)
  PROVE  AuthInv'
<1>1. IF Memory THEN memUpdateUser(u, e) ELSE sqlUpdateUser(u, e)
  BY DEF UpdateUser
<1>2. /\ users \in [Users -> Emails \cup {NoEmail}] /\ byEmail \in [Emails -> Users \cup {NoEmail}]
      /\ IndexFollows /\ clashed \in SUBSET Emails
  BY DEF AuthInv, AuthTypeOK
<1>3. CASE /\ Memory /\ Exists(u)
           /\ byEmail' = IF users[u] # e THEN [byEmail EXCEPT ![users[u]] = NoEmail, ![e] = u]
                         ELSE byEmail
           /\ users' = [users EXCEPT ![u] = e]
           /\ clashed' = IF Holders(e) \subseteq {u} THEN clashed ELSE clashed \cup {e}
           /\ UNCHANGED <<backend, rows, tx, had>>
  <2>1. users[u] \in Emails /\ NoEmail \notin Users \cup Emails
    BY <1>2, <1>3, NoEmailAssumption DEF Exists
  <2>2. /\ byEmail' \in [Emails -> Users \cup {NoEmail}]
        /\ byEmail'[e] = IF users[u] # e THEN u ELSE byEmail[e]
        /\ users[u] # e => byEmail'[users[u]] = NoEmail
        /\ \A x \in Emails : x # e /\ x # users[u] => byEmail'[x] = byEmail[x]
    BY <1>2, <1>3, <2>1
  <2>3. /\ users' \in [Users -> Emails \cup {NoEmail}] /\ users'[u] = e
        /\ \A v \in Users \ {u} : users'[v] = users[v]
    BY <1>2, <1>3
  <2>4. clashed' \in SUBSET Emails /\ clashed \subseteq clashed'
    BY <1>2, <1>3
  <2>5. AuthTypeOK' /\ TxHolds'
    BY <1>3, <2>2, <2>3, <2>4, TxSame DEF AuthInv, AuthTypeOK
  <2>6. ASSUME NEW x \in Emails
        PROVE  /\ byEmail'[x] # NoEmail => users'[byEmail'[x]] = x
               /\ x \notin clashed' => \A v \in Users : users'[v] = x => byEmail'[x] = v
    <3>1. /\ byEmail[x] # NoEmail => users[byEmail[x]] = x
          /\ x \notin clashed => \A v \in Users : users[v] = x => byEmail[x] = v
      BY <1>2, <1>3 DEF IndexFollows, Holders
    <3>2. byEmail[x] \in Users \cup {NoEmail}
      BY <1>2
    <3>3. CASE x = e
      <4>1. x \notin clashed' => \A v \in Users : users[v] = x => v = u
        BY <1>3, <3>3 DEF Holders
      <4> QED
        BY <2>1, <2>2, <2>3, <2>4, <3>1, <3>2, <3>3, <4>1
    <3>4. CASE x # e /\ x = users[u]
      <4>1. byEmail'[x] = NoEmail
        BY <2>2, <3>4
      <4>2. x \notin clashed' => \A v \in Users : users[v] = x => v = u
        BY <2>4, <3>1, <3>4
      <4> QED
        BY <2>3, <3>4, <4>1, <4>2
    <3>5. CASE x # e /\ x # users[u]
      <4>1. byEmail'[x] = byEmail[x]
        BY <2>2, <3>5
      <4>2. byEmail[x] # u \/ byEmail[x] = NoEmail
        BY <3>1, <3>5
      <4> QED
        BY <2>1, <2>3, <2>4, <3>1, <3>2, <3>5, <4>1, <4>2
    <3> QED
      BY <3>3, <3>4, <3>5
  <2>7. IndexFollows'
    BY <1>3, <2>6 DEF IndexFollows, Holders, Memory
  <2> QED
    BY <2>5, <2>7 DEF AuthInv
<1>4. CASE /\ ~Memory /\ users' = [users EXCEPT ![u] = e]
           /\ UNCHANGED <<backend, byEmail, rows, clashed, tx, had>>
  BY <1>4, TxSame DEF AuthInv, AuthTypeOK, IndexFollows, Memory
<1>5. CASE \E res : Fails("UpdateUser", res)
  BY <1>5, ReadsStep DEF Fails
<1> QED
  BY <1>1, <1>3, <1>4, <1>5 DEF memUpdateUser, sqlUpdateUser

-----------------------------------------------------------------------------
(* The statements of DeleteUser. *)

(* TxHolds of one caller, and of two. *)
HoldsOf(t, h, now, mem) ==
  /\ t.at = "idle" <=> t.user = NoEmail
  /\ mem => t.at \in {"idle", "called"}
  /\ t.at \in {"idle", "called"} => t.gone = {}
  /\ t.gone \subseteq {r \in now : r.user = t.user}
  /\ \A i \in h : i[3] = t.user /\ \E r \in now : Id(r) = i
  /\ \A i \in h : i[1] \in Passed(t.at) => \E r \in t.gone : Id(r) = i

LEMMA TxHoldsBy ==
  TxHolds <=> /\ \A c \in Callers : HoldsOf(tx[c], had[c], rows, Memory)
              /\ \A c, o \in Callers : c # o => tx[o].gone \cap tx[c].gone = {}
<1>1. ASSUME TxHolds, NEW c \in Callers PROVE HoldsOf(tx[c], had[c], rows, Memory)
  BY <1>1 DEF TxHolds, HoldsOf, Of
<1>2. ASSUME TxHolds, NEW c \in Callers, NEW o \in Callers, c # o
      PROVE  tx[o].gone \cap tx[c].gone = {}
  BY <1>2 DEF TxHolds
<1>3. ASSUME \A c \in Callers : HoldsOf(tx[c], had[c], rows, Memory),
             \A c, o \in Callers : c # o => tx[o].gone \cap tx[c].gone = {}
      PROVE  TxHolds
  BY <1>3 DEF TxHolds, HoldsOf, Of
<1> QED
  BY <1>1, <1>2, <1>3

LEMMA PassedIs ==
  /\ Passed("idle") = {} /\ Passed("called") = {} /\ Passed("session") = {}
  /\ Passed("account") = {"session"} /\ Passed("verification") = {"session", "account"}
  /\ Passed("user") = Kinds /\ Passed("commit") = Kinds
  BY DEF Passed

(* A caller's transaction becomes t, and nothing is committed. *)
LEMMA TxMoves ==
  ASSUME AuthInv, NEW c \in Callers, NEW t \in TxSet, NEW h \in SUBSET (Kinds \X Keys \X Users),
         tx' = [tx EXCEPT ![c] = t], had' = [had EXCEPT ![c] = h],
         UNCHANGED <<backend, users, byEmail, rows, clashed>>,
         HoldsOf(t, h, rows, Memory),
         \A o \in Callers \ {c} : tx[o].gone \cap t.gone = {}
  PROVE  AuthInv'
<1>1. tx \in [Callers -> TxSet] /\ had \in [Callers -> SUBSET (Kinds \X Keys \X Users)]
  BY DEF AuthInv, AuthTypeOK, TxSet
<1>2. /\ tx' \in [Callers -> TxSet] /\ tx'[c] = t /\ \A o \in Callers \ {c} : tx'[o] = tx[o]
  BY <1>1
<1>3. /\ had' \in [Callers -> SUBSET (Kinds \X Keys \X Users)] /\ had'[c] = h
      /\ \A o \in Callers \ {c} : had'[o] = had[o]
  BY <1>1
<1>4. AuthTypeOK'
  BY <1>2, <1>3 DEF AuthInv, AuthTypeOK, TxSet
<1>5. IndexFollows'
  BY IndexSame DEF AuthInv
<1>6. /\ \A o \in Callers : HoldsOf(tx[o], had[o], rows, Memory)
      /\ \A o, x \in Callers : o # x => tx[x].gone \cap tx[o].gone = {}
  BY TxHoldsBy DEF AuthInv
<1>7. Memory' <=> Memory
  BY DEF Memory
<1>8. ASSUME NEW o \in Callers PROVE HoldsOf(tx'[o], had'[o], rows', Memory')
  <2>1. HoldsOf(tx'[o], had'[o], rows, Memory)
    BY <1>2, <1>3, <1>6
  <2> QED
    BY <1>7, <2>1 DEF HoldsOf
<1>9. \A o, x \in Callers : o # x => tx'[x].gone \cap tx'[o].gone = {}
  BY <1>2, <1>6
<1>10. TxHolds'
  BY <1>8, <1>9 DEF TxHolds, HoldsOf, Of
<1> QED
  BY <1>4, <1>5, <1>10 DEF AuthInv

(* A DeleteUser returns, and the rows are new: what the others have        *)
(* deleted is still there.                                                 *)
LEMMA TxEndsStep ==
  ASSUME AuthInv, NEW c \in Callers, NEW res, NEW new \in SUBSET Row, TxEnds(c, res, new),
         UNCHANGED <<backend, clashed>>,
         \A o \in Callers \ {c} : tx[o].gone \subseteq new
  PROVE  /\ TxHolds' /\ tx' \in [Callers -> TxSet] /\ rows' \in SUBSET Row
         /\ had' \in [Callers -> SUBSET (Kinds \X Keys \X Users)]
<1>1. tx \in [Callers -> TxSet] /\ had \in [Callers -> SUBSET (Kinds \X Keys \X Users)]
  BY DEF AuthInv, AuthTypeOK, TxSet
<1>2. /\ tx' = [tx EXCEPT ![c] = NoTx] /\ rows' = new
      /\ had' = [o \in Callers |-> IF o = c THEN {} ELSE had[o] \cap {Id(r) : r \in new}]
  BY DEF TxEnds
<1>3. tx' \in [Callers -> TxSet] /\ tx'[c] = NoTx /\ \A o \in Callers \ {c} : tx'[o] = tx[o]
  BY <1>1, <1>2, NoTxIs
<1>4. /\ had' \in [Callers -> SUBSET (Kinds \X Keys \X Users)] /\ had'[c] = {}
      /\ \A o \in Callers \ {c} : had'[o] = had[o] \cap {Id(r) : r \in new}
  BY <1>1, <1>2
<1>5. /\ \A o \in Callers : HoldsOf(tx[o], had[o], rows, Memory)
      /\ \A o, x \in Callers : o # x => tx[x].gone \cap tx[o].gone = {}
  BY TxHoldsBy DEF AuthInv
<1>6. Memory' <=> Memory
  BY DEF Memory
<1>7. HoldsOf(NoTx, {}, new, Memory')
  BY NoTxIs DEF HoldsOf
<1>8. ASSUME NEW o \in Callers \ {c} PROVE HoldsOf(tx[o], had'[o], new, Memory')
  <2>1. HoldsOf(tx[o], had[o], rows, Memory)
    BY <1>5
  <2>2. tx[o].gone \subseteq new /\ had'[o] = had[o] \cap {Id(r) : r \in new}
    BY <1>4
  <2>3. \A i \in had'[o] : i \in had[o] /\ \E r \in new : Id(r) = i
    BY <2>2
  <2> QED
    BY <1>6, <2>1, <2>2, <2>3 DEF HoldsOf
<1>9. \A o \in Callers : HoldsOf(tx'[o], had'[o], rows', Memory')
  BY <1>2, <1>3, <1>4, <1>7, <1>8
<1>10. \A o, x \in Callers : o # x => tx'[x].gone \cap tx'[o].gone = {}
  BY <1>3, <1>5, NoTxIs
<1>11. TxHolds'
  BY <1>9, <1>10 DEF TxHolds, HoldsOf, Of
<1> QED
  BY <1>2, <1>3, <1>4, <1>11

LEMMA CallStep ==
  ASSUME AuthInv, NEW c \in Callers, NEW u \in Users, CallDeleteUser(c, u)
  PROVE  AuthInv'
<1> DEFINE t == [NoTx EXCEPT !.at = "called", !.user = u]
           h == {Id(r) : r \in Of(u)}
<1>1. /\ tx' = [tx EXCEPT ![c] = t] /\ had' = [had EXCEPT ![c] = h]
      /\ UNCHANGED <<backend, users, byEmail, rows, clashed>>
  BY DEF CallDeleteUser, data
<1>2. t \in TxSet
  BY NoTxIs, TxRecord DEF TxSet, Stages
<1>3. t.at = "called" /\ t.user = u /\ t.gone = {}
  BY NoTxIs DEF TxSet
<1>4. h \in SUBSET (Kinds \X Keys \X Users) /\ \A i \in h : i[3] = u /\ \E r \in rows : Id(r) = i
  BY RowIds DEF AuthInv, AuthTypeOK, Of
<1>5. u # NoEmail
  BY NoEmailAssumption
<1> HIDE DEF t, h
<1>6. HoldsOf(t, h, rows, Memory)
  BY <1>3, <1>4, <1>5, PassedIs DEF HoldsOf
<1>7. \A o \in Callers \ {c} : tx[o].gone \cap t.gone = {}
  BY <1>3
<1> QED
  BY <1>1, <1>2, <1>4, <1>6, <1>7, TxMoves

LEMMA MemDeleteStep == ASSUME AuthInv, NEW c \in Callers, memDeleteUser(c) PROVE AuthInv'
<1> DEFINE u == tx[c].user
<1>1. Memory /\ tx[c].at = "called" /\ UNCHANGED <<backend, clashed>>
  BY DEF memDeleteUser
<1>2. u \in Users
  BY <1>1, TxTyped DEF AuthInv, TxHolds
<1>3. /\ users \in [Users -> Emails \cup {NoEmail}] /\ byEmail \in [Emails -> Users \cup {NoEmail}]
      /\ IndexFollows /\ rows \in SUBSET Row /\ clashed \in SUBSET Emails /\ backend \in Backends
  BY DEF AuthInv, AuthTypeOK
<1>4. \A o \in Callers : tx[o].gone = {}
  BY <1>1 DEF AuthInv, TxHolds
<1>5. CASE ~Exists(u)
  <2>1. TxEnds(c, "notFound", rows) /\ UNCHANGED <<users, byEmail>>
    BY <1>5 DEF memDeleteUser
  <2>2. /\ TxHolds' /\ tx' \in [Callers -> TxSet] /\ rows' \in SUBSET Row
        /\ had' \in [Callers -> SUBSET (Kinds \X Keys \X Users)]
    BY <1>1, <1>3, <1>4, <2>1, TxEndsStep
  <2>3. AuthTypeOK' /\ IndexFollows'
    BY <1>1, <1>3, <2>1, <2>2, IndexSame DEF AuthTypeOK, TxSet
  <2> QED
    BY <2>2, <2>3 DEF AuthInv
<1>6. CASE Exists(u)
  <2>1. /\ TxEnds(c, "ok", rows \ Of(u)) /\ byEmail' = [byEmail EXCEPT ![users[u]] = NoEmail]
        /\ users' = [users EXCEPT ![u] = NoEmail]
    BY <1>6 DEF memDeleteUser
  <2>2. rows \ Of(u) \in SUBSET Row /\ \A o \in Callers \ {c} : tx[o].gone \subseteq rows \ Of(u)
    BY <1>3, <1>4
  <2>3. /\ TxHolds' /\ tx' \in [Callers -> TxSet] /\ rows' \in SUBSET Row
        /\ had' \in [Callers -> SUBSET (Kinds \X Keys \X Users)]
    BY <1>1, <2>1, <2>2, TxEndsStep
  <2> HIDE DEF u
  <2>4. users[u] \in Emails /\ NoEmail \notin Users \cup Emails
    BY <1>2, <1>3, <1>6, NoEmailAssumption DEF Exists
  <2>5. /\ byEmail' \in [Emails -> Users \cup {NoEmail}] /\ byEmail'[users[u]] = NoEmail
        /\ \A x \in Emails \ {users[u]} : byEmail'[x] = byEmail[x]
    BY <1>3, <2>1, <2>4
  <2>6. /\ users' \in [Users -> Emails \cup {NoEmail}] /\ users'[u] = NoEmail
        /\ \A v \in Users \ {u} : users'[v] = users[v]
    BY <1>2, <1>3, <2>1
  <2>7. AuthTypeOK'
    BY <1>1, <1>3, <2>3, <2>5, <2>6 DEF AuthTypeOK, TxSet
  <2>8. ASSUME NEW x \in Emails
        PROVE  /\ byEmail'[x] # NoEmail => users'[byEmail'[x]] = x
               /\ x \notin clashed => \A v \in Users : users'[v] = x => byEmail'[x] = v
    <3>1. /\ byEmail[x] # NoEmail => users[byEmail[x]] = x
          /\ x \notin clashed => \A v \in Users : users[v] = x => byEmail[x] = v
      BY <1>1, <1>3 DEF IndexFollows, Holders
    <3>2. byEmail[x] \in Users \cup {NoEmail}
      BY <1>3
    <3> QED
      BY <1>2, <2>4, <2>5, <2>6, <3>1, <3>2
  <2>9. IndexFollows'
    BY <1>1, <2>8 DEF IndexFollows, Holders, Memory
  <2> QED
    BY <2>3, <2>7, <2>9 DEF AuthInv
<1> QED
  BY <1>5, <1>6

(* A DeleteUser of SQL ends: what is stored of the users may be anything   *)
(* as far as the invariants go.                                            *)
LEMMA SqlEndsStep ==
  ASSUME AuthInv, NEW c \in Callers, NEW res, NEW new \in SUBSET Row, TxEnds(c, res, new), ~Memory,
         UNCHANGED <<backend, clashed, byEmail>>,
         users' \in [Users -> Emails \cup {NoEmail}],
         \A o \in Callers \ {c} : tx[o].gone \subseteq new
  PROVE  AuthInv'
<1>1. /\ TxHolds' /\ tx' \in [Callers -> TxSet] /\ rows' \in SUBSET Row
      /\ had' \in [Callers -> SUBSET (Kinds \X Keys \X Users)]
  BY TxEndsStep
<1>2. AuthTypeOK'
  BY <1>1 DEF AuthInv, AuthTypeOK, TxSet
<1>3. IndexFollows'
  BY DEF IndexFollows, Memory
<1> QED
  BY <1>1, <1>2, <1>3 DEF AuthInv

LEMMA SqlOnly ==
  ASSUME AuthInv, NEW c \in Callers, tx[c].at \notin {"idle", "called"}
  PROVE  ~Memory /\ tx[c].user \in Users
<1>1. ~Memory /\ tx[c].user # NoEmail
  BY DEF AuthInv, TxHolds
<1> QED
  BY <1>1, TxTyped DEF AuthInv

LEMMA SqlCheckStep == ASSUME AuthInv, NEW c \in Callers, sqlCheckUser(c) PROVE AuthInv'
<1>1. ~Memory /\ tx[c].at = "called" /\ UNCHANGED <<backend, users, byEmail, clashed>>
  BY DEF sqlCheckUser
<1>2. CASE TxEnds(c, "notFound", rows)
  <2>1. rows \in SUBSET Row /\ users \in [Users -> Emails \cup {NoEmail}]
    BY DEF AuthInv, AuthTypeOK
  <2> QED
    BY <1>1, <1>2, <2>1, GoneAreRows, SqlEndsStep
<1>3. CASE tx' = [tx EXCEPT ![c].at = "session"] /\ UNCHANGED <<rows, had, answer>>
  <2> DEFINE t == [tx[c] EXCEPT !.at = "session"]
  <2>1. tx[c] \in TxSet
    BY TxTyped DEF AuthInv
  <2>2. t \in TxSet
    BY <2>1, TxRecord DEF TxSet, Stages, Kinds
  <2>3. t.at = "session" /\ t.user = tx[c].user /\ t.gone = tx[c].gone
    BY <2>1 DEF TxSet
  <2>4. tx' = [tx EXCEPT ![c] = t]
    BY <1>3 DEF AuthInv, AuthTypeOK
  <2> HIDE DEF t
  <2>5. HoldsOf(tx[c], had[c], rows, Memory)
    BY TxHoldsBy DEF AuthInv
  <2>6. HoldsOf(t, had[c], rows, Memory)
    BY <1>1, <2>3, <2>5, PassedIs DEF HoldsOf
  <2>7. \A o \in Callers \ {c} : tx[o].gone \cap t.gone = {}
    BY <2>3, TxHoldsBy DEF AuthInv
  <2>8. had[c] \in SUBSET (Kinds \X Keys \X Users) /\ had' = [had EXCEPT ![c] = had[c]]
    BY <1>3 DEF AuthInv, AuthTypeOK
  <2> QED
    BY <1>1, <1>3, <2>2, <2>4, <2>6, <2>7, <2>8, TxMoves
<1> QED
  BY <1>2, <1>3 DEF sqlCheckUser

LEMMA SqlRowsStep == ASSUME AuthInv, NEW c \in Callers, sqlDeleteRows(c) PROVE AuthInv'
<1> DEFINE at == tx[c].at
           taken == {r \in Of(tx[c].user) : r.kind = at}
           g == tx[c].gone \cup taken
           t == [tx[c] EXCEPT !.gone = g, !.at = After(at)]
<1>1. /\ at \in Kinds /\ \A o \in Callers \ {c} : tx[o].gone \cap taken = {}
      /\ tx' = [tx EXCEPT ![c].gone = @ \cup taken, ![c].at = After(@)]
      /\ UNCHANGED <<backend, users, byEmail, rows, clashed, had>>
  BY DEF sqlDeleteRows, data
<1>2. tx[c] \in TxSet /\ tx[c].gone \in SUBSET Row
  BY TxTyped DEF AuthInv
<1>3. taken \in SUBSET Row /\ taken \subseteq rows /\ \A r \in taken : r.user = tx[c].user
  BY DEF AuthInv, AuthTypeOK, Of
<1>4. /\ After(at) \in Stages \ {"idle", "called"}
      /\ Passed(After(at)) \subseteq Passed(at) \cup {at}
  BY <1>1, PassedIs DEF After, Stages, Kinds
<1>5. \A r \in Of(tx[c].user) : r.kind = at => r \in taken
  OBVIOUS
<1>6. tx' = [tx EXCEPT ![c] = t]
  BY <1>1 DEF AuthInv, AuthTypeOK
<1> HIDE DEF taken
<1>7. g \in SUBSET Row
  BY <1>2, <1>3
<1>8. t \in TxSet
  BY <1>2, <1>4, <1>7, TxRecord DEF TxSet
<1>9. t.at = After(at) /\ t.user = tx[c].user /\ t.gone = g
  BY <1>2 DEF TxSet
<1> HIDE DEF t
<1>10. HoldsOf(tx[c], had[c], rows, Memory)
  BY TxHoldsBy DEF AuthInv
<1>11. ~Memory /\ tx[c].user # NoEmail
  BY <1>1, SqlOnly, NoEmailAssumption DEF Kinds
<1>12. ASSUME NEW i \in had[c], i[1] \in Passed(After(at)) PROVE \E r \in g : Id(r) = i
  <2>1. i[3] = tx[c].user /\ \E r \in rows : Id(r) = i
    BY <1>10 DEF HoldsOf
  <2>2. CASE i[1] \in Passed(at)
    BY <1>10, <2>2 DEF HoldsOf
  <2>3. CASE i[1] = at
    <3>1. PICK r \in rows : Id(r) = i
      BY <2>1
    <3>2. r \in Row
      BY DEF AuthInv, AuthTypeOK
    <3>3. r.kind = at /\ r.user = tx[c].user
      BY <2>1, <2>3, <3>1, <3>2, RowIds
    <3>4. r \in taken
      BY <1>5, <3>3 DEF Of
    <3> QED
      BY <3>1, <3>4
  <2> QED
    BY <1>4, <1>12, <2>2, <2>3
<1>13. HoldsOf(t, had[c], rows, Memory)
  BY <1>3, <1>4, <1>9, <1>10, <1>11, <1>12 DEF HoldsOf
<1>14. \A o \in Callers \ {c} : tx[o].gone \cap t.gone = {}
  <2>1. \A o \in Callers \ {c} : tx[o].gone \cap tx[c].gone = {}
    BY TxHoldsBy DEF AuthInv
  <2> QED
    BY <1>1, <1>9, <2>1
<1>15. had[c] \in SUBSET (Kinds \X Keys \X Users) /\ had' = [had EXCEPT ![c] = had[c]]
  BY <1>1 DEF AuthInv, AuthTypeOK
<1> QED
  BY <1>1, <1>6, <1>8, <1>13, <1>14, <1>15, TxMoves

LEMMA SqlUserStep == ASSUME AuthInv, NEW c \in Callers, sqlDeleteUserRow(c) PROVE AuthInv'
<1> DEFINE b == TRUE
           t == [tx[c] EXCEPT !.goneUser = b, !.at = "commit"]
<1>1. /\ tx[c].at = "user" /\ tx' = [tx EXCEPT ![c].goneUser = b, ![c].at = "commit"]
      /\ UNCHANGED <<backend, users, byEmail, rows, clashed, had>>
  BY DEF sqlDeleteUserRow, data
<1>2. b \in BOOLEAN
  OBVIOUS
<1> HIDE DEF b
<1>3. tx[c] \in TxSet
  BY TxTyped DEF AuthInv
<1>4. t \in TxSet
  BY <1>2, <1>3, TxRecord DEF TxSet, Stages
<1>5. t.at = "commit" /\ t.user = tx[c].user /\ t.gone = tx[c].gone
  BY <1>3 DEF TxSet
<1>6. tx' = [tx EXCEPT ![c] = t]
  BY <1>1 DEF AuthInv, AuthTypeOK
<1> HIDE DEF t
<1>7. HoldsOf(tx[c], had[c], rows, Memory)
  BY TxHoldsBy DEF AuthInv
<1>8. HoldsOf(t, had[c], rows, Memory)
  BY <1>1, <1>5, <1>7, PassedIs DEF HoldsOf
<1>9. \A o \in Callers \ {c} : tx[o].gone \cap t.gone = {}
  BY <1>5, TxHoldsBy DEF AuthInv
<1>10. had[c] \in SUBSET (Kinds \X Keys \X Users) /\ had' = [had EXCEPT ![c] = had[c]]
  BY <1>1 DEF AuthInv, AuthTypeOK
<1> QED
  BY <1>1, <1>4, <1>6, <1>8, <1>9, <1>10, TxMoves

LEMMA SqlCommitStep == ASSUME AuthInv, NEW c \in Callers, sqlCommit(c) PROVE AuthInv'
<1>1. /\ tx[c].at = "commit" /\ users' = [users EXCEPT ![tx[c].user] = NoEmail]
      /\ TxEnds(c, "ok", rows \ tx[c].gone) /\ UNCHANGED <<backend, byEmail, clashed>>
  BY DEF sqlCommit
<1>2. ~Memory
  BY <1>1, SqlOnly
<1>3. /\ users' \in [Users -> Emails \cup {NoEmail}] /\ rows \ tx[c].gone \in SUBSET Row
  BY <1>1 DEF AuthInv, AuthTypeOK
<1>4. \A o \in Callers \ {c} : tx[o].gone \cap tx[c].gone = {}
  BY TxHoldsBy DEF AuthInv
<1>5. \A o \in Callers \ {c} : tx[o].gone \subseteq rows \ tx[c].gone
  BY <1>4, GoneAreRows
<1> QED
  BY <1>1, <1>2, <1>3, <1>5, SqlEndsStep

LEMMA SqlRollbackStep == ASSUME AuthInv, NEW c \in Callers, sqlRollback(c) PROVE AuthInv'
<1>1. /\ ~Memory /\ TxEnds(c, "error", rows) /\ UNCHANGED <<backend, users, byEmail, clashed>>
  BY DEF sqlRollback
<1>2. users \in [Users -> Emails \cup {NoEmail}] /\ rows \in SUBSET Row
  BY DEF AuthInv, AuthTypeOK
<1> QED
  BY <1>1, <1>2, GoneAreRows, SqlEndsStep

LEMMA AuthStart == AuthInit => AuthInv
<1> SUFFICES ASSUME AuthInit PROVE AuthInv
  OBVIOUS
<1>1. tx \in [Callers -> TxSet] /\ \A c \in Callers : tx[c] = NoTx
  BY NoTxIs DEF AuthInit
<1>2. AuthTypeOK
  BY <1>1 DEF AuthInit, AuthTypeOK, TxSet
<1>3. IndexFollows
  BY NoEmailAssumption DEF AuthInit, IndexFollows, Holders
<1>4. TxHolds
  BY <1>1, NoTxIs DEF AuthInit, TxHolds
<1> QED
  BY <1>2, <1>3, <1>4 DEF AuthInv

LEMMA AuthStep == AuthInv /\ [AuthNext]_authVars => AuthInv'
<1> SUFFICES ASSUME AuthInv, [AuthNext]_authVars PROVE AuthInv'
  OBVIOUS
<1>1. CASE UNCHANGED authVars
  BY <1>1, IndexSame, TxSame DEF authVars, AuthInv, AuthTypeOK
<1>2. ASSUME NEW u \in Users, UserByID(u) PROVE AuthInv'
  BY <1>2, ReadsStep DEF UserByID, scanUser, Fails
<1>3. ASSUME NEW u \in Users, AccountsByUser(u) \/ RevokeAllSessions(u) PROVE AuthInv'
  BY <1>3, ReadsStep, DeletesStep DEF AccountsByUser, RevokeAllSessions
<1>4. ASSUME NEW e \in Emails, UserByEmail(e) PROVE AuthInv'
  BY <1>4, ReadsStep DEF UserByEmail, scanUser, Fails
<1>5. ASSUME NEW k \in Keys, SessionByToken(k) PROVE AuthInv'
  BY <1>5, ReadsStep DEF SessionByToken, Fails
<1>6. ASSUME NEW k \in Keys, VerificationByCode(k) PROVE AuthInv'
  BY <1>6, ReadsStep DEF VerificationByCode, Fails
<1>7. ASSUME NEW k \in Keys, RevokeSession(k) PROVE AuthInv'
  BY <1>7, DeletesStep DEF RevokeSession
<1>8. ASSUME NEW k \in Keys, UnlinkAccount(k) \/ ConsumeVerification(k) PROVE AuthInv'
  BY <1>8, DeletesStep, ReadsStep DEF UnlinkAccount, ConsumeVerification, RemoveRow, Fails
<1>9. ASSUME NEW c \in Callers,
             \/ \E u \in Users : CallDeleteUser(c, u)
             \/ memDeleteUser(c) \/ sqlCheckUser(c) \/ sqlDeleteRows(c)
             \/ sqlDeleteUserRow(c) \/ sqlCommit(c) \/ sqlRollback(c)
      PROVE  AuthInv'
  BY <1>9, CallStep, MemDeleteStep, SqlCheckStep, SqlRowsStep, SqlUserStep, SqlCommitStep,
     SqlRollbackStep
<1>10. ASSUME NEW u \in Users, NEW e \in Emails, CreateUser(u, e) \/ UpdateUser(u, e) PROVE AuthInv'
  BY <1>10, CreateUserStep, UpdateUserStep
<1> QED
  BY <1>1, <1>2, <1>3, <1>4, <1>5, <1>6, <1>7, <1>8, <1>9, <1>10, CreateStep, RefreshStep, LapseStep
     DEF AuthNext

-----------------------------------------------------------------------------
(* On SQLite a transaction under way is alone: who would write waits. *)

LEMMA AloneSame ==
  ASSUME SQLiteAlone, UNCHANGED <<backend, users, rows, tx>>
  PROVE  SQLiteAlone'
  BY DEF SQLiteAlone, UnderWay, Exists, Of

LEMMA AloneFree ==
  ASSUME Memory \/ ~SQLiteBusy, UNCHANGED <<backend, tx>>
  PROVE  SQLiteAlone'
  BY DEF SQLiteAlone, SQLiteBusy, UnderWay, Memory

LEMMA AloneReads ==
  ASSUME AloneInv, NEW op, NEW res, NEW got, Reads(op, res, got)
  PROVE  AloneInv'
  BY AloneSame DEF AloneInv, ClashesAreShared, Reads, data

LEMMA AloneWrites ==
  ASSUME AloneInv, Memory \/ ~SQLiteBusy, UNCHANGED <<backend, clashed, tx>>
  PROVE  AloneInv'
  BY AloneFree DEF AloneInv, ClashesAreShared

LEMMA AloneUsers ==
  ASSUME AloneInv, NEW u \in Users, NEW e \in Emails, CreateUser(u, e) \/ UpdateUser(u, e)
  PROVE  AloneInv'
<1>1. CASE CreateUser(u, e)
  <2>1. \/ \E res : Fails("CreateUser", res)
        \/ (Memory \/ ~SQLiteBusy) /\ UNCHANGED <<backend, clashed, tx>>
    BY <1>1 DEF CreateUser, memCreateUser, sqlCreateUser
  <2> QED
    BY <2>1, AloneReads, AloneWrites DEF Fails
<1>2. CASE UpdateUser(u, e)
  <2>1. \/ \E res : Fails("UpdateUser", res)
        \/ (Memory \/ ~SQLiteBusy) /\ UNCHANGED <<backend, tx>> /\ (Shares \/ UNCHANGED clashed)
    BY <1>2 DEF UpdateUser, memUpdateUser, sqlUpdateUser
  <2>2. CASE (Memory \/ ~SQLiteBusy) /\ UNCHANGED <<backend, tx>> /\ (Shares \/ UNCHANGED clashed)
    BY <2>2, AloneFree DEF AloneInv, ClashesAreShared
  <2> QED
    BY <2>1, <2>2, AloneReads DEF Fails
<1> QED
  BY <1>1, <1>2

LEMMA AloneDeletes ==
  ASSUME AloneInv, NEW op, NEW some, Deletes(op, some)
  PROVE  AloneInv'
  BY AloneWrites DEF Deletes, Writable

LEMMA AloneRows ==
  ASSUME AloneInv, NEW kind \in Kinds, NEW k \in Keys, NEW u \in Users,
         Create(kind, k, u)
  PROVE  AloneInv'
<1>1. \/ \E op, res : Fails(op, res)
      \/ (Memory \/ ~SQLiteBusy) /\ UNCHANGED <<backend, clashed, tx>>
  BY DEF Create, memCreate, sqlCreate
<1> QED
  BY <1>1, AloneReads, AloneWrites DEF Fails

(* A session that lapses is of a kind not yet deleted, or of another user. *)
LEMMA AloneLapse == ASSUME AuthInv, AloneInv, Lapse PROVE AloneInv'
<1>1. PICK r \in rows : /\ r.kind = "session" /\ ~Locked({r})
                        /\ Become((rows \ {r}) \cup {[r EXCEPT !.live = FALSE]})
                        /\ UNCHANGED <<backend, users, clashed, tx>>
  BY DEF Lapse
<1> DEFINE x == [r EXCEPT !.live = FALSE]
<1>2. rows' = (rows \ {r}) \cup {x}
  BY <1>1 DEF Become
<1>3. x.kind = r.kind /\ x.user = r.user
  BY DEF AuthInv, AuthTypeOK, Row
<1> HIDE DEF x
<1>4. ASSUME backend = "sqlite", NEW c \in Callers, UnderWay(c)
      PROVE  /\ \A o \in Callers \ {c} : ~UnderWay(o)
             /\ Exists(tx[c].user)
             /\ \A q \in rows' : q.user = tx[c].user /\ q.kind \in Passed(tx[c].at) => q \in tx[c].gone
  <2>1. /\ \A o \in Callers \ {c} : ~UnderWay(o)
        /\ Exists(tx[c].user)
        /\ \A q \in rows : q.user = tx[c].user /\ q.kind \in Passed(tx[c].at) => q \in tx[c].gone
    BY <1>4 DEF AloneInv, SQLiteAlone, Of
  <2>2. r \notin tx[c].gone
    BY <1>1 DEF Locked
  <2> QED
    BY <1>2, <1>3, <2>1, <2>2
<1>5. SQLiteAlone'
  BY <1>1, <1>4 DEF SQLiteAlone, UnderWay, Exists, Of
<1> QED
  BY <1>1, <1>5 DEF AloneInv, ClashesAreShared

(* A transaction that ends leaves the others as they are; on SQLite they   *)
(* have not begun.                                                         *)
LEMMA AloneEnds ==
  ASSUME AuthInv, AloneInv, NEW c \in Callers, NEW res, NEW new, TxEnds(c, res, new),
         UNCHANGED <<backend, clashed>>,
         Memory \/ UnderWay(c) \/ (new = rows /\ UNCHANGED users)
  PROVE  AloneInv'
<1>1. tx' = [tx EXCEPT ![c] = NoTx] /\ rows' = new
  BY DEF TxEnds
<1>2. tx'[c] = NoTx /\ \A o \in Callers \ {c} : tx'[o] = tx[o]
  BY <1>1 DEF AuthInv, AuthTypeOK
<1>3. tx'[c].at = "idle"
  BY <1>2, NoTxIs
<1>4. ASSUME backend = "sqlite", NEW o \in Callers \ {c}, UnderWay(o)
      PROVE  UNCHANGED <<rows, users>>
  BY <1>1, <1>4 DEF AloneInv, SQLiteAlone, Memory
<1>5. SQLiteAlone'
  <2> SUFFICES ASSUME backend = "sqlite", NEW o \in Callers, tx'[o].at \notin {"idle", "called"}
               PROVE  /\ \A p \in Callers \ {o} : tx'[p].at \in {"idle", "called"}
                      /\ Exists(tx[o].user)'
                      /\ \A r \in rows' : r.user = tx'[o].user /\ r.kind \in Passed(tx'[o].at)
                                          => r \in tx'[o].gone
    BY DEF SQLiteAlone, UnderWay, Of, Exists
  <2>1. o # c /\ tx'[o] = tx[o] /\ UnderWay(o)
    BY <1>2, <1>3 DEF UnderWay
  <2>2. UNCHANGED <<rows, users>>
    BY <1>4, <2>1
  <2>3. /\ \A p \in Callers \ {o} : ~UnderWay(p)
        /\ Exists(tx[o].user)
        /\ \A r \in rows : r.user = tx[o].user /\ r.kind \in Passed(tx[o].at) => r \in tx[o].gone
    BY <2>1 DEF AloneInv, SQLiteAlone, Of
  <2> QED
    BY <1>2, <1>3, <2>1, <2>2, <2>3 DEF UnderWay, Exists
<1> QED
  BY <1>5 DEF AloneInv, ClashesAreShared

(* A caller's transaction becomes t, of which all is known that            *)
(* SQLiteAlone asks.                                                       *)
LEMMA AloneMoves ==
  ASSUME AuthInv, AloneInv, NEW c \in Callers, NEW t, tx' = [tx EXCEPT ![c] = t],
         UNCHANGED <<backend, users, rows, clashed>>,
         backend = "sqlite" /\ t.at \notin {"idle", "called"} =>
           /\ \A o \in Callers \ {c} : ~UnderWay(o)
           /\ Exists(t.user)
           /\ \A r \in Of(t.user) : r.kind \in Passed(t.at) => r \in t.gone
  PROVE  AloneInv'
<1>1. tx'[c] = t /\ \A o \in Callers \ {c} : tx'[o] = tx[o]
  BY DEF AuthInv, AuthTypeOK
<1>2. SQLiteAlone'
  <2> SUFFICES ASSUME backend = "sqlite", NEW o \in Callers, tx'[o].at \notin {"idle", "called"}
               PROVE  /\ \A p \in Callers \ {o} : tx'[p].at \in {"idle", "called"}
                      /\ Exists(tx'[o].user)
                      /\ \A r \in Of(tx'[o].user) : r.kind \in Passed(tx'[o].at) => r \in tx'[o].gone
    BY DEF SQLiteAlone, UnderWay, Of, Exists
  <2>1. CASE o = c
    BY <1>1, <2>1 DEF UnderWay
  <2>2. CASE o # c
    <3>1. /\ \A p \in Callers \ {o} : ~UnderWay(p)
          /\ Exists(tx[o].user)
          /\ \A r \in Of(tx[o].user) : r.kind \in Passed(tx[o].at) => r \in tx[o].gone
      BY <1>1, <2>2 DEF AloneInv, SQLiteAlone, UnderWay
    <3>2. t.at \in {"idle", "called"}
      BY <1>1, <2>2 DEF UnderWay
    <3> QED
      BY <1>1, <2>2, <3>1, <3>2 DEF UnderWay
  <2> QED
    BY <2>1, <2>2
<1> QED
  BY <1>2 DEF AloneInv, ClashesAreShared

LEMMA AloneBegins ==
  ASSUME AuthInv, AloneInv, NEW c \in Callers,
         (\E u \in Users : CallDeleteUser(c, u)) \/ sqlCheckUser(c)
  PROVE  AloneInv'
<1>1. ASSUME NEW u \in Users, CallDeleteUser(c, u) PROVE AloneInv'
  <2> DEFINE t == [NoTx EXCEPT !.at = "called", !.user = u]
  <2>1. tx' = [tx EXCEPT ![c] = t] /\ UNCHANGED <<backend, users, rows, clashed>>
    BY <1>1 DEF CallDeleteUser, data
  <2>2. t.at = "called"
    BY NoTxIs DEF TxSet
  <2> HIDE DEF t
  <2> QED
    BY <2>1, <2>2, AloneMoves
<1>2. CASE sqlCheckUser(c)
  <2>1. tx[c].at = "called" /\ UNCHANGED <<backend, users, clashed>>
    BY <1>2 DEF sqlCheckUser
  <2>2. CASE TxEnds(c, "notFound", rows)
    BY <2>1, <2>2, AloneEnds
  <2>3. CASE /\ Exists(tx[c].user) /\ ~SQLiteBusy
             /\ tx' = [tx EXCEPT ![c].at = "session"] /\ UNCHANGED rows
    <3> DEFINE t == [tx[c] EXCEPT !.at = "session"]
    <3>1. tx[c] \in TxSet
      BY TxTyped DEF AuthInv
    <3>2. t.at = "session" /\ t.user = tx[c].user
      BY <3>1 DEF TxSet
    <3>3. tx' = [tx EXCEPT ![c] = t]
      BY <2>3 DEF AuthInv, AuthTypeOK
    <3> HIDE DEF t
    <3> QED
      BY <2>1, <2>3, <3>2, <3>3, PassedIs, AloneMoves DEF SQLiteBusy
  <2> QED
    BY <1>2, <2>2, <2>3 DEF sqlCheckUser
<1> QED
  BY <1>1, <1>2

LEMMA AloneRuns ==
  ASSUME AuthInv, AloneInv, NEW c \in Callers, sqlDeleteRows(c) \/ sqlDeleteUserRow(c)
  PROVE  AloneInv'
<1>1. tx[c] \in TxSet
  BY TxTyped DEF AuthInv
<1>2. tx[c].at \notin {"idle", "called"} /\ UNCHANGED <<backend, users, rows, clashed>>
  BY DEF sqlDeleteRows, sqlDeleteUserRow, data, Kinds
<1>3. backend = "sqlite" =>
        /\ \A o \in Callers \ {c} : ~UnderWay(o)
        /\ Exists(tx[c].user)
        /\ \A r \in Of(tx[c].user) : r.kind \in Passed(tx[c].at) => r \in tx[c].gone
  BY <1>2 DEF AloneInv, SQLiteAlone, UnderWay
<1>4. CASE sqlDeleteRows(c)
  <2> DEFINE at == tx[c].at
             taken == {r \in Of(tx[c].user) : r.kind = at}
             t == [tx[c] EXCEPT !.gone = tx[c].gone \cup taken, !.at = After(at)]
  <2>1. at \in Kinds /\ tx' = [tx EXCEPT ![c].gone = @ \cup taken, ![c].at = After(@)]
    BY <1>4 DEF sqlDeleteRows
  <2>2. tx' = [tx EXCEPT ![c] = t]
    BY <2>1 DEF AuthInv, AuthTypeOK
  <2>3. t.at = After(at) /\ t.user = tx[c].user /\ t.gone = tx[c].gone \cup taken
    BY <1>1 DEF TxSet
  <2>4. Passed(After(at)) \subseteq Passed(at) \cup {at}
    BY <2>1, PassedIs DEF After, Kinds
  <2> HIDE DEF t
  <2> QED
    BY <1>2, <1>3, <2>2, <2>3, <2>4, AloneMoves
<1>5. CASE sqlDeleteUserRow(c)
  <2> DEFINE b == TRUE
             t == [tx[c] EXCEPT !.goneUser = b, !.at = "commit"]
  <2>1. tx[c].at = "user" /\ tx' = [tx EXCEPT ![c].goneUser = b, ![c].at = "commit"]
    BY <1>5 DEF sqlDeleteUserRow
  <2> HIDE DEF b
  <2>2. tx' = [tx EXCEPT ![c] = t]
    BY <2>1 DEF AuthInv, AuthTypeOK
  <2>3. t.at = "commit" /\ t.user = tx[c].user /\ t.gone = tx[c].gone
    BY <1>1 DEF TxSet
  <2> HIDE DEF t
  <2>4. Passed(t.at) = Passed(tx[c].at)
    BY <2>1, <2>3, PassedIs
  <2> QED
    BY <1>2, <1>3, <2>2, <2>3, <2>4, AloneMoves
<1> QED
  BY <1>4, <1>5

LEMMA AloneReturns ==
  ASSUME AuthInv, AloneInv, NEW c \in Callers, memDeleteUser(c) \/ sqlCommit(c) \/ sqlRollback(c)
  PROVE  AloneInv'
<1>1. CASE memDeleteUser(c)
  <2>1. Memory /\ UNCHANGED <<backend, clashed>> /\ \E res, new : TxEnds(c, res, new)
    BY <1>1 DEF memDeleteUser
  <2> QED
    BY <2>1, AloneEnds
<1>2. CASE sqlCommit(c)
  <2>1. UnderWay(c) /\ UNCHANGED <<backend, clashed>> /\ \E res, new : TxEnds(c, res, new)
    BY <1>2 DEF sqlCommit, UnderWay
  <2> QED
    BY <2>1, AloneEnds
<1>3. CASE sqlRollback(c)
  BY <1>3, AloneEnds DEF sqlRollback
<1> QED
  BY <1>1, <1>2, <1>3

LEMMA AloneStep == AuthInv /\ AloneInv /\ [AuthNext]_authVars => AloneInv'
<1> SUFFICES ASSUME AuthInv, AloneInv, [AuthNext]_authVars PROVE AloneInv'
  OBVIOUS
<1>1. CASE UNCHANGED authVars
  BY <1>1, AloneSame DEF authVars, AloneInv, ClashesAreShared
<1>2. ASSUME NEW u \in Users, UserByID(u) PROVE AloneInv'
  BY <1>2, AloneReads DEF UserByID, scanUser, Fails
<1>3. ASSUME NEW u \in Users, AccountsByUser(u) \/ RevokeAllSessions(u) PROVE AloneInv'
  BY <1>3, AloneReads, AloneDeletes DEF AccountsByUser, RevokeAllSessions
<1>4. ASSUME NEW e \in Emails, UserByEmail(e) PROVE AloneInv'
  BY <1>4, AloneReads DEF UserByEmail, scanUser, Fails
<1>5. ASSUME NEW k \in Keys, SessionByToken(k) PROVE AloneInv'
  BY <1>5, AloneReads DEF SessionByToken, Fails
<1>6. ASSUME NEW k \in Keys, VerificationByCode(k) PROVE AloneInv'
  BY <1>6, AloneReads DEF VerificationByCode, Fails
<1>7. ASSUME NEW k \in Keys, RevokeSession(k) PROVE AloneInv'
  BY <1>7, AloneDeletes DEF RevokeSession
<1>8. ASSUME NEW k \in Keys, UnlinkAccount(k) \/ ConsumeVerification(k) PROVE AloneInv'
  BY <1>8, AloneDeletes, AloneReads DEF UnlinkAccount, ConsumeVerification, RemoveRow, Fails
<1>9. ASSUME NEW c \in Callers,
             \/ \E u \in Users : CallDeleteUser(c, u)
             \/ memDeleteUser(c) \/ sqlCheckUser(c) \/ sqlDeleteRows(c)
             \/ sqlDeleteUserRow(c) \/ sqlCommit(c) \/ sqlRollback(c)
      PROVE  AloneInv'
  BY <1>9, AloneBegins, AloneRuns, AloneReturns
<1>10. ASSUME NEW k \in Keys, RefreshSession(k) PROVE AloneInv'
  <2>1. \/ \E op, res : Fails(op, res)
        \/ (Memory \/ ~SQLiteBusy) /\ UNCHANGED <<backend, clashed, tx>>
    BY <1>10 DEF RefreshSession, Writable
  <2> QED
    BY <2>1, AloneReads, AloneWrites DEF Fails
<1>11. ASSUME NEW kind \in Kinds, NEW k \in Keys, NEW u \in Users, Create(kind, k, u) PROVE AloneInv'
  BY <1>11, AloneRows
<1>12. ASSUME NEW u \in Users, NEW e \in Emails, CreateUser(u, e) \/ UpdateUser(u, e) PROVE AloneInv'
  BY <1>12, AloneUsers
<1> QED
  BY <1>1, <1>2, <1>3, <1>4, <1>5, <1>6, <1>7, <1>8, <1>9, <1>10, <1>11, <1>12, AloneLapse DEF AuthNext
-----------------------------------------------------------------------------
(* Each step is one that auth.Storage allows, or none, or one of the       *)
(* deviations.                                                             *)

LEMMA ReadsAre ==
  ASSUME NEW op, NEW res, NEW got, Reads(op, res, got)
  PROVE  /\ res = "ok" => Storage!Finds(op, got)
         /\ got = {} => Storage!Fails(op, res)
<1>1. UNCHANGED <<users, rows>> /\ answer' = [op |-> op, res |-> res, got |-> got]
  BY DEF Reads, Says, data
<1> QED
  BY <1>1 DEF Storage!Answers, Storage!Finds, Storage!Fails

LEMMA SameWords ==
  /\ \A u : Storage!Exists(u) <=> Exists(u)
  /\ \A e : Storage!Holders(e) = Holders(e)
  /\ \A u : Storage!Of(u) = Of(u)
  /\ \A kind, k : Storage!Under(kind, k) = Under(kind, k)
  /\ \A op, res, got : Storage!Answers(op, res, got) <=> Says(op, res, got)
  BY DEF Storage!Exists, Exists, Storage!Holders, Holders, Storage!Of, Of, Storage!Under, Under,
         Storage!Answers, Says

(* What the memory adapter's index says of an email. *)
LEMMA IndexSays ==
  ASSUME AuthInv, Memory, NEW e \in Emails
  PROVE  /\ byEmail[e] # NoEmail => byEmail[e] \in Holders(e)
         /\ byEmail[e] = NoEmail => e \in clashed \/ Holders(e) = {}
<1>1. byEmail[e] \in Users \cup {NoEmail}
  BY DEF AuthInv, AuthTypeOK
<1> QED
  BY <1>1, NoEmailAssumption DEF AuthInv, IndexFollows, Holders

LEMMA CreateUserAllowed ==
  ASSUME AuthInv, NEW u \in Users, NEW e \in Emails, CreateUser(u, e)
  PROVE  Storage!CreateUser(u, e) \/ memoryIndexDeviates
<1>1. ~Exists(u) /\ IF Memory THEN memCreateUser(u, e) ELSE sqlCreateUser(u, e)
  BY DEF CreateUser
<1>2. CASE Holders(e) # {} /\ Fails("CreateUser", "conflict")
  BY <1>2, ReadsAre, SameWords DEF Fails, Storage!CreateUser
<1>3. CASE /\ users' = [users EXCEPT ![u] = e] /\ Says("CreateUser", "ok", {}) /\ UNCHANGED rows
           /\ Holders(e) = {} \/ (Memory /\ e \in clashed)
  <2>1. CASE Holders(e) = {}
    BY <1>1, <1>3, <2>1, SameWords DEF Storage!CreateUser
  <2>2. CASE Holders(e) # {}
    BY <1>1, <1>3, <2>2 DEF memoryIndexDeviates
  <2> QED
    BY <2>1, <2>2
<1>4. CASE Memory
  BY <1>1, <1>2, <1>3, <1>4, IndexSays DEF memCreateUser
<1>5. CASE ~Memory
  <2>1. OfUsers.CreateUser.unique = "conflict"
    BY DEF OfUsers, pgxUsers, sqlUsers
  <2> QED
    BY <1>1, <1>2, <1>3, <1>5, <2>1 DEF sqlCreateUser
<1> QED
  BY <1>4, <1>5

LEMMA ByIDAllowed ==
  ASSUME AuthInv, NEW u \in Users, UserByID(u)
  PROVE  Storage!UserByID(u) \/ pgxLookupDeviates \/ postgresLookupDeviates
<1>1. CASE Reads("UserByID", "ok", {u}) /\ Exists(u)
  BY <1>1, ReadsAre, SameWords DEF Storage!UserByID
<1>2. CASE Fails("UserByID", "notFound") /\ ~Exists(u)
  BY <1>2, ReadsAre, SameWords DEF Fails, Storage!UserByID
<1>3. CASE Fails("UserByID", "error") /\ Exists(u) /\ backend = "postgres"
  BY <1>3, ReadsAre DEF Fails, postgresLookupDeviates
<1>4. CASE Fails("UserByID", "error") /\ ~Exists(u) /\ backend = "pgx"
  BY <1>4, ReadsAre DEF Fails, pgxLookupDeviates
<1>5. CASE Memory
  <2>1. Reads("UserByID", IF Exists(u) THEN "ok" ELSE "notFound", {u} \cap {v \in Users : Exists(v)})
    BY <1>5 DEF UserByID
  <2>2. /\ Exists(u) => {u} \cap {v \in Users : Exists(v)} = {u}
        /\ ~Exists(u) => {u} \cap {v \in Users : Exists(v)} = {}
    OBVIOUS
  <2> QED
    BY <1>1, <1>2, <2>1, <2>2 DEF Fails
<1>6. CASE ~Memory
  <2>1. OfUsers.UserByID.none = IF backend = "pgx" THEN "error" ELSE "notFound"
    BY DEF OfUsers, pgxUsers, sqlUsers
  <2>2. Exists(u) => scanUser("UserByID", u)
    BY <1>6 DEF UserByID
  <2>3. ~Exists(u) => Fails("UserByID", OfUsers.UserByID.none)
    BY <1>6 DEF UserByID
  <2> QED
    BY <1>1, <1>2, <1>3, <1>4, <2>1, <2>2, <2>3 DEF scanUser
<1> QED
  BY <1>5, <1>6

LEMMA ByEmailAllowed ==
  ASSUME AuthInv, NEW e \in Emails, UserByEmail(e)
  PROVE  \/ Storage!UserByEmail(e)
         \/ pgxLookupDeviates \/ postgresLookupDeviates \/ memoryIndexDeviates
<1>1. ASSUME NEW u \in Holders(e), Reads("UserByEmail", "ok", {u}) PROVE Storage!UserByEmail(e)
  BY <1>1, ReadsAre, SameWords DEF Storage!UserByEmail
<1>2. CASE Fails("UserByEmail", "notFound") /\ Holders(e) = {}
  BY <1>2, ReadsAre, SameWords DEF Fails, Storage!UserByEmail
<1>3. CASE Fails("UserByEmail", "error") /\ Holders(e) # {} /\ backend = "postgres"
  BY <1>3, ReadsAre DEF Fails, postgresLookupDeviates
<1>4. CASE Fails("UserByEmail", "error") /\ Holders(e) = {} /\ backend = "pgx"
  BY <1>4, ReadsAre DEF Fails, pgxLookupDeviates
<1>5. CASE Memory
  <2>1. /\ byEmail[e] # NoEmail => Reads("UserByEmail", "ok", {byEmail[e]})
        /\ byEmail[e] = NoEmail => Fails("UserByEmail", "notFound")
    BY <1>5 DEF UserByEmail
  <2>2. CASE Fails("UserByEmail", "notFound") /\ Holders(e) # {} /\ e \in clashed
    BY <1>5, <2>2, ReadsAre DEF Fails, memoryIndexDeviates
  <2> QED
    BY <1>1, <1>2, <1>5, <2>1, <2>2, IndexSays
<1>6. CASE ~Memory
  <2>1. OfUsers.UserByEmail.none = IF backend = "pgx" THEN "error" ELSE "notFound"
    BY DEF OfUsers, pgxUsers, sqlUsers
  <2>2. Holders(e) # {} => \E u \in Holders(e) : scanUser("UserByEmail", u)
    BY <1>6 DEF UserByEmail
  <2>3. Holders(e) = {} => Fails("UserByEmail", OfUsers.UserByEmail.none)
    BY <1>6 DEF UserByEmail
  <2> QED
    BY <1>1, <1>2, <1>3, <1>4, <2>1, <2>2, <2>3 DEF scanUser
<1> QED
  BY <1>5, <1>6

LEMMA UpdateUserAllowed ==
  ASSUME AuthInv, NEW u \in Users, NEW e \in Emails, UpdateUser(u, e)
  PROVE  Storage!UpdateUser(u, e) \/ mysqlUpdateDeviates
<1>1. CASE ~Exists(u) /\ Fails("UpdateUser", "notFound")
  BY <1>1, ReadsAre, SameWords DEF Fails, Storage!UpdateUser
<1>2. CASE Exists(u) /\ ~(Holders(e) \subseteq {u}) /\ Fails("UpdateUser", "error")
  <2>1. Holders(e) \ {u} # {}
    BY <1>2
  <2> QED
    BY <1>2, <2>1, ReadsAre, SameWords DEF Fails, Storage!UpdateUser
<1>3. CASE /\ Exists(u) /\ users' = [users EXCEPT ![u] = e]
           /\ Says("UpdateUser", "ok", {}) /\ UNCHANGED rows
  BY <1>3, SameWords DEF Storage!UpdateUser
<1>4. CASE backend = "mysql" /\ Exists(u) /\ Fails("UpdateUser", "notFound")
  BY <1>4, ReadsAre DEF Fails, mysqlUpdateDeviates
<1>5. CASE Memory
  BY <1>1, <1>3, <1>5 DEF UpdateUser, memUpdateUser
<1>6. CASE ~Memory
  <2>1. OfUsers.UpdateUser.zero = "notFound" /\ OfUsers.UpdateUser.unique = "error"
    BY DEF OfUsers, pgxUsers, sqlUsers
  <2>2. PICK n \in affected(u, e) :
          \/ n = 0 /\ Fails("UpdateUser", OfUsers.UpdateUser.zero)
          \/ n = 1 /\ ~(Holders(e) \subseteq {u}) /\ Fails("UpdateUser", OfUsers.UpdateUser.unique)
          \/ /\ n = 1 /\ users' = [users EXCEPT ![u] = e]
             /\ Says("UpdateUser", "ok", {}) /\ UNCHANGED rows
    BY <1>6 DEF UpdateUser, sqlUpdateUser
  <2>3. /\ n = 0 => ~Exists(u) \/ backend = "mysql"
        /\ n = 1 => Exists(u)
    BY DEF affected
  <2> QED
    BY <1>1, <1>2, <1>3, <1>4, <2>1, <2>2, <2>3
<1> QED
  BY <1>5, <1>6

(* A DeleteUser that returns, in memory or in SQL. *)
LEMMA EndAllowed ==
  ASSUME NEW c \in Callers, NEW res, NEW new, TxEnds(c, res, new), NEW u \in Users,
         \/ /\ res = "ok" /\ Exists(u) /\ users' = [users EXCEPT ![u] = NoEmail] /\ new = rows \ Of(u)
         \/ res = "notFound" /\ ~Exists(u) /\ new = rows /\ UNCHANGED users
         \/ res = "error" /\ new = rows /\ UNCHANGED users
  PROVE  Storage!DeleteUser(u)
<1>1. rows' = new /\ Storage!Answers("DeleteUser", res, {})
  BY SameWords DEF TxEnds
<1>2. Storage!Of(u) = Of(u) /\ (Storage!Exists(u) <=> Exists(u))
  BY SameWords
<1> QED
  BY <1>1, <1>2 DEF Storage!DeleteUser, Storage!Fails

LEMMA CalledIsUser ==
  ASSUME AuthInv, NEW c \in Callers, tx[c].at # "idle"
  PROVE  tx[c].user \in Users
<1>1. tx[c].user # NoEmail
  BY DEF AuthInv, TxHolds
<1> QED
  BY <1>1, TxTyped DEF AuthInv

LEMMA MemDeleteAllowed ==
  ASSUME AuthInv, NEW c \in Callers, memDeleteUser(c)
  PROVE  Storage!DeleteUser(tx[c].user)
<1>1. tx[c].user \in Users
  BY CalledIsUser DEF memDeleteUser
<1>2. CASE Exists(tx[c].user)
  <2>1. /\ users' = [users EXCEPT ![tx[c].user] = NoEmail]
        /\ TxEnds(c, "ok", rows \ Of(tx[c].user))
    BY <1>2 DEF memDeleteUser
  <2> QED
    BY <1>1, <1>2, <2>1, EndAllowed
<1>3. CASE ~Exists(tx[c].user)
  <2>1. TxEnds(c, "notFound", rows) /\ UNCHANGED users
    BY <1>3 DEF memDeleteUser
  <2> QED
    BY <1>1, <1>3, <2>1, EndAllowed
<1> QED
  BY <1>2, <1>3

(* On SQLite what a commit takes is all its user has; under read committed *)
(* it is at least what the user had when the call began.                   *)
LEMMA SqlCommitAllowed ==
  ASSUME AuthInv, AloneInv, NEW c \in Callers, sqlCommit(c)
  PROVE  Storage!DeleteUser(tx[c].user) \/ sqlDeleteDeviates
<1>1. /\ tx[c].at = "commit" /\ users' = [users EXCEPT ![tx[c].user] = NoEmail]
      /\ TxEnds(c, "ok", rows \ tx[c].gone)
  BY DEF sqlCommit
<1>2. tx[c].user \in Users /\ ~Memory
  BY <1>1, CalledIsUser, SqlOnly
<1>3. HoldsOf(tx[c], had[c], rows, Memory)
  BY TxHoldsBy DEF AuthInv
<1>4. tx[c].gone \in SUBSET Of(tx[c].user)
  BY <1>3 DEF HoldsOf, Of
<1>5. CASE backend = "sqlite"
  <2>1. /\ Exists(tx[c].user)
        /\ \A r \in Of(tx[c].user) : r.kind \in Passed(tx[c].at) => r \in tx[c].gone
    BY <1>1, <1>5 DEF AloneInv, SQLiteAlone, UnderWay
  <2>2. \A r \in Of(tx[c].user) : r.kind \in Kinds
    BY RowIds DEF AuthInv, AuthTypeOK, Of
  <2>3. rows \ tx[c].gone = rows \ Of(tx[c].user)
    BY <1>1, <1>4, <2>1, <2>2, PassedIs
  <2> QED
    BY <1>1, <1>2, <2>1, <2>3, EndAllowed
<1>6. CASE backend # "sqlite"
  <2>1. backend \in ReadCommitted
    BY <1>2, <1>6, BackendsAssumption DEF AuthInv, AuthTypeOK, Memory, ReadCommitted
  <2>2. \A i \in had[c] : i[1] \in Kinds
    BY DEF AuthInv, AuthTypeOK
  <2>3. had[c] \subseteq {Id(r) : r \in tx[c].gone}
    BY <1>1, <1>3, <2>2, PassedIs DEF HoldsOf
  <2>4. rows' = rows \ tx[c].gone /\ Says("DeleteUser", "ok", {})
    BY <1>1 DEF TxEnds
  <2> QED
    BY <1>1, <1>2, <1>4, <2>1, <2>3, <2>4 DEF sqlDeleteDeviates
<1> QED
  BY <1>5, <1>6

LEMMA SqlOtherAllowed ==
  ASSUME AuthInv, NEW c \in Callers,
         \/ \E u \in Users : CallDeleteUser(c, u)
         \/ sqlCheckUser(c) \/ sqlDeleteRows(c) \/ sqlDeleteUserRow(c) \/ sqlRollback(c)
  PROVE  (tx[c].user \in Users /\ Storage!DeleteUser(tx[c].user)) \/ UNCHANGED Storage!storageVars
<1>1. CASE sqlCheckUser(c)
  <2>1. tx[c].user \in Users /\ UNCHANGED users
    BY <1>1, CalledIsUser DEF sqlCheckUser
  <2>2. CASE ~Exists(tx[c].user) /\ TxEnds(c, "notFound", rows)
    BY <2>1, <2>2, EndAllowed
  <2>3. CASE UNCHANGED <<rows, answer>>
    BY <2>1, <2>3 DEF Storage!storageVars
  <2> QED
    BY <1>1, <2>2, <2>3 DEF sqlCheckUser
<1>2. CASE (\E u \in Users : CallDeleteUser(c, u)) \/ sqlDeleteRows(c) \/ sqlDeleteUserRow(c)
  BY <1>2 DEF CallDeleteUser, sqlDeleteRows, sqlDeleteUserRow, data, Storage!storageVars
<1>3. CASE sqlRollback(c)
  <2>1. tx[c].user \in Users /\ TxEnds(c, "error", rows) /\ UNCHANGED users
    BY <1>3, CalledIsUser DEF sqlRollback
  <2> QED
    BY <2>1, EndAllowed
<1> QED
  BY <1>1, <1>2, <1>3

LEMMA CreateAllowed ==
  ASSUME AuthInv, NEW kind \in Kinds, NEW k \in Keys, NEW u \in Users, Create(kind, k, u)
  PROVE  \E live \in BOOLEAN : Storage!Create(kind, k, u, live)
<1>1. PICK live \in BOOLEAN :
        IF Memory THEN memCreate(kind, k, u, live) ELSE sqlCreate(kind, k, u, live)
  BY DEF Create
<1> DEFINE n == [kind |-> kind, key |-> k, user |-> u, live |-> live]
<1>2. ASSUME NEW old \in {{}, Under(kind, k)}, rows' = (rows \ old) \cup {n},
             Says("Create", "ok", {}), UNCHANGED users
      PROVE  Storage!Create(kind, k, u, live)
  <2> HIDE DEF n
  <2>1. Storage!Answers("Create", "ok", {})
    BY <1>2, SameWords
  <2>2. old \in {{}, Storage!Under(kind, k)}
    BY <1>2, SameWords
  <2> QED
    BY <1>2, <2>1, <2>2 DEF Storage!Create, n
<1>3. ASSUME Under(kind, k) # {}, NEW res \in {"conflict", "error"}, Fails("Create", res)
      PROVE  Storage!Create(kind, k, u, live)
  BY <1>3, ReadsAre, SameWords DEF Fails, Storage!Create
<1>4. CASE Memory
  <2>1. rows' = (rows \ Under(kind, k)) \cup {n} /\ Says("Create", "ok", {}) /\ UNCHANGED users
    BY <1>1, <1>4 DEF memCreate, NewRow, Become
  <2> QED
    BY <1>2, <2>1
<1>5. CASE ~Memory
  <2>1. \/ kind \in UniqueKinds /\ Under(kind, k) # {} /\ Fails("Create", OfRows(kind).unique)
        \/ rows' = rows \cup {n} /\ Says("Create", "ok", {}) /\ UNCHANGED users
    BY <1>1, <1>5 DEF sqlCreate, NewRow, Become
  <2>2. kind \in UniqueKinds => OfRows(kind).unique \in {"conflict", "error"}
    BY DEF UniqueKinds, OfRows, pgxSessions, pgxAccounts, pgxVerifications, sqlSessions, sqlAccounts,
           sqlVerifications
  <2>3. rows \cup {n} = (rows \ {}) \cup {n}
    OBVIOUS
  <2> HIDE DEF n
  <2> QED
    BY <1>2, <1>3, <2>1, <2>2, <2>3
<1> QED
  BY <1>4, <1>5

LEMMA NotFounds ==
  /\ OfRows("session").none = "notFound" /\ OfRows("session").zero = "notFound"
  /\ OfRows("verification").none = "notFound" /\ OfRows("verification").zero = "notFound"
  /\ OfRows("account").zero = "notFound"
  BY DEF OfRows, pgxSessions, pgxAccounts, pgxVerifications, sqlSessions, sqlAccounts, sqlVerifications

LEMMA FindAllowed ==
  ASSUME NEW k \in Keys
  PROVE  /\ SessionByToken(k) => Storage!Find("session", k)
         /\ VerificationByCode(k) => Storage!Find("verification", k)
<1>1. ASSUME NEW kind, Under(kind, k) = {}, Fails("Find", "notFound") PROVE Storage!Find(kind, k)
  BY <1>1, ReadsAre, SameWords DEF Fails, Storage!Find
<1>2. ASSUME NEW kind, NEW r \in Under(kind, k), kind = "session" => r.live, Reads("Find", "ok", {r})
      PROVE  Storage!Find(kind, k)
  BY <1>2, ReadsAre, SameWords DEF Storage!Find
<1>3. ASSUME NEW r \in Under("session", k), ~r.live, Fails("Find", "expired")
      PROVE  Storage!Find("session", k)
  BY <1>3, ReadsAre, SameWords DEF Fails, Storage!Find
<1>4. SessionByToken(k) => Storage!Find("session", k)
  BY <1>1, <1>2, <1>3, NotFounds DEF SessionByToken
<1>5. VerificationByCode(k) => Storage!Find("verification", k)
  BY <1>1, <1>2, NotFounds DEF VerificationByCode
<1> QED
  BY <1>4, <1>5

LEMMA DeletesAre ==
  ASSUME NEW op, NEW some, Deletes(op, some)
  PROVE  rows' = rows \ some /\ Storage!Answers(op, "ok", {}) /\ UNCHANGED users
  BY SameWords DEF Deletes, Become

LEMMA RefreshAllowed == ASSUME NEW k \in Keys, RefreshSession(k) PROVE Storage!RefreshSession(k)
<1> DEFINE s == Under("session", k)
           new == (rows \ s) \cup {[r EXCEPT !.live = TRUE] : r \in s}
<1>1. CASE s = {} /\ Fails("RefreshSession", "notFound")
  BY <1>1, ReadsAre, SameWords DEF Fails, Storage!RefreshSession
<1>2. CASE /\ s # {} /\ Become(new) /\ Says("RefreshSession", "ok", {}) /\ UNCHANGED users
  <2>1. rows' = new /\ Storage!Answers("RefreshSession", "ok", {})
    BY <1>2, SameWords DEF Become
  <2>2. Storage!Under("session", k) = s
    BY SameWords
  <2> QED
    BY <1>2, <2>1, <2>2 DEF Storage!RefreshSession
<1> QED
  BY <1>1, <1>2, NotFounds DEF RefreshSession

LEMMA RevokesAllowed ==
  /\ \A k \in Keys : RevokeSession(k) => Storage!RevokeSession(k)
  /\ \A u \in Users : RevokeAllSessions(u) => Storage!RevokeAllSessions(u)
<1>1. ASSUME NEW k \in Keys, RevokeSession(k) PROVE Storage!RevokeSession(k)
  <2>1. /\ rows' = (rows \ Under("session", k)) /\ Storage!Answers("RevokeSession", "ok", {})
        /\ UNCHANGED users
    BY <1>1, DeletesAre DEF RevokeSession
  <2> QED
    BY <2>1, SameWords DEF Storage!RevokeSession
<1>2. ASSUME NEW u \in Users, RevokeAllSessions(u) PROVE Storage!RevokeAllSessions(u)
  <2> DEFINE some == {r \in Of(u) : r.kind = "session"}
  <2>1. /\ rows' = (rows \ some) /\ Storage!Answers("RevokeAllSessions", "ok", {})
        /\ UNCHANGED users
    BY <1>2, DeletesAre DEF RevokeAllSessions
  <2>2. rows \ some = {r \in rows : r.kind # "session" \/ r.user # u}
    BY DEF Of
  <2> QED
    BY <2>1, <2>2 DEF Storage!RevokeAllSessions
<1> QED
  BY <1>1, <1>2

LEMMA RemoveAllowed ==
  ASSUME NEW kind \in {"account", "verification"}, NEW k \in Keys, RemoveRow(kind, k)
  PROVE  Storage!Remove(kind, k)
<1>1. CASE Under(kind, k) = {} /\ Fails("Remove", "notFound")
  BY <1>1, ReadsAre, SameWords DEF Fails, Storage!Remove
<1>2. CASE Under(kind, k) # {} /\ Deletes("Remove", Under(kind, k))
  <2>1. /\ rows' = (rows \ Under(kind, k)) /\ Storage!Answers("Remove", "ok", {})
        /\ UNCHANGED users
    BY <1>2, DeletesAre
  <2> QED
    BY <1>2, <2>1, SameWords DEF Storage!Remove
<1>3. OfRows(kind).zero = "notFound"
  BY NotFounds
<1> QED
  BY <1>1, <1>2, <1>3 DEF RemoveRow

LEMMA LapseAllowed == ASSUME Lapse PROVE Storage!Lapse
<1>1. PICK r \in rows : /\ r.live /\ r.kind = "session"
                        /\ Become((rows \ {r}) \cup {[r EXCEPT !.live = FALSE]})
                        /\ UNCHANGED <<users, answer>>
  BY DEF Lapse
<1>2. rows' = (rows \ {r}) \cup {[r EXCEPT !.live = FALSE]}
  BY <1>1 DEF Become
<1> QED
  BY <1>1, <1>2 DEF Storage!Lapse

LEMMA StepAllowed ==
  AuthInv /\ AloneInv /\ [AuthNext]_authVars
    => [Storage!StorageNext \/ Deviates]_(Storage!storageVars)
<1> SUFFICES ASSUME AuthInv, AloneInv, [AuthNext]_authVars
             PROVE  Storage!StorageNext \/ Deviates \/ UNCHANGED Storage!storageVars
  OBVIOUS
<1>1. CASE UNCHANGED authVars
  BY <1>1 DEF authVars, Storage!storageVars
<1>2. ASSUME NEW u \in Users, NEW e \in Emails, CreateUser(u, e) \/ UpdateUser(u, e)
      PROVE  Storage!StorageNext \/ Deviates
  BY <1>2, CreateUserAllowed, UpdateUserAllowed DEF Storage!StorageNext, Deviates
<1>3. ASSUME NEW u \in Users, UserByID(u) \/ AccountsByUser(u) \/ RevokeAllSessions(u)
      PROVE  Storage!StorageNext \/ Deviates
  <2>1. AccountsByUser(u) => Storage!AccountsByUser(u)
    BY ReadsAre, SameWords DEF AccountsByUser, Storage!AccountsByUser
  <2> QED
    BY <1>3, <2>1, ByIDAllowed, RevokesAllowed DEF Storage!StorageNext, Deviates
<1>4. ASSUME NEW e \in Emails, UserByEmail(e) PROVE Storage!StorageNext \/ Deviates
  BY <1>4, ByEmailAllowed DEF Storage!StorageNext, Deviates
<1>5. ASSUME NEW c \in Callers,
             \/ \E u \in Users : CallDeleteUser(c, u)
             \/ memDeleteUser(c) \/ sqlCheckUser(c) \/ sqlDeleteRows(c)
             \/ sqlDeleteUserRow(c) \/ sqlCommit(c) \/ sqlRollback(c)
      PROVE  Storage!StorageNext \/ Deviates \/ UNCHANGED Storage!storageVars
  <2>1. tx[c].user \in Users /\ Storage!DeleteUser(tx[c].user) => Storage!StorageNext
    BY DEF Storage!StorageNext
  <2>2. CASE memDeleteUser(c) \/ sqlCommit(c)
    <3>1. tx[c].user \in Users
      BY <2>2, CalledIsUser DEF memDeleteUser, sqlCommit
    <3> QED
      BY <2>1, <2>2, <3>1, MemDeleteAllowed, SqlCommitAllowed DEF Deviates
  <2>3. CASE ~(memDeleteUser(c) \/ sqlCommit(c))
    BY <1>5, <2>1, <2>3, SqlOtherAllowed
  <2> QED
    BY <2>2, <2>3
<1>6. ASSUME NEW kind \in Kinds, NEW k \in Keys, NEW u \in Users, Create(kind, k, u)
      PROVE  Storage!StorageNext
  <2>1. \E live \in BOOLEAN : Storage!Create(kind, k, u, live)
    BY <1>6, CreateAllowed
  <2>2. Kinds = Storage!Kinds
    BY DEF Kinds, Storage!Kinds
  <2> QED
    BY <2>1, <2>2 DEF Storage!StorageNext
<1>7. ASSUME NEW k \in Keys, SessionByToken(k) \/ VerificationByCode(k) PROVE Storage!StorageNext
  BY <1>7, FindAllowed DEF Storage!StorageNext
<1>8. ASSUME NEW k \in Keys, RefreshSession(k) \/ RevokeSession(k) PROVE Storage!StorageNext
  BY <1>8, RefreshAllowed, RevokesAllowed DEF Storage!StorageNext
<1>9. ASSUME NEW k \in Keys, UnlinkAccount(k) \/ ConsumeVerification(k) PROVE Storage!StorageNext
  BY <1>9, RemoveAllowed DEF UnlinkAccount, ConsumeVerification, Storage!StorageNext
<1>10. CASE Lapse
  BY <1>10, LapseAllowed DEF Storage!StorageNext
<1> QED
  BY <1>1, <1>2, <1>3, <1>4, <1>5, <1>6, <1>7, <1>8, <1>9, <1>10 DEF AuthNext

(* Where there is nothing to deviate: the memory adapter whose emails are  *)
(* not shared, and SQLite.                                                 *)
LEMMA NoneDeviates ==
  ASSUME Backends \subseteq {"memory", "sqlite"}, "memory" \in Backends => ~Shares,
         AuthInv, AloneInv
  PROVE  ~Deviates
<1>1. backend \in Backends /\ (Shares \/ clashed = {})
  BY DEF AuthInv, AuthTypeOK, AloneInv, ClashesAreShared
<1>2. backend \in {"memory", "sqlite"} /\ (backend = "memory" => clashed = {})
  BY <1>1
<1> QED
  BY <1>2 DEF Deviates, pgxLookupDeviates, postgresLookupDeviates, mysqlUpdateDeviates,
              memoryIndexDeviates, sqlDeleteDeviates, ReadCommitted, Memory

LEMMA AloneStart == AuthInit => AloneInv
<1> SUFFICES ASSUME AuthInit PROVE AloneInv
  OBVIOUS
<1>1. \A c \in Callers : tx[c].at = "idle"
  BY NoTxIs DEF AuthInit
<1> QED
  BY <1>1 DEF AuthInit, AloneInv, SQLiteAlone, ClashesAreShared, UnderWay

(* DeviatesOnlySo for every set of users, emails, keys and callers: every  *)
(* answer of every adapter on every database, and every change of what is  *)
(* stored, is what storage.go promises or one of the five cases that       *)
(* Deviates lists; a DeleteUser that reports success has taken at least    *)
(* the rows its user had when it was called.                               *)
THEOREM AdaptersDeviateOnlySo == AuthSpec => DeviatesOnlySo
<1>1. AuthInit => Storage!StorageInit
  BY DEF AuthInit, Storage!StorageInit
<1>2. AuthInit => AuthInv /\ AloneInv
  BY AuthStart, AloneStart
<1>3. AuthInv /\ AloneInv /\ [AuthNext]_authVars => AuthInv' /\ AloneInv'
  BY AuthStep, AloneStep
<1>4. AuthInv /\ AloneInv /\ [AuthNext]_authVars
        => [Storage!StorageNext \/ Deviates]_(Storage!storageVars)
  BY StepAllowed
<1> QED
  BY <1>1, <1>2, <1>3, <1>4, PTL DEF AuthSpec, DeviatesOnlySo

(* KeepsPromise for every set of users, emails, keys and callers: the      *)
(* memory adapter, when no two users are given one email, and the SQL      *)
(* adapter on SQLite implement storage.go to the letter, the five          *)
(* statements of a DeleteUser and whoever runs between them included.      *)
THEOREM AdaptersKeepPromise ==
  ASSUME Backends \subseteq {"memory", "sqlite"}, "memory" \in Backends => ~Shares
  PROVE  AuthSpec => KeepsPromise
<1>1. AuthInit => Storage!StorageInit
  BY DEF AuthInit, Storage!StorageInit
<1>2. AuthInit => AuthInv /\ AloneInv
  BY AuthStart, AloneStart
<1>3. AuthInv /\ AloneInv /\ [AuthNext]_authVars => AuthInv' /\ AloneInv'
  BY AuthStep, AloneStep
<1>4. AuthInv /\ AloneInv /\ [AuthNext]_authVars => [Storage!StorageNext]_(Storage!storageVars)
  BY StepAllowed, NoneDeviates
<1> QED
  BY <1>1, <1>2, <1>3, <1>4, PTL DEF AuthSpec, KeepsPromise, Storage!StorageSpec
=============================================================================
