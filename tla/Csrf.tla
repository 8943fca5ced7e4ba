-------------------------------- MODULE Csrf --------------------------------
(***************************************************************************)
(* The double-submit tokens of one browser with several tabs: the page     *)
(* holds a token, the cookie holds a token, and a form is accepted when    *)
(* the two agree.  The server's own check (packages/sveltego/server/       *)
(* csrf.go) mints a token when a request carries none and otherwise keeps  *)
(* the browser's; the auth router's middleware (packages/auth/csrf.go)     *)
(* mints one on every GET.  A request works on the cookie it was sent      *)
(* with; the token it sets reaches the browser with its response.          *)
(*                                                                         *)
(* Tokens are numbered as they are minted; 0 is no token.                  *)
(***************************************************************************)
EXTENDS Integers

CONSTANTS
  Tabs,       \* the browser's tabs: each shows one page and has one request
  MaxTokens   \* bound: how many tokens are minted

ASSUME TokensAssumption == MaxTokens \in Nat

VARIABLES
  router,     \* which of the two checks guards the route
  trusted,    \* whether the auth router checks the origin (TrustedOrigins not empty)
  cookie,     \* the token in the browser's cookie
  minted,     \* how many tokens there are
  page,       \* each tab: the token in its page, and whether it ought to be good
  load        \* each tab: the request under way and the answer on its way back

csrfVars == <<router, trusted, cookie, minted, page, load>>

NoPage == [token |-> 0, settled |-> FALSE]
Idle == [is |-> "idle", sent |-> 0, set |-> 0, token |-> 0, ok |-> FALSE, settled |-> FALSE]
Flying == {t \in Tabs : load[t].is # "idle"}

(* CSRFTokenEqual: an empty token equals nothing. *)
CSRFTokenEqual(held, submitted) == held # 0 /\ held = submitted

(* Mutant: a new token whenever there is one to be had. *)
applyCSRFGetRotates(held, fresh) ==
  LET next == IF fresh # 0 THEN fresh ELSE minted + 1
  IN  [token |-> next, set |-> next, ok |-> TRUE]

(* applyCSRF on a GET: the token the page gets, and the one it sets.  No   *)
(* cookie: a fresh one, unless the random source fails.                    *)
applyCSRFGet(held, fresh) ==
  IF held = 0 THEN [token |-> fresh, set |-> fresh, ok |-> TRUE]
  ELSE [token |-> held, set |-> 0, ok |-> TRUE]

(* applyCSRF on a POST: 403, or on to the action, whose re-render embeds   *)
(* the same token.                                                         *)
applyCSRFPost(held, submitted) ==
  [token |-> IF CSRFTokenEqual(held, submitted) THEN held ELSE 0, set |-> 0,
   ok |-> CSRFTokenEqual(held, submitted)]

(* Issue on a GET of the auth router: always a new token; without one the  *)
(* answer is 500.                                                          *)
Issue(fresh) == [token |-> fresh, set |-> fresh, ok |-> fresh # 0]

(* checkOrigin: with an allowlist, a request without Origin and Referer is *)
(* refused; one of the browser's own pages that has either is not.         *)
checkOrigin(origin) == ~trusted \/ origin = "own"

(* Verify on a state-changing request of the auth router. *)
Verify(held, submitted, origin) ==
  LET ok == checkOrigin(origin) /\ held # 0 /\ submitted # 0 /\ held = submitted
  IN  [token |-> IF ok THEN held ELSE 0, set |-> 0, ok |-> ok]

(* Middleware. *)
authGet(held, fresh) == Issue(fresh)
authPost(held, submitted, origin) == Verify(held, submitted, origin)
-----------------------------------------------------------------------------
CsrfInit ==
  /\ router \in {"server", "auth"} /\ trusted \in BOOLEAN
  /\ cookie = 0 /\ minted = 0
  /\ page = [t \in Tabs |-> NoPage]
  /\ load = [t \in Tabs |-> Idle]

Mints(held) == router = "auth" \/ held = 0

(* A GET is sent and served.  One that mints a token unsettles the other   *)
(* requests under way and, when it replaces a token, the pages that hold   *)
(* it.                                                                     *)
Get(t) ==
  /\ load[t].is = "idle"
  /\ \E fresh \in {0} \cup (IF minted < MaxTokens /\ Mints(cookie) THEN {minted + 1} ELSE {}) :
       LET a == IF router = "server" THEN applyCSRFGet(cookie, fresh) ELSE authGet(cookie, fresh)
           minting == Mints(cookie)
       IN  /\ minted' = IF fresh # 0 THEN fresh ELSE minted
           /\ load' = [q \in Tabs |->
                IF q = t
                  THEN [is |-> "get", sent |-> cookie, set |-> a.set, token |-> a.token, ok |-> a.ok,
                        settled |-> /\ a.ok /\ a.token # 0
                                    /\ \A o \in Flying : load[o].is # "get" \/ ~Mints(load[o].sent)]
                  ELSE [load[q] EXCEPT !.settled = @ /\ ~minting]]
           /\ page' = [q \in Tabs |-> [page[q] EXCEPT !.settled = @ /\ ~minting]]
  /\ UNCHANGED <<router, trusted, cookie>>

(* The form of a tab's page is submitted, and checked. *)
Post(t) ==
  /\ load[t].is = "idle" /\ page[t].token # 0
  /\ \E origin \in {"own", "none"} :
       LET a == IF router = "server" THEN applyCSRFPost(cookie, page[t].token)
                ELSE authPost(cookie, page[t].token, origin)
       IN  load' = [load EXCEPT ![t] =
             [is |-> "post", sent |-> cookie, set |-> a.set, token |-> a.token, ok |-> a.ok,
              settled |-> page[t].settled /\ a.ok]]
  /\ UNCHANGED <<router, trusted, cookie, minted, page>>

(* The answer arrives: Cookies.Apply's Set-Cookie, and the new page. *)
Arrive(t) ==
  /\ load[t].is # "idle"
  /\ cookie' = IF load[t].set # 0 THEN load[t].set ELSE cookie
  /\ page' = [page EXCEPT ![t] = [token |-> load[t].token, settled |-> load[t].settled]]
  /\ load' = [load EXCEPT ![t] = Idle]
  /\ UNCHANGED <<router, trusted, minted>>

(* The cookie goes: csrfTokenMaxAge after it was set, for the server's,    *)
(* however the browser has been used since; with the browser's session for *)
(* the other.                                                              *)
Expire ==
  /\ cookie # 0
  /\ cookie' = 0
  /\ page' = [t \in Tabs |-> [page[t] EXCEPT !.settled = FALSE]]
  /\ load' = [t \in Tabs |-> [load[t] EXCEPT !.settled = FALSE]]
  /\ UNCHANGED <<router, trusted, minted>>

CsrfNext == (\E t \in Tabs : Get(t) \/ Post(t) \/ Arrive(t)) \/ Expire

CsrfSpec == CsrfInit /\ [][CsrfNext]_csrfVars
-----------------------------------------------------------------------------
(* A page that came while no other request was minting a token carries the *)
(* token of the browser's cookie for as long as the cookie lives, and, in  *)
(* the auth router, no other page is loaded: its form is accepted,         *)
(* whatever the other tabs load and submit and in whatever order their     *)
(* answers arrive (applyCSRF, Middleware).                                 *)
FormAccepted ==
  \A t \in Tabs : page[t].settled =>
    IF router = "server" THEN applyCSRFPost(cookie, page[t].token).ok
    ELSE authPost(cookie, page[t].token, "own").ok

CsrfTypeOK ==
  /\ router \in {"server", "auth"} /\ cookie \in Nat /\ minted \in Nat
  /\ page \in [Tabs -> [token : Nat, settled : BOOLEAN]]
  /\ load \in [Tabs -> [is : {"idle", "get", "post"}, sent : Nat, set : Nat, token : Nat,
                       ok : BOOLEAN, settled : BOOLEAN]]

(* What FormAccepted rests on: only a GET that was to mint sets a token;   *)
(* while a settled page or a settled request is there, no other request    *)
(* is about to set one, and the token it carries is, or will be, that of   *)
(* the cookie.                                                             *)
CsrfInv ==
  /\ \A t \in Tabs : load[t].set # 0 => load[t].is = "get" /\ Mints(load[t].sent)
  /\ \A t \in Tabs : page[t].settled =>
       /\ page[t].token # 0 /\ page[t].token = cookie
       /\ \A o \in Tabs : load[o].set = 0
  /\ \A t \in Tabs : load[t].settled =>
       /\ load[t].token # 0
       /\ load[t].token = IF load[t].set # 0 THEN load[t].set ELSE cookie
       /\ \A o \in Tabs \ {t} : load[o].set = 0
=============================================================================
