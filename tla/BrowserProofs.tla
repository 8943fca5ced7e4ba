---------------------------- MODULE BrowserProofs ----------------------------
(***************************************************************************)
(* Proofs about what one browser carries for the server: the form tokens   *)
(* of its tabs (Csrf.tla) and its session cookies (CookieSession.tla).     *)
(***************************************************************************)
EXTENDS CookieSession, Csrf, WellFoundedInduction, TLAPS

-----------------------------------------------------------------------------
(* Form tokens. *)

(* A request and its answer: what a GET and a POST leave in flight. *)
Loads == [is : {"idle", "get", "post"}, sent : Nat, set : Nat, token : Nat,
          ok : BOOLEAN, settled : BOOLEAN]
Reply == [token : Nat, set : Nat, ok : BOOLEAN]
Shown == [token : Nat, settled : BOOLEAN]

(* One that mints embeds the token it sets, any other that of the cookie. *)
GetAnswer(a) ==
  /\ a \in Reply
  /\ Mints(cookie) => a.set = a.token
  /\ ~Mints(cookie) => a.set = 0 /\ a.token = cookie

PostAnswer(a) ==
  /\ a \in Reply /\ a.set = 0
  /\ a.ok => a.token = cookie /\ cookie # 0

LEMMA ServerGet == ASSUME CsrfTypeOK, router = "server", NEW fresh \in Nat
                   PROVE GetAnswer(applyCSRFGet(cookie, fresh))
  BY DEF CsrfTypeOK, GetAnswer, Reply, applyCSRFGet, Mints

LEMMA AuthGet == ASSUME CsrfTypeOK, router # "server", NEW fresh \in Nat
                 PROVE GetAnswer(authGet(cookie, fresh))
  BY DEF CsrfTypeOK, GetAnswer, Reply, authGet, Issue, Mints

LEMMA ServerPost == ASSUME CsrfTypeOK, NEW n \in Nat
                    PROVE PostAnswer(applyCSRFPost(cookie, n))
  BY DEF CsrfTypeOK, PostAnswer, Reply, applyCSRFPost, CSRFTokenEqual

LEMMA AuthPost == ASSUME CsrfTypeOK, NEW n \in Nat, NEW origin
                  PROVE PostAnswer(authPost(cookie, n, origin))
<1> DEFINE fits == checkOrigin(origin) /\ cookie # 0 /\ n # 0 /\ cookie = n
<1>1. authPost(cookie, n, origin) = [token |-> IF fits THEN cookie ELSE 0, set |-> 0, ok |-> fits]
  BY DEF authPost, Verify
<1>2. fits \in BOOLEAN /\ (fits => cookie # 0)
  OBVIOUS
<1> HIDE DEF fits
<1> QED
  BY <1>1, <1>2 DEF CsrfTypeOK, PostAnswer, Reply

(* What a GET does, with its answer and whether it settles. *)
LEMMA GetShape ==
  ASSUME CsrfTypeOK, NEW t \in Tabs, Get(t)
  PROVE  \E a \in Reply, settles \in BOOLEAN :
           /\ GetAnswer(a)
           /\ settles => a.token # 0 /\ \A o \in Flying : load[o].is # "get" \/ ~Mints(load[o].sent)
           /\ load' = [q \in Tabs |->
                IF q = t THEN [is |-> "get", sent |-> cookie, set |-> a.set, token |-> a.token,
                               ok |-> a.ok, settled |-> settles]
                ELSE [load[q] EXCEPT !.settled = @ /\ ~Mints(cookie)]]
           /\ page' = [q \in Tabs |-> [page[q] EXCEPT !.settled = @ /\ ~Mints(cookie)]]
           /\ minted' \in Nat /\ UNCHANGED <<router, trusted, cookie>>
<1> DEFINE answer(f) == IF router = "server" THEN applyCSRFGet(cookie, f) ELSE authGet(cookie, f)
           settles(f) == /\ answer(f).ok /\ answer(f).token # 0
                         /\ \A o \in Flying : load[o].is # "get" \/ ~Mints(load[o].sent)
<1> DEFINE Fresh == {0} \cup (IF minted < MaxTokens /\ Mints(cookie) THEN {minted + 1} ELSE {})
<1>0. Fresh \subseteq Nat
  BY TokensAssumption DEF CsrfTypeOK
<1>1. PICK fresh \in Fresh :
        /\ minted' = IF fresh # 0 THEN fresh ELSE minted
        /\ load' = [q \in Tabs |->
             IF q = t THEN [is |-> "get", sent |-> cookie, set |-> answer(fresh).set,
                            token |-> answer(fresh).token, ok |-> answer(fresh).ok,
                            settled |-> settles(fresh)]
             ELSE [load[q] EXCEPT !.settled = @ /\ ~Mints(cookie)]]
        /\ page' = [q \in Tabs |-> [page[q] EXCEPT !.settled = @ /\ ~Mints(cookie)]]
  BY Zenon DEF Get
<1>2. GetAnswer(answer(fresh))
  BY <1>0, ServerGet, AuthGet
<1>3. settles(fresh) \in BOOLEAN
  OBVIOUS
<1>4. settles(fresh) => /\ answer(fresh).token # 0
                        /\ \A o \in Flying : load[o].is # "get" \/ ~Mints(load[o].sent)
  OBVIOUS
<1>5. minted' \in Nat /\ UNCHANGED <<router, trusted, cookie>>
  BY <1>0, <1>1 DEF Get, CsrfTypeOK
<1>6. answer(fresh) \in Reply
  BY <1>2 DEF GetAnswer
<1> HIDE DEF answer, settles
<1> QED
  BY <1>1, <1>2, <1>3, <1>4, <1>5, <1>6

LEMMA PostShape ==
  ASSUME CsrfTypeOK, NEW t \in Tabs, Post(t)
  PROVE  \E a \in Reply, settles \in BOOLEAN :
           /\ PostAnswer(a)
           /\ settles => a.ok /\ page[t].settled
           /\ load' = [load EXCEPT ![t] =
                [is |-> "post", sent |-> cookie, set |-> a.set, token |-> a.token, ok |-> a.ok,
                 settled |-> settles]]
           /\ UNCHANGED <<router, trusted, cookie, minted, page>>
<1> DEFINE answer(o) == IF router = "server" THEN applyCSRFPost(cookie, page[t].token)
                        ELSE authPost(cookie, page[t].token, o)
           settles(o) == page[t].settled /\ answer(o).ok
<1>1. PICK origin : load' = [load EXCEPT ![t] =
        [is |-> "post", sent |-> cookie, set |-> answer(origin).set, token |-> answer(origin).token,
         ok |-> answer(origin).ok, settled |-> settles(origin)]]
  BY DEF Post
<1>2. PostAnswer(answer(origin))
  <2>1. page[t].token \in Nat
    BY DEF CsrfTypeOK
  <2> QED
    BY <2>1, ServerPost, AuthPost
<1>3. settles(origin) \in BOOLEAN /\ (settles(origin) => answer(origin).ok /\ page[t].settled)
  OBVIOUS
<1>4. UNCHANGED <<router, trusted, cookie, minted, page>>
  BY DEF Post
<1>5. answer(origin) \in Reply
  BY <1>2 DEF PostAnswer
<1> HIDE DEF answer, settles
<1> QED
  BY <1>1, <1>2, <1>3, <1>4, <1>5

LEMMA Unsettled ==
  ASSUME NEW l \in Loads, NEW p \in Shown, NEW b \in BOOLEAN
  PROVE  /\ [l EXCEPT !.settled = @ /\ b] \in Loads
         /\ [l EXCEPT !.settled = @ /\ b].settled => l.settled /\ b
         /\ [p EXCEPT !.settled = @ /\ b] \in Shown
         /\ [p EXCEPT !.settled = @ /\ b].settled => p.settled /\ b
  BY DEF Loads, Shown

LEMMA CsrfTypeStep ==
  ASSUME CsrfTypeOK, [CsrfNext]_csrfVars PROVE CsrfTypeOK'
<1> USE DEF CsrfTypeOK
<1>1. ASSUME NEW t \in Tabs, Get(t) PROVE CsrfTypeOK'
  <2>1. PICK a \in Reply, settles \in BOOLEAN :
           /\ GetAnswer(a)
           /\ load' = [q \in Tabs |->
                IF q = t THEN [is |-> "get", sent |-> cookie, set |-> a.set, token |-> a.token,
                               ok |-> a.ok, settled |-> settles]
                ELSE [load[q] EXCEPT !.settled = @ /\ ~Mints(cookie)]]
           /\ page' = [q \in Tabs |-> [page[q] EXCEPT !.settled = @ /\ ~Mints(cookie)]]
           /\ minted' \in Nat /\ UNCHANGED <<router, trusted, cookie>>
    BY <1>1, GetShape, ZenonT(60)
  <2>2. [is |-> "get", sent |-> cookie, set |-> a.set, token |-> a.token,
         ok |-> a.ok, settled |-> settles] \in Loads
    BY <2>1 DEF GetAnswer, Loads, Reply
  <2>3. (~Mints(cookie)) \in BOOLEAN
    BY DEF Mints
  <2>4. \A q \in Tabs : /\ [load[q] EXCEPT !.settled = @ /\ ~Mints(cookie)] \in Loads
                        /\ [page[q] EXCEPT !.settled = @ /\ ~Mints(cookie)] \in Shown
    BY <2>3, Unsettled, ZenonT(60) DEF Loads, Shown
  <2>5. load' \in [Tabs -> Loads] /\ page' \in [Tabs -> Shown]
    BY <2>1, <2>2, <2>4
  <2> QED
    BY <2>1, <2>5 DEF Loads, Shown
<1>2. ASSUME NEW t \in Tabs, Post(t) PROVE CsrfTypeOK'
  <2>1. PICK a \in Reply, settles \in BOOLEAN :
           /\ PostAnswer(a)
           /\ load' = [load EXCEPT ![t] =
                [is |-> "post", sent |-> cookie, set |-> a.set, token |-> a.token, ok |-> a.ok,
                 settled |-> settles]]
           /\ UNCHANGED <<router, trusted, cookie, minted, page>>
    BY <1>2, PostShape
  <2>2. [is |-> "post", sent |-> cookie, set |-> a.set, token |-> a.token,
         ok |-> a.ok, settled |-> settles] \in Loads
    BY <2>1 DEF PostAnswer, Loads, Reply
  <2> QED
    BY <2>1, <2>2 DEF Loads
<1>3. ASSUME NEW t \in Tabs, Arrive(t) PROVE CsrfTypeOK'
  BY <1>3 DEF Arrive, Idle
<1>4. CASE Expire
  BY <1>4 DEF Expire
<1>5. CASE UNCHANGED csrfVars
  BY <1>5 DEF csrfVars
<1> QED
  BY <1>1, <1>2, <1>3, <1>4, <1>5 DEF CsrfNext

LEMMA GetStep ==
  ASSUME CsrfTypeOK, CsrfInv, NEW t \in Tabs, Get(t) PROVE CsrfInv'
<1>1. PICK a \in Reply, settles \in BOOLEAN :
         /\ GetAnswer(a)
         /\ settles => a.token # 0 /\ \A o \in Flying : load[o].is # "get" \/ ~Mints(load[o].sent)
         /\ load' = [q \in Tabs |->
              IF q = t THEN [is |-> "get", sent |-> cookie, set |-> a.set, token |-> a.token,
                             ok |-> a.ok, settled |-> settles]
              ELSE [load[q] EXCEPT !.settled = @ /\ ~Mints(cookie)]]
         /\ page' = [q \in Tabs |-> [page[q] EXCEPT !.settled = @ /\ ~Mints(cookie)]]
         /\ minted' \in Nat /\ UNCHANGED <<router, trusted, cookie>>
  BY GetShape
<1>2. \A q \in Tabs : load[q] \in Loads /\ page[q] \in Shown
  BY DEF CsrfTypeOK, Loads, Shown
<1>3. (~Mints(cookie)) \in BOOLEAN
  BY DEF Mints
<1>4. \A q \in Tabs \ {t} : /\ load'[q].is = load[q].is /\ load'[q].sent = load[q].sent
                            /\ load'[q].set = load[q].set /\ load'[q].token = load[q].token
                            /\ load'[q].settled => load[q].settled /\ ~Mints(cookie)
  BY <1>1, <1>2, <1>3, Unsettled, ZenonT(60) DEF Loads
<1>5. \A q \in Tabs : /\ page'[q].token = page[q].token
                      /\ page'[q].settled => page[q].settled /\ ~Mints(cookie)
  BY <1>1, <1>2, <1>3, Unsettled DEF Shown
<1>6. /\ load'[t].is = "get" /\ load'[t].sent = cookie /\ load'[t].set = a.set
      /\ load'[t].token = a.token /\ (load'[t].settled => settles)
  BY <1>1
<1>7. \A q \in Tabs : load[q].set # 0 => q \in Flying
  BY DEF CsrfInv, Flying
<1>8. settles => \A q \in Tabs : load[q].set = 0
  BY <1>1, <1>7 DEF CsrfInv
<1>9. router' = router
  BY <1>1
<1>10. /\ Mints(cookie) => a.set = a.token
       /\ ~Mints(cookie) => a.set = 0 /\ a.token = cookie
       /\ cookie' = cookie
  BY <1>1 DEF GetAnswer
<1>11. \A q \in Tabs : load'[q].set # 0 =>
         load'[q].is = "get" /\ (router' = "auth" \/ load'[q].sent = 0)
  BY <1>4, <1>6, <1>9, <1>10 DEF CsrfInv, Mints
<1>12. ASSUME NEW q \in Tabs, page'[q].settled
       PROVE  /\ page'[q].token # 0 /\ page'[q].token = cookie'
              /\ \A o \in Tabs : load'[o].set = 0
  BY <1>12, <1>4, <1>5, <1>6, <1>10 DEF CsrfInv
<1>13. ASSUME NEW q \in Tabs, load'[q].settled
       PROVE  /\ load'[q].token # 0
              /\ load'[q].token = IF load'[q].set # 0 THEN load'[q].set ELSE cookie'
              /\ \A o \in Tabs \ {q} : load'[o].set = 0
  <2>1. CASE q = t
    BY <2>1, <1>13, <1>1, <1>4, <1>6, <1>8, <1>10, ZenonT(60)
  <2>2. CASE q # t
    <3>1. load[q].settled /\ ~Mints(cookie)
      BY <2>2, <1>13, <1>4
    <3>2. load'[t].set = 0
      BY <3>1, <1>6, <1>10
    <3>3. /\ load[q].token # 0
          /\ load[q].token = IF load[q].set # 0 THEN load[q].set ELSE cookie
          /\ \A o \in Tabs \ {q} : load[o].set = 0
      BY <3>1 DEF CsrfInv
    <3>4. \A o \in Tabs \ {q} : load'[o].set = 0
      BY <3>2, <3>3, <1>4
    <3> QED
      BY <2>2, <3>3, <3>4, <1>4, <1>10
  <2> QED
    BY <2>1, <2>2
<1> QED
  BY <1>11, <1>12, <1>13 DEF CsrfInv, Mints

LEMMA PostStep == ASSUME CsrfTypeOK, CsrfInv, NEW t \in Tabs, Post(t) PROVE CsrfInv'
<1>1. PICK a \in Reply, settles \in BOOLEAN :
         /\ PostAnswer(a)
         /\ settles => a.ok /\ page[t].settled
         /\ load' = [load EXCEPT ![t] =
              [is |-> "post", sent |-> cookie, set |-> a.set, token |-> a.token, ok |-> a.ok,
               settled |-> settles]]
         /\ UNCHANGED <<router, trusted, cookie, minted, page>>
  BY PostShape
<1>2. \A q \in Tabs \ {t} : load'[q] = load[q]
  BY <1>1 DEF CsrfTypeOK
<1>3. load'[t].set = 0 /\ load'[t].token = a.token /\ (load'[t].settled => settles)
  BY <1>1 DEF CsrfTypeOK, PostAnswer, Reply
<1>4. settles => a.token # 0 /\ a.token = cookie /\ \A o \in Tabs : load[o].set = 0
  BY <1>1 DEF PostAnswer, CsrfInv
<1> QED
  BY <1>1, <1>2, <1>3, <1>4 DEF CsrfInv, Mints

LEMMA ArriveStep == ASSUME CsrfTypeOK, CsrfInv, NEW t \in Tabs, Arrive(t) PROVE CsrfInv'
  BY DEF Arrive, CsrfTypeOK, CsrfInv, Idle, Mints

LEMMA ExpireStep == ASSUME CsrfTypeOK, CsrfInv, Expire PROVE CsrfInv'
  BY ZenonT(60) DEF Expire, CsrfTypeOK, CsrfInv, Mints

(* The form of a page that came while no token was being minted is         *)
(* accepted, for any number of tabs and tokens and any order of their      *)
(* requests and answers (applyCSRF of server/csrf.go, Middleware of        *)
(* auth/csrf.go).                                                          *)
THEOREM FormsAccepted == CsrfSpec => []FormAccepted
<1>1. CsrfInit => CsrfTypeOK /\ CsrfInv
  BY DEF CsrfInit, CsrfTypeOK, CsrfInv, NoPage, Idle
<1>2. CsrfTypeOK /\ CsrfInv /\ [CsrfNext]_csrfVars => CsrfTypeOK' /\ CsrfInv'
  <2> SUFFICES ASSUME CsrfTypeOK, CsrfInv, [CsrfNext]_csrfVars PROVE CsrfInv'
    BY CsrfTypeStep
  <2>1. CASE UNCHANGED csrfVars
    BY <2>1 DEF csrfVars, CsrfInv, Mints
  <2> QED
    BY <2>1, GetStep, PostStep, ArriveStep, ExpireStep DEF CsrfNext
<1>3. CsrfTypeOK /\ CsrfInv => FormAccepted
  BY DEF CsrfTypeOK, CsrfInv, FormAccepted, applyCSRFPost, CSRFTokenEqual, authPost, Verify,
         checkOrigin
<1> QED
  BY <1>1, <1>2, <1>3, PTL DEF CsrfSpec
-----------------------------------------------------------------------------
(* Session cookies.  First the operators: payloads, names, and what the    *)
(* writes of a response leave in it.                                       *)

LEMMA ZeroIsPayload == Zero \in Payload
<1> DEFINE Smaller == OpToRel(<, Nat)
<1>1. \E n \in Sizes : \A m \in Sizes : ~(<<m, n>> \in Smaller)
  <2>1. Sizes \subseteq Nat /\ Sizes # {}
    BY SessionAssumption
  <2>2. IsWellFoundedOn(Smaller, Nat)
    BY NatLessThanWellFounded
  <2> HIDE DEF Smaller
  <2> QED
    BY <2>1, <2>2, WFMin
<1>2. \A m, n \in Sizes : <<m, n>> \in Smaller <=> m < n
  BY SessionAssumption DEF OpToRel
<1>3. \E n \in Sizes : \A m \in Sizes : n <= m
  <2>1. \A m, n \in Sizes : ~(m < n) => n <= m
    BY SessionAssumption
  <2> HIDE DEF Smaller
  <2> QED
    BY <1>1, <1>2, <2>1
<1>4. (CHOOSE n \in Sizes : \A m \in Sizes : n <= m) \in Sizes
  BY <1>3
<1> QED
  BY <1>4 DEF Zero, Payload

LEMMA SplitPositive == ASSUME NEW len \in Sizes PROVE splitChunks(len) \in Nat \ {0}
<1>1. len \in Nat \ {0} /\ maxChunkBytes \in Nat \ {0}
  BY SessionAssumption
<1>2. CASE len <= maxChunkBytes
  BY <1>2 DEF splitChunks
<1>3. CASE ~(len <= maxChunkBytes)
  <2>1. \A a, m \in Nat : m > 0 /\ a >= m => a \div m \in Nat /\ a \div m # 0
    OBVIOUS
  <2>2. len + maxChunkBytes - 1 \in Nat /\ len + maxChunkBytes - 1 >= maxChunkBytes
    BY <1>1, <1>3
  <2>3. splitChunks(len) = (len + maxChunkBytes - 1) \div maxChunkBytes
    BY <1>3 DEF splitChunks
  <2> QED
    BY <1>1, <2>1, <2>2, <2>3
<1> QED
  BY <1>2, <1>3

LEMMA NameFacts ==
  /\ plainName # metaName
  /\ \A i : chunkName(i) # plainName /\ chunkName(i) # metaName /\ chunkName(i)[2] = i
  /\ \A i, j : chunkName(i) = chunkName(j) => i = j
  /\ plainName \in AllNames /\ metaName \in AllNames /\ \A i \in Nat : chunkName(i) \in AllNames
  BY DEF plainName, metaName, chunkName, AllNames

LEMMA ValueFacts ==
  /\ NoWire \in Wire /\ NoWire.nonce = 0 /\ Gone \in Value
  /\ \A w \in Wire, i \in Nat : [wire |-> w, n |-> i] \in Value
  /\ \A w \in Wire, i \in Nat : w.nonce # 0 => [wire |-> w, n |-> i] # Gone
  /\ \A n \in Nat : n # 0 => [wire |-> NoWire, n |-> n] # Gone
<1>1. NoWire \in Wire /\ NoWire.nonce = 0
  BY ZeroIsPayload DEF NoWire, Wire
<1> QED
  BY <1>1 DEF Gone, Value

LEMMA OverFunction ==
  ASSUME NEW f, NEW V
  PROVE  f \in Over(AllNames, V) <=>
           /\ f = [x \in DOMAIN f |-> f[x]] /\ DOMAIN f \subseteq AllNames
           /\ \A x \in DOMAIN f : f[x] \in V
<1>1. ASSUME f \in Over(AllNames, V)
      PROVE  /\ f = [x \in DOMAIN f |-> f[x]] /\ DOMAIN f \subseteq AllNames
             /\ \A x \in DOMAIN f : f[x] \in V
  <2>1. PICK D \in SUBSET AllNames : f \in [D -> V]
    BY <1>1 DEF Over
  <2> QED
    BY <2>1
<1>2. ASSUME f = [x \in DOMAIN f |-> f[x]], DOMAIN f \subseteq AllNames, \A x \in DOMAIN f : f[x] \in V
      PROVE  f \in Over(AllNames, V)
  <2>1. f \in [DOMAIN f -> V]
    BY <1>2
  <2> QED
    BY <1>2, <2>1 DEF Over
<1> QED
  BY <1>1, <1>2

LEMMA EmptyCookies == DOMAIN Empty = {} /\ \A V : Empty \in Over(AllNames, V)
<1>1. DOMAIN Empty = {}
  BY DEF Empty
<1>2. Empty = [x \in DOMAIN Empty |-> Empty[x]]
  BY DEF Empty
<1> QED
  BY <1>1, <1>2, OverFunction

LEMMA CookiesAre ==
  ASSUME NEW c \in Cookies
  PROVE  /\ c = [x \in DOMAIN c |-> c[x]] /\ DOMAIN c \subseteq AllNames
         /\ \A x \in DOMAIN c : c[x] \in Value
<1>1. c \in Over(AllNames, Value)
  BY DEF Cookies
<1> QED
  BY <1>1, OverFunction

LEMMA HeadersTyped ==
  ASSUME NEW out \in Cookies, NEW name \in AllNames, NEW value \in Value, NEW names \in SUBSET AllNames
  PROVE  header(out, name, value) \in Cookies /\ deleteAll(out, names) \in Cookies
<1>1. DOMAIN out \subseteq AllNames /\ \A x \in DOMAIN out : out[x] \in Value
  BY CookiesAre
<1>2. header(out, name, value) \in Cookies
  <2>1. header(out, name, value) \in [DOMAIN out \cup {name} -> Value]
    BY <1>1 DEF header
  <2> QED
    BY <1>1, <2>1 DEF Cookies, Over
<1>3. deleteAll(out, names) \in Cookies
  <2>1. deleteAll(out, names) \in [DOMAIN out \cup names -> Value]
    BY <1>1, ValueFacts DEF deleteAll, headers
  <2> QED
    BY <1>1, <2>1 DEF Cookies, Over
<1> QED
  BY <1>2, <1>3

LEMMA PrevCount ==
  ASSUME NEW cookies \in Cookies
  PROVE  /\ readPrevChunkCount(cookies) \in Nat
         /\ \A i \in 0..(readPrevChunkCount(cookies) - 1) : chunkName(i) \in AllNames
<1>1. readPrevChunkCount(cookies) \in Nat
  <2>1. \A x \in DOMAIN cookies : cookies[x].n \in Nat
    BY CookiesAre DEF Value
  <2> QED
    BY <2>1 DEF readPrevChunkCount
<1> QED
  BY <1>1, NameFacts

(* What a write with the plain cookie, one with chunks and a deletion      *)
(* leave in the response.                                                  *)
LEMMA PlainWrite ==
  ASSUME NEW out \in Cookies, NEW cookies \in Cookies, NEW w \in Wire
  PROVE  LET o == flushPlain(out, cookies, w)
             prev == readPrevChunkCount(cookies)
         IN  /\ o \in Cookies
             /\ plainName \in DOMAIN o /\ o[plainName] = [wire |-> w, n |-> 0]
             /\ prev > 0 => metaName \in DOMAIN o /\ o[metaName] = Gone
             /\ prev = 0 => \A x : x # plainName =>
                  (x \in DOMAIN o <=> x \in DOMAIN out) /\ (x \in DOMAIN out => o[x] = out[x])
<1> DEFINE prev == readPrevChunkCount(cookies)
           old == {chunkName(i) : i \in 0..(prev - 1)} \cup (IF prev > 0 THEN {metaName} ELSE {})
           v == [wire |-> w, n |-> 0]
           d == deleteAll(out, old)
           o == header(d, plainName, v)
<1>1. prev \in Nat /\ old \in SUBSET AllNames
  BY PrevCount, NameFacts
<1>2. v \in Value
  BY ValueFacts
<1>3. d \in Cookies
  BY <1>1, <1>2, NameFacts, HeadersTyped
<1>4. o \in Cookies
  BY <1>2, <1>3, NameFacts, HeadersTyped
<1>5. flushPlain(out, cookies, w) = o
  BY DEF flushPlain
<1>6. prev > 0 => metaName \in old
  OBVIOUS
<1>7. prev = 0 => old = {}
  BY <1>1
<1> HIDE DEF prev, old, v
<1>8. /\ DOMAIN d = DOMAIN out \cup old
      /\ \A x \in old : d[x] = Gone
      /\ \A x \in DOMAIN out : x \notin old => d[x] = out[x]
  BY DEF deleteAll, headers
<1> HIDE DEF d
<1>9. /\ DOMAIN o = DOMAIN d \cup {plainName}
      /\ o[plainName] = v
      /\ \A x \in DOMAIN d : x # plainName => o[x] = d[x]
  BY DEF header
<1> HIDE DEF o
<1>10. prev > 0 => metaName \in DOMAIN o /\ o[metaName] = Gone
  BY <1>6, <1>8, <1>9, NameFacts
<1>11. prev = 0 => \A x : x # plainName =>
         (x \in DOMAIN o <=> x \in DOMAIN out) /\ (x \in DOMAIN out => o[x] = out[x])
  BY <1>7, <1>8, <1>9
<1> QED
  BY <1>4, <1>5, <1>9, <1>10, <1>11 DEF prev, v

LEMMA DeleteWrite ==
  ASSUME NEW out \in Cookies, NEW cookies \in Cookies
  PROVE  LET o == deleteAllCookies(out, cookies)
             prev == readPrevChunkCount(cookies)
         IN  /\ o \in Cookies
             /\ plainName \in DOMAIN o /\ o[plainName] = Gone
             /\ prev > 0 => metaName \in DOMAIN o /\ o[metaName] = Gone
             /\ prev = 0 => \A x : x # plainName =>
                  (x \in DOMAIN o <=> x \in DOMAIN out) /\ (x \in DOMAIN out => o[x] = out[x])
<1> DEFINE prev == readPrevChunkCount(cookies)
           old == {plainName} \cup (IF prev > 0 THEN {metaName} ELSE {})
                    \cup {chunkName(i) : i \in 0..(prev - 1)}
           o == deleteAll(out, old)
<1>1. prev \in Nat /\ old \in SUBSET AllNames
  BY PrevCount, NameFacts
<1>2. o \in Cookies
  BY <1>1, ValueFacts, NameFacts, HeadersTyped
<1>3. deleteAllCookies(out, cookies) = o
  BY DEF deleteAllCookies
<1>4. plainName \in old /\ (prev > 0 => metaName \in old)
  OBVIOUS
<1>5. prev = 0 => old = {plainName}
  BY <1>1
<1> HIDE DEF prev, old
<1>6. /\ DOMAIN o = DOMAIN out \cup old
      /\ \A x \in old : o[x] = Gone
      /\ \A x \in DOMAIN out : x \notin old => o[x] = out[x]
  BY DEF deleteAll, headers
<1> HIDE DEF o
<1>7. prev = 0 => \A x : x # plainName =>
        (x \in DOMAIN o <=> x \in DOMAIN out) /\ (x \in DOMAIN out => o[x] = out[x])
  BY <1>5, <1>6
<1> QED
  BY <1>2, <1>3, <1>4, <1>6, <1>7 DEF prev

LEMMA ChunksWrite ==
  ASSUME NEW out \in Cookies, NEW cookies \in Cookies, NEW w \in Wire
  PROVE  LET o == flushChunks(out, cookies, w)
             n == splitChunks(w.p.size)
         IN  /\ o \in Cookies
             /\ metaName \in DOMAIN o /\ o[metaName] = [wire |-> NoWire, n |-> n]
             /\ \A i \in 0..(n - 1) : chunkName(i) \in DOMAIN o /\ o[chunkName(i)] = [wire |-> w, n |-> i]
             /\ plainName \in DOMAIN cookies => plainName \in DOMAIN o /\ o[plainName] = Gone
             /\ plainName \notin DOMAIN cookies =>
                  /\ plainName \in DOMAIN o <=> plainName \in DOMAIN out
                  /\ plainName \in DOMAIN out => o[plainName] = out[plainName]
<1> DEFINE n == splitChunks(w.p.size)
           old == (IF plainName \in DOMAIN cookies THEN {plainName} ELSE {})
                  \cup {chunkName(i) : i \in n..(readPrevChunkCount(cookies) - 1)}
           new == {chunkName(i) : i \in 0..(n - 1)}
           m == [wire |-> NoWire, n |-> n]
           d == deleteAll(out, old)
           h == header(d, metaName, m)
           o == [x \in DOMAIN h \cup new |-> IF x \in new THEN [wire |-> w, n |-> x[2]] ELSE h[x]]
<1>1. n \in Nat \ {0} /\ readPrevChunkCount(cookies) \in Nat
  BY SplitPositive, PrevCount DEF Wire, Payload
<1>2. old \in SUBSET AllNames /\ new \in SUBSET AllNames
  BY <1>1, NameFacts
<1>3. m \in Value
  BY <1>1, ValueFacts
<1>4. d \in Cookies
  BY <1>2, <1>3, NameFacts, HeadersTyped
<1>5. h \in Cookies
  BY <1>3, <1>4, NameFacts, HeadersTyped
<1>6. flushChunks(out, cookies, w) = o
  BY DEF flushChunks, headers
<1>7. \A i \in 0..(n - 1) : chunkName(i) \in new
  OBVIOUS
<1>8. \A x \in new : [wire |-> w, n |-> x[2]] \in Value
  <2> SUFFICES ASSUME NEW i \in 0..(n - 1) PROVE [wire |-> w, n |-> chunkName(i)[2]] \in Value
    OBVIOUS
  <2> QED
    BY <1>1, NameFacts, ValueFacts
<1>9. metaName \notin new /\ plainName \notin new
  BY NameFacts
<1>10. /\ plainName \in DOMAIN cookies => plainName \in old
       /\ plainName \notin DOMAIN cookies => plainName \notin old
  BY NameFacts
<1>11. /\ DOMAIN d = DOMAIN out \cup old
       /\ \A x \in old : d[x] = Gone
       /\ \A x \in DOMAIN out : x \notin old => d[x] = out[x]
  BY DEF deleteAll, headers
<1> HIDE DEF n, old, new, m, d
<1>12. /\ DOMAIN h = DOMAIN d \cup {metaName} /\ h[metaName] = m
       /\ \A x \in DOMAIN d : x # metaName => h[x] = d[x]
  BY DEF header
<1>13. DOMAIN h \subseteq AllNames /\ \A x \in DOMAIN h : h[x] \in Value
  BY <1>5, CookiesAre
<1> HIDE DEF h
<1>14. o \in Cookies
  <2>1. o \in [DOMAIN h \cup new -> Value]
    BY <1>8, <1>13
  <2> QED
    BY <1>2, <1>13, <2>1 DEF Cookies, Over
<1>15. /\ DOMAIN o = DOMAIN h \cup new
       /\ \A x \in DOMAIN h : x \notin new => o[x] = h[x]
       /\ \A x \in new : o[x] = [wire |-> w, n |-> x[2]]
  OBVIOUS
<1> HIDE DEF o
<1>16. metaName \in DOMAIN o /\ o[metaName] = m
  BY <1>9, <1>12, <1>15
<1>17. \A i \in 0..(n - 1) : chunkName(i) \in DOMAIN o /\ o[chunkName(i)] = [wire |-> w, n |-> i]
  BY <1>7, <1>15, NameFacts
<1>18. plainName \in DOMAIN cookies => plainName \in DOMAIN o /\ o[plainName] = Gone
  BY <1>9, <1>10, <1>11, <1>12, <1>15, NameFacts
<1>19. plainName \notin DOMAIN cookies =>
         /\ plainName \in DOMAIN o <=> plainName \in DOMAIN out
         /\ plainName \in DOMAIN out => o[plainName] = out[plainName]
  BY <1>9, <1>10, <1>11, <1>12, <1>15, NameFacts
<1> QED
  BY <1>6, <1>14, <1>16, <1>17, <1>18, <1>19 DEF n, m

-----------------------------------------------------------------------------
(* Responses stay whole. *)

LEMMA KeepsWhole ==
  ASSUME NEW out, NEW o, NEW prev \in Nat, OutWhole(out),
         prev > 0 => metaName \in DOMAIN o /\ o[metaName] = Gone,
         prev = 0 => \A x : x # plainName =>
           (x \in DOMAIN o <=> x \in DOMAIN out) /\ (x \in DOMAIN out => o[x] = out[x])
  PROVE  OutWhole(o)
<1>1. CASE prev > 0
  BY <1>1 DEF OutWhole, ChunksWhole
<1>2. CASE prev = 0
  <2>1. /\ metaName \in DOMAIN o <=> metaName \in DOMAIN out
        /\ metaName \in DOMAIN out => o[metaName] = out[metaName]
        /\ \A i : /\ chunkName(i) \in DOMAIN o <=> chunkName(i) \in DOMAIN out
                  /\ chunkName(i) \in DOMAIN out => o[chunkName(i)] = out[chunkName(i)]
    BY <1>2, NameFacts
  <2>2. ASSUME metaName \in DOMAIN o, o[metaName] # Gone
        PROVE  LET w == o[chunkName(0)].wire
               IN  /\ chunkName(0) \in DOMAIN o
                   /\ w.nonce # 0 /\ o[metaName].n = splitChunks(w.p.size)
                   /\ \A i \in 0..(o[metaName].n - 1) :
                        chunkName(i) \in DOMAIN o /\ o[chunkName(i)] = [wire |-> w, n |-> i]
    <3>1. metaName \in DOMAIN out /\ out[metaName] # Gone /\ o[metaName] = out[metaName]
      BY <2>1, <2>2
    <3>2. LET w == out[chunkName(0)].wire
          IN  /\ chunkName(0) \in DOMAIN out
              /\ w.nonce # 0 /\ out[metaName].n = splitChunks(w.p.size)
              /\ \A i \in 0..(out[metaName].n - 1) :
                   chunkName(i) \in DOMAIN out /\ out[chunkName(i)] = [wire |-> w, n |-> i]
      BY <3>1, Zenon DEF OutWhole, ChunksWhole
    <3>3. o[chunkName(0)] = out[chunkName(0)] /\ chunkName(0) \in DOMAIN o
      BY <2>1, <3>2, Zenon
    <3>4. \A i \in 0..(out[metaName].n - 1) :
            chunkName(i) \in DOMAIN o /\ o[chunkName(i)] = out[chunkName(i)]
      BY <2>1, <3>2, Zenon
    <3> QED
      BY <3>1, <3>2, <3>3, <3>4, Zenon
  <2>3. ChunksWhole(o)
    BY <2>2, Zenon DEF ChunksWhole
  <2>4. metaName \in DOMAIN out \/ \A i \in Nat : chunkName(i) \notin DOMAIN out
    BY Zenon DEF OutWhole
  <2>5. metaName \in DOMAIN o \/ \A i \in Nat : chunkName(i) \notin DOMAIN o
    BY <2>1, <2>4, Zenon
  <2> QED
    BY <2>3, <2>5, Zenon DEF OutWhole
<1> QED
  BY <1>1, <1>2

LEMMA FlushWhole ==
  ASSUME NEW out \in Cookies, NEW cookies \in Cookies, NEW w \in Wire, w.nonce # 0, OutWhole(out)
  PROVE  flush(out, cookies, w) \in Cookies /\ OutWhole(flush(out, cookies, w))
<1>1. CASE splitChunks(w.p.size) = 1
  <2>1. flush(out, cookies, w) = flushPlain(out, cookies, w)
    BY <1>1 DEF flush
  <2> DEFINE o == flushPlain(out, cookies, w)
             prev == readPrevChunkCount(cookies)
  <2>2. /\ o \in Cookies
        /\ prev > 0 => metaName \in DOMAIN o /\ o[metaName] = Gone
        /\ prev = 0 => \A x : x # plainName =>
             (x \in DOMAIN o <=> x \in DOMAIN out) /\ (x \in DOMAIN out => o[x] = out[x])
    BY PlainWrite
  <2>3. prev \in Nat
    BY PrevCount
  <2> HIDE DEF o, prev
  <2>4. OutWhole(o)
    BY <2>2, <2>3, KeepsWhole
  <2> QED
    BY <2>1, <2>2, <2>4 DEF o
<1>2. CASE splitChunks(w.p.size) # 1
  <2>1. flush(out, cookies, w) = flushChunks(out, cookies, w)
    BY <1>2 DEF flush
  <2> DEFINE o == flushChunks(out, cookies, w)
             n == splitChunks(w.p.size)
  <2>2. /\ o \in Cookies
        /\ metaName \in DOMAIN o /\ o[metaName] = [wire |-> NoWire, n |-> n]
        /\ \A i \in 0..(n - 1) : chunkName(i) \in DOMAIN o /\ o[chunkName(i)] = [wire |-> w, n |-> i]
    BY ChunksWrite
  <2>3. n \in Nat \ {0}
    BY SplitPositive DEF Wire, Payload
  <2> HIDE DEF o
  <2>4. chunkName(0) \in DOMAIN o /\ o[chunkName(0)].wire = w
    <3>1. 0 \in 0..(n - 1)
      BY <2>3
    <3> HIDE DEF n
    <3>2. chunkName(0) \in DOMAIN o /\ o[chunkName(0)] = [wire |-> w, n |-> 0]
      BY <3>1, <2>2, Zenon
    <3> QED
      BY <3>2
  <2>5. ChunksWhole(o)
    BY <2>2, <2>4 DEF ChunksWhole
  <2> QED
    BY <2>1, <2>2, <2>5 DEF OutWhole, o
<1> QED
  BY <1>1, <1>2

LEMMA DeleteWhole ==
  ASSUME NEW out \in Cookies, NEW cookies \in Cookies, OutWhole(out)
  PROVE  deleteAllCookies(out, cookies) \in Cookies /\ OutWhole(deleteAllCookies(out, cookies))
<1> DEFINE o == deleteAllCookies(out, cookies)
           prev == readPrevChunkCount(cookies)
<1>1. /\ o \in Cookies
      /\ prev > 0 => metaName \in DOMAIN o /\ o[metaName] = Gone
      /\ prev = 0 => \A x : x # plainName =>
           (x \in DOMAIN o <=> x \in DOMAIN out) /\ (x \in DOMAIN out => o[x] = out[x])
  BY DeleteWrite
<1>2. prev \in Nat
  BY PrevCount
<1> HIDE DEF o, prev
<1>3. OutWhole(o)
  BY <1>1, <1>2, KeepsWhole
<1> QED
  BY <1>1, <1>3 DEF o

-----------------------------------------------------------------------------
(* The jar stays whole, when a response reaches it and when time passes.   *)

Jars == Over(AllNames, [value : Value, until : Nat])

LEMMA JarsAre ==
  ASSUME NEW held \in Jars
  PROVE  /\ held = [x \in DOMAIN held |-> held[x]] /\ DOMAIN held \subseteq AllNames
         /\ \A x \in DOMAIN held : held[x].value \in Value /\ held[x].until \in Nat
<1>1. /\ held = [x \in DOMAIN held |-> held[x]] /\ DOMAIN held \subseteq AllNames
      /\ \A x \in DOMAIN held : held[x] \in [value : Value, until : Nat]
  BY OverFunction, ZenonT(60) DEF Jars
<1> QED
  BY <1>1

LEMMA ValuesAre ==
  ASSUME NEW held \in Jars
  PROVE  /\ Values(held) \in Cookies /\ DOMAIN Values(held) = DOMAIN held
         /\ \A x \in DOMAIN held : Values(held)[x] = held[x].value
<1>1. DOMAIN Values(held) = DOMAIN held /\ \A x \in DOMAIN held : Values(held)[x] = held[x].value
  BY DEF Values
<1>2. DOMAIN held \subseteq AllNames /\ \A x \in DOMAIN held : held[x].value \in Value
  BY JarsAre
<1>3. Values(held) \in [DOMAIN held -> Value]
  BY <1>2 DEF Values
<1> QED
  BY <1>1, <1>2, <1>3 DEF Cookies, Over

(* JarWhole, name by name. *)
LEMMA JarWholeBy ==
  ASSUME NEW held \in Jars
  PROVE  JarWhole(held) <=>
    /\ \A x \in DOMAIN held : held[x].value # Gone
    /\ metaName \in DOMAIN held =>
         LET w == held[chunkName(0)].value.wire
             n == held[metaName].value.n
         IN  /\ chunkName(0) \in DOMAIN held /\ w.nonce # 0 /\ n = splitChunks(w.p.size)
             /\ \A i \in 0..(n - 1) : /\ chunkName(i) \in DOMAIN held
                                      /\ held[chunkName(i)].value = [wire |-> w, n |-> i]
                                      /\ held[chunkName(i)].until = held[metaName].until
  BY ValuesAre, ZenonT(60) DEF JarWhole, ChunksWhole

LEMMA AppliedAre ==
  ASSUME NEW held \in Jars, NEW out \in Cookies, now \in Nat
  PROVE  LET j == Applied(held, out)
             u == IF MaxAge > 0 THEN now + MaxAge ELSE 0
         IN  /\ j \in Jars
             /\ \A x \in DOMAIN out : /\ x \in DOMAIN j <=> out[x] # Gone
                                      /\ x \in DOMAIN j => j[x] = [value |-> out[x], until |-> u]
             /\ \A x : x \notin DOMAIN out =>
                  (x \in DOMAIN j <=> x \in DOMAIN held) /\ (x \in DOMAIN j => j[x] = held[x])
<1> DEFINE u == IF MaxAge > 0 THEN now + MaxAge ELSE 0
           left == (DOMAIN held \ DOMAIN out) \cup {x \in DOMAIN out : out[x] # Gone}
           j == [x \in left |-> IF x \in DOMAIN out THEN [value |-> out[x], until |-> u] ELSE held[x]]
<1>1. Applied(held, out) = j
  BY DEF Applied
<1>2. u \in Nat
  BY SessionAssumption
<1>3. DOMAIN held \subseteq AllNames /\ \A x \in DOMAIN held : held[x] \in [value : Value, until : Nat]
  BY OverFunction, ZenonT(60) DEF Jars
<1>4. DOMAIN out \subseteq AllNames /\ \A x \in DOMAIN out : out[x] \in Value
  BY CookiesAre
<1>5. left \in SUBSET AllNames
  BY <1>3, <1>4
<1> HIDE DEF u
<1>6. j \in [left -> [value : Value, until : Nat]]
  BY <1>2, <1>3, <1>4
<1>7. j \in Jars
  BY <1>5, <1>6 DEF Jars, Over
<1>8. \A x \in DOMAIN out : /\ x \in DOMAIN j <=> out[x] # Gone
                            /\ x \in DOMAIN j => j[x] = [value |-> out[x], until |-> u]
  OBVIOUS
<1>9. \A x : x \notin DOMAIN out =>
        (x \in DOMAIN j <=> x \in DOMAIN held) /\ (x \in DOMAIN j => j[x] = held[x])
  OBVIOUS
<1> HIDE DEF j
<1> QED
  BY <1>1, <1>7, <1>8, <1>9 DEF u

LEMMA AppliedWhole ==
  ASSUME NEW held \in Jars, NEW out \in Cookies, now \in Nat, JarWhole(held), OutWhole(out)
  PROVE  JarWhole(Applied(held, out))
<1> DEFINE j == Applied(held, out)
           u == IF MaxAge > 0 THEN now + MaxAge ELSE 0
<1>1. /\ j \in Jars
      /\ \A x \in DOMAIN out : /\ x \in DOMAIN j <=> out[x] # Gone
                               /\ x \in DOMAIN j => j[x] = [value |-> out[x], until |-> u]
      /\ \A x : x \notin DOMAIN out =>
           (x \in DOMAIN j <=> x \in DOMAIN held) /\ (x \in DOMAIN j => j[x] = held[x])
  BY AppliedAre
<1> HIDE DEF j, u
<1>2. \A x \in DOMAIN j : j[x].value # Gone
  <2>1. \A x \in DOMAIN held : held[x].value # Gone
    BY JarWholeBy
  <2> SUFFICES ASSUME NEW x \in DOMAIN j PROVE j[x].value # Gone
    OBVIOUS
  <2>2. CASE x \in DOMAIN out
    <3>1. out[x] # Gone /\ j[x] = [value |-> out[x], until |-> u]
      BY <1>1, <2>2
    <3> QED
      BY <3>1
  <2>3. CASE x \notin DOMAIN out
    BY <1>1, <2>1, <2>3
  <2> QED
    BY <2>2, <2>3
<1>3. ASSUME metaName \in DOMAIN j
      PROVE  LET w == j[chunkName(0)].value.wire
                 n == j[metaName].value.n
             IN  /\ chunkName(0) \in DOMAIN j /\ w.nonce # 0 /\ n = splitChunks(w.p.size)
                 /\ \A i \in 0..(n - 1) : /\ chunkName(i) \in DOMAIN j
                                          /\ j[chunkName(i)].value = [wire |-> w, n |-> i]
                                          /\ j[chunkName(i)].until = j[metaName].until
  <2>1. CASE metaName \in DOMAIN out
    <3> DEFINE w == out[chunkName(0)].wire
               n == out[metaName].n
    <3>1. out[metaName] # Gone /\ j[metaName] = [value |-> out[metaName], until |-> u]
      BY <1>1, <1>3, <2>1
    <3>2. /\ chunkName(0) \in DOMAIN out /\ w.nonce # 0 /\ n = splitChunks(w.p.size)
          /\ \A i \in 0..(n - 1) : /\ chunkName(i) \in DOMAIN out
                                   /\ out[chunkName(i)] = [wire |-> w, n |-> i]
      BY <2>1, <3>1, Zenon DEF OutWhole, ChunksWhole
    <3>3. w \in Wire /\ n \in Nat
      BY <2>1, <3>2, CookiesAre DEF Value
    <3>4. n # 0
      BY <3>2, <3>3, SplitPositive DEF Wire, Payload
    <3> HIDE DEF w, n
    <3>5. \A i \in 0..(n - 1) : [wire |-> w, n |-> i] # Gone
      BY <3>2, <3>3, ValueFacts
    <3>6. \A i \in 0..(n - 1) :
            /\ chunkName(i) \in DOMAIN j
            /\ j[chunkName(i)] = [value |-> [wire |-> w, n |-> i], until |-> u]
      <4> SUFFICES ASSUME NEW i \in 0..(n - 1)
                   PROVE  /\ chunkName(i) \in DOMAIN j
                          /\ j[chunkName(i)] = [value |-> [wire |-> w, n |-> i], until |-> u]
        OBVIOUS
      <4>1. chunkName(i) \in DOMAIN out /\ out[chunkName(i)] = [wire |-> w, n |-> i]
        BY <3>2
      <4>2. out[chunkName(i)] # Gone
        BY <3>5, <4>1
      <4>3. chunkName(i) \in DOMAIN j
        BY <1>1, <4>1, <4>2
      <4>4. j[chunkName(i)] = [value |-> out[chunkName(i)], until |-> u]
        BY <1>1, <4>1, <4>3
      <4> QED
        BY <4>1, <4>3, <4>4
    <3>7. 0 \in 0..(n - 1)
      BY <3>3, <3>4
    <3>8. chunkName(0) \in DOMAIN j /\ j[chunkName(0)] = [value |-> [wire |-> w, n |-> 0], until |-> u]
      BY <3>6, <3>7, Zenon
    <3>9. j[chunkName(0)].value.wire = w /\ j[metaName].value.n = n /\ j[metaName].until = u
      BY <3>1, <3>8 DEF n
    <3>10. \A i \in 0..(n - 1) : /\ chunkName(i) \in DOMAIN j
                                 /\ j[chunkName(i)].value = [wire |-> w, n |-> i]
                                 /\ j[chunkName(i)].until = u
      <4> SUFFICES ASSUME NEW i \in 0..(n - 1)
                   PROVE  /\ chunkName(i) \in DOMAIN j
                          /\ j[chunkName(i)].value = [wire |-> w, n |-> i]
                          /\ j[chunkName(i)].until = u
        OBVIOUS
      <4>1. chunkName(i) \in DOMAIN j
            /\ j[chunkName(i)] = [value |-> [wire |-> w, n |-> i], until |-> u]
        BY <3>6
      <4> QED
        BY <4>1
    <3> QED
      BY <3>2, <3>8, <3>9, <3>10, Zenon
  <2>2. CASE metaName \notin DOMAIN out
    <3> DEFINE w == held[chunkName(0)].value.wire
               n == held[metaName].value.n
    <3>1. \A i \in Nat : chunkName(i) \notin DOMAIN out
      BY <2>2, Zenon DEF OutWhole
    <3>2. metaName \in DOMAIN held /\ j[metaName] = held[metaName]
      BY <1>1, <1>3, <2>2
    <3>3. /\ chunkName(0) \in DOMAIN held /\ w.nonce # 0 /\ n = splitChunks(w.p.size)
          /\ \A i \in 0..(n - 1) : /\ chunkName(i) \in DOMAIN held
                                   /\ held[chunkName(i)].value = [wire |-> w, n |-> i]
                                   /\ held[chunkName(i)].until = held[metaName].until
      BY <3>2, JarWholeBy
    <3>4. n \in Nat
      BY <3>2, JarsAre DEF Value
    <3> HIDE DEF w, n
    <3>5. \A i \in 0..(n - 1) : i \in Nat
      BY <3>4
    <3>6. \A i \in Nat : chunkName(i) \in DOMAIN held =>
            chunkName(i) \in DOMAIN j /\ j[chunkName(i)] = held[chunkName(i)]
      BY <1>1, <3>1, Zenon
    <3>7. chunkName(0) \in DOMAIN j /\ j[chunkName(0)] = held[chunkName(0)]
      <4>1. 0 \in Nat
        OBVIOUS
      <4> QED
        BY <4>1, <3>3, <3>6, Zenon
    <3> QED
      BY <3>2, <3>3, <3>5, <3>6, <3>7, ZenonT(60) DEF w, n
  <2> QED
    BY <2>1, <2>2
<1> QED
  BY <1>1, <1>2, <1>3, JarWholeBy DEF j

LEMMA AliveWhole ==
  ASSUME NEW held \in Jars, NEW t \in Nat
  PROVE  LET j == Alive(held, t)
         IN  /\ j \in Jars /\ (JarWhole(held) => JarWhole(j))
             /\ \A x : /\ x \in DOMAIN j <=> x \in DOMAIN held /\ (held[x].until = 0 \/ held[x].until > t)
                       /\ x \in DOMAIN j => j[x] = held[x]
<1> DEFINE left == {y \in DOMAIN held : held[y].until = 0 \/ held[y].until > t}
           j == [x \in left |-> held[x]]
<1>1. Alive(held, t) = j
  BY DEF Alive
<1>2. DOMAIN held \subseteq AllNames /\ \A x \in DOMAIN held : held[x] \in [value : Value, until : Nat]
  BY OverFunction, ZenonT(60) DEF Jars
<1>3. j \in Jars
  <2>1. j \in [left -> [value : Value, until : Nat]] /\ left \in SUBSET AllNames
    BY <1>2
  <2> QED
    BY <2>1 DEF Jars, Over
<1>4. \A x : /\ x \in DOMAIN j <=> x \in DOMAIN held /\ (held[x].until = 0 \/ held[x].until > t)
             /\ x \in DOMAIN j => j[x] = held[x]
  OBVIOUS
<1> HIDE DEF j
<1>5. ASSUME JarWhole(held) PROVE JarWhole(j)
  <2>1. \A x \in DOMAIN j : j[x].value # Gone
    BY <1>4, <1>5, JarWholeBy
  <2>2. ASSUME metaName \in DOMAIN j
        PROVE  LET w == j[chunkName(0)].value.wire
                   n == j[metaName].value.n
               IN  /\ chunkName(0) \in DOMAIN j /\ w.nonce # 0 /\ n = splitChunks(w.p.size)
                   /\ \A i \in 0..(n - 1) : /\ chunkName(i) \in DOMAIN j
                                            /\ j[chunkName(i)].value = [wire |-> w, n |-> i]
                                            /\ j[chunkName(i)].until = j[metaName].until
    <3> DEFINE w == held[chunkName(0)].value.wire
               n == held[metaName].value.n
    <3>1. /\ metaName \in DOMAIN held /\ j[metaName] = held[metaName]
          /\ held[metaName].until = 0 \/ held[metaName].until > t
      BY <1>4, <2>2, Zenon
    <3>2. /\ chunkName(0) \in DOMAIN held /\ w.nonce # 0 /\ n = splitChunks(w.p.size)
          /\ \A i \in 0..(n - 1) : /\ chunkName(i) \in DOMAIN held
                                   /\ held[chunkName(i)].value = [wire |-> w, n |-> i]
                                   /\ held[chunkName(i)].until = held[metaName].until
      BY <1>5, <3>1, JarWholeBy
    <3>3. n \in Nat /\ w \in Wire
      BY <3>1, <3>2, JarsAre DEF Value
    <3>4. 0 \in 0..(n - 1)
      BY <3>2, <3>3, SplitPositive DEF Wire, Payload
    <3> HIDE DEF w, n
    <3>5. \A i \in 0..(n - 1) : chunkName(i) \in DOMAIN j /\ j[chunkName(i)] = held[chunkName(i)]
      BY <1>4, <3>1, <3>2, Zenon
    <3>6. chunkName(0) \in DOMAIN j /\ j[chunkName(0)] = held[chunkName(0)]
      BY <3>4, <3>5, Zenon
    <3> QED
      BY <3>1, <3>2, <3>5, <3>6, ZenonT(60) DEF w, n
  <2> QED
    BY <1>3, <2>1, <2>2, JarWholeBy
<1> QED
  BY <1>1, <1>3, <1>4, <1>5

-----------------------------------------------------------------------------
(* What is read from a jar, and what one write leaves there.               *)

(* The chunks of a whole jar, as facts about its wire string. *)
LEMMA JarChunksAre ==
  ASSUME NEW held \in Jars, JarWhole(held), metaName \in DOMAIN held
  PROVE  LET w == held[chunkName(0)].value.wire
             n == held[metaName].value.n
         IN  /\ chunkName(0) \in DOMAIN held /\ w \in Wire /\ n \in Nat \ {0} /\ w.nonce # 0
             /\ n = splitChunks(w.p.size)
             /\ \A i \in 0..(n - 1) : /\ chunkName(i) \in DOMAIN held
                                      /\ held[chunkName(i)].value = [wire |-> w, n |-> i]
                                      /\ held[chunkName(i)].until = held[metaName].until
<1> DEFINE w == held[chunkName(0)].value.wire
           n == held[metaName].value.n
<1>1. /\ chunkName(0) \in DOMAIN held /\ w.nonce # 0 /\ n = splitChunks(w.p.size)
      /\ \A i \in 0..(n - 1) : /\ chunkName(i) \in DOMAIN held
                               /\ held[chunkName(i)].value = [wire |-> w, n |-> i]
                               /\ held[chunkName(i)].until = held[metaName].until
  BY JarWholeBy
<1>2. w \in Wire
  BY <1>1, JarsAre DEF Value
<1>3. n \in Nat \ {0}
  BY <1>1, <1>2, SplitPositive DEF Wire, Payload
<1> QED
  BY <1>1, <1>2, <1>3

LEMMA ReadsHeld ==
  ASSUME NEW held \in Jars, JarWhole(held)
  PROVE  /\ HoldsNone(held) => readWire(Values(held)).is = "none"
         /\ plainName \in DOMAIN held \/ metaName \in DOMAIN held =>
              readWire(Values(held)) = [is |-> "wire", wire |-> WireOf(held)]
<1> DEFINE c == Values(held)
<1>1. /\ DOMAIN c = DOMAIN held
      /\ \A x \in DOMAIN held : c[x] = held[x].value
  BY ValuesAre
<1>2. HoldsNone(held) => readWire(c).is = "none"
  BY <1>1 DEF HoldsNone, readWire, readPrevChunkCount
<1>3. plainName \in DOMAIN held => readWire(c) = [is |-> "wire", wire |-> WireOf(held)]
  BY <1>1 DEF readWire, WireOf
<1>4. ASSUME plainName \notin DOMAIN held, metaName \in DOMAIN held
      PROVE  readWire(c) = [is |-> "wire", wire |-> WireOf(held)]
  <2> DEFINE w == held[chunkName(0)].value.wire
             n == held[metaName].value.n
  <2>1. /\ chunkName(0) \in DOMAIN held /\ n \in Nat \ {0} /\ n = splitChunks(w.p.size)
        /\ \A i \in 0..(n - 1) : /\ chunkName(i) \in DOMAIN held
                                 /\ held[chunkName(i)].value = [wire |-> w, n |-> i]
    BY <1>4, JarChunksAre
  <2>2. readPrevChunkCount(c) = n
    BY <1>1, <1>4 DEF readPrevChunkCount
  <2>3. c[chunkName(0)].wire = w
    BY <1>1, <2>1
  <2>4. plainName \notin DOMAIN c
    BY <1>1, <1>4
  <2>5. WireOf(held) = w
    BY <1>4 DEF WireOf
  <2> HIDE DEF w, n
  <2>6. \A i \in 0..(n - 1) : chunkName(i) \in DOMAIN c /\ c[chunkName(i)] = [wire |-> w, n |-> i]
    BY <1>1, <2>1
  <2> HIDE DEF c
  <2> QED
    BY <2>1, <2>2, <2>3, <2>4, <2>5, <2>6 DEF readWire
<1> QED
  BY <1>2, <1>3, <1>4

(* What a request that read the whole jar knows of its chunks. *)
LEMMA KnowsChunks ==
  ASSUME NEW held \in Jars, JarWhole(held)
  PROVE  /\ metaName \in DOMAIN held => readPrevChunkCount(Values(held)) > 0
         /\ metaName \notin DOMAIN held => readPrevChunkCount(Values(held)) = 0
<1>1. /\ DOMAIN Values(held) = DOMAIN held
      /\ \A x \in DOMAIN held : Values(held)[x] = held[x].value
  BY ValuesAre
<1>2. metaName \in DOMAIN held => held[metaName].value.n \in Nat \ {0}
  BY JarChunksAre
<1> QED
  BY <1>1, <1>2 DEF readPrevChunkCount

LEMMA AfterDelete ==
  ASSUME NEW held \in Jars, JarWhole(held), now \in Nat
  PROVE  HoldsNone(Applied(held, deleteAllCookies(Empty, Values(held))))
<1> DEFINE c == Values(held)
           o == deleteAllCookies(Empty, c)
           j == Applied(held, o)
           prev == readPrevChunkCount(c)
<1>1. c \in Cookies /\ Empty \in Cookies /\ DOMAIN Empty = {}
  BY ValuesAre, EmptyCookies DEF Cookies
<1>2. /\ o \in Cookies
      /\ plainName \in DOMAIN o /\ o[plainName] = Gone
      /\ prev > 0 => metaName \in DOMAIN o /\ o[metaName] = Gone
      /\ prev = 0 => \A x : x # plainName =>
           (x \in DOMAIN o <=> x \in DOMAIN Empty) /\ (x \in DOMAIN Empty => o[x] = Empty[x])
  BY <1>1, DeleteWrite
<1>3. /\ metaName \in DOMAIN held => prev > 0
      /\ metaName \notin DOMAIN held => prev = 0
  BY KnowsChunks
<1> HIDE DEF o, prev, c
<1>4. /\ \A x \in DOMAIN o :
           /\ x \in DOMAIN j <=> o[x] # Gone
           /\ x \in DOMAIN j =>
                j[x] = [value |-> o[x], until |-> IF MaxAge > 0 THEN now + MaxAge ELSE 0]
      /\ \A x : x \notin DOMAIN o =>
           (x \in DOMAIN j <=> x \in DOMAIN held) /\ (x \in DOMAIN j => j[x] = held[x])
  BY <1>2, AppliedAre
<1> HIDE DEF j
<1>5. plainName \notin DOMAIN j
  BY <1>2, <1>4
<1>6. metaName \notin DOMAIN j
  BY <1>1, <1>2, <1>3, <1>4, NameFacts
<1> QED
  BY <1>5, <1>6 DEF HoldsNone, j, o, c

LEMMA AfterFlush ==
  ASSUME NEW held \in Jars, JarWhole(held), now \in Nat, NEW w \in Wire, w.nonce # 0
  PROVE  LET j == Applied(held, flush(Empty, Values(held), w))
         IN  /\ HoldsOne(j) /\ WireOf(j) = w
             /\ UntilOf(j) = IF MaxAge > 0 THEN now + MaxAge ELSE 0
<1> DEFINE c == Values(held)
           o == flush(Empty, c, w)
           j == Applied(held, o)
           prev == readPrevChunkCount(c)
           n == splitChunks(w.p.size)
           u == IF MaxAge > 0 THEN now + MaxAge ELSE 0
<1>1. c \in Cookies /\ Empty \in Cookies /\ DOMAIN Empty = {} /\ DOMAIN c = DOMAIN held
  BY ValuesAre, EmptyCookies DEF Cookies
<1>2. OutWhole(Empty)
  BY <1>1 DEF OutWhole, ChunksWhole
<1>3. o \in Cookies
  BY <1>1, <1>2, FlushWhole
<1>4. /\ metaName \in DOMAIN held => prev > 0
      /\ metaName \notin DOMAIN held => prev = 0
  BY KnowsChunks
<1>5. /\ \A x \in DOMAIN o : /\ x \in DOMAIN j <=> o[x] # Gone
                             /\ x \in DOMAIN j => j[x] = [value |-> o[x], until |-> u]
      /\ \A x : x \notin DOMAIN o => (x \in DOMAIN j <=> x \in DOMAIN held)
  BY <1>3, AppliedAre
<1>6. CASE n = 1
  <2>1. o = flushPlain(Empty, c, w)
    BY <1>6 DEF flush
  <2>2. /\ plainName \in DOMAIN o /\ o[plainName] = [wire |-> w, n |-> 0]
        /\ prev > 0 => metaName \in DOMAIN o /\ o[metaName] = Gone
        /\ prev = 0 => \A x : x # plainName =>
             (x \in DOMAIN o <=> x \in DOMAIN Empty) /\ (x \in DOMAIN Empty => o[x] = Empty[x])
    <3> DEFINE f == flushPlain(Empty, c, w)
    <3> HIDE DEF c
    <3>1. /\ plainName \in DOMAIN f /\ f[plainName] = [wire |-> w, n |-> 0]
          /\ prev > 0 => metaName \in DOMAIN f /\ f[metaName] = Gone
          /\ prev = 0 => \A x : x # plainName =>
               (x \in DOMAIN f <=> x \in DOMAIN Empty) /\ (x \in DOMAIN Empty => f[x] = Empty[x])
      BY <1>1, PlainWrite
    <3>2. o = f
      BY <2>1
    <3> HIDE DEF f, o
    <3> QED
      BY <3>1, <3>2
  <2>3. [wire |-> w, n |-> 0] # Gone
    BY ValueFacts
  <2> HIDE DEF o, j, c, prev, u
  <2>4. plainName \in DOMAIN j
    BY <1>5, <2>2, <2>3
  <2>5. j[plainName] = [value |-> [wire |-> w, n |-> 0], until |-> u]
    BY <1>5, <2>2, <2>4
  <2>6. metaName \notin DOMAIN j
    BY <1>1, <1>4, <1>5, <2>2, NameFacts
  <2>7. HoldsOne(j) /\ WireOf(j) = w /\ UntilOf(j) = u
    BY <2>4, <2>5, <2>6 DEF HoldsOne, WireOf, UntilOf
  <2> QED
    BY <2>7 DEF j, o, c, u
<1>7. CASE n # 1
  <2>1. o = flushChunks(Empty, c, w)
    BY <1>7 DEF flush
  <2>2. /\ metaName \in DOMAIN o /\ o[metaName] = [wire |-> NoWire, n |-> n]
        /\ \A i \in 0..(n - 1) : chunkName(i) \in DOMAIN o /\ o[chunkName(i)] = [wire |-> w, n |-> i]
        /\ plainName \in DOMAIN c => plainName \in DOMAIN o /\ o[plainName] = Gone
        /\ plainName \notin DOMAIN c =>
             /\ plainName \in DOMAIN o <=> plainName \in DOMAIN Empty
             /\ plainName \in DOMAIN Empty => o[plainName] = Empty[plainName]
    <3> DEFINE f == flushChunks(Empty, c, w)
    <3> HIDE DEF c
    <3>1. /\ metaName \in DOMAIN f /\ f[metaName] = [wire |-> NoWire, n |-> n]
          /\ \A i \in 0..(n - 1) : chunkName(i) \in DOMAIN f /\ f[chunkName(i)] = [wire |-> w, n |-> i]
          /\ plainName \in DOMAIN c => plainName \in DOMAIN f /\ f[plainName] = Gone
          /\ plainName \notin DOMAIN c =>
               /\ plainName \in DOMAIN f <=> plainName \in DOMAIN Empty
               /\ plainName \in DOMAIN Empty => f[plainName] = Empty[plainName]
      <4>1. ASSUME NEW e \in Cookies, NEW d \in Cookies
            PROVE  LET g == flushChunks(e, d, w)
                   IN  /\ metaName \in DOMAIN g /\ g[metaName] = [wire |-> NoWire, n |-> n]
                       /\ \A i \in 0..(n - 1) : /\ chunkName(i) \in DOMAIN g
                                                /\ g[chunkName(i)] = [wire |-> w, n |-> i]
        BY ChunksWrite
      <4>2. ASSUME NEW e \in Cookies, NEW d \in Cookies, plainName \in DOMAIN d
            PROVE  LET g == flushChunks(e, d, w)
                   IN  plainName \in DOMAIN g /\ g[plainName] = Gone
        BY <4>2, ChunksWrite
      <4>3. ASSUME NEW e \in Cookies, NEW d \in Cookies, plainName \notin DOMAIN d
            PROVE  LET g == flushChunks(e, d, w)
                   IN  /\ plainName \in DOMAIN g <=> plainName \in DOMAIN e
                       /\ plainName \in DOMAIN e => g[plainName] = e[plainName]
        BY <4>3, ChunksWrite
      <4>4. Empty \in Cookies /\ c \in Cookies
        BY <1>1
      <4> HIDE DEF n
      <4> QED
        BY <4>1, <4>2, <4>3, <4>4, Zenon
    <3>2. o = f
      BY <2>1
    <3> HIDE DEF f, o, n
    <3> QED
      BY <3>1, <3>2, Zenon
  <2>3. n \in Nat \ {0}
    BY SplitPositive DEF Wire, Payload
  <2> HIDE DEF o, j, c, prev, u, n
  <2>4. chunkName(0) \in DOMAIN o /\ o[chunkName(0)] = [wire |-> w, n |-> 0]
    <3>1. 0 \in 0..(n - 1)
      BY <2>3
    <3> QED
      BY <2>2, <3>1, Zenon
  <2>5. [wire |-> w, n |-> 0] # Gone /\ [wire |-> NoWire, n |-> n] # Gone
    BY <2>3, ValueFacts
  <2>6. metaName \in DOMAIN j /\ chunkName(0) \in DOMAIN j
    BY <1>5, <2>2, <2>4, <2>5
  <2>7. /\ j[metaName] = [value |-> [wire |-> NoWire, n |-> n], until |-> u]
        /\ j[chunkName(0)] = [value |-> [wire |-> w, n |-> 0], until |-> u]
    BY <1>5, <2>2, <2>4, <2>6
  <2>8. plainName \notin DOMAIN j
    BY <1>1, <1>5, <2>2
  <2>9. HoldsOne(j) /\ WireOf(j) = w /\ UntilOf(j) = u
    BY <2>6, <2>7, <2>8 DEF HoldsOne, WireOf, UntilOf
  <2> QED
    BY <2>9 DEF j, o, c, u
<1> QED
  BY <1>6, <1>7

LEMMA AliveHolds ==
  ASSUME NEW held \in Jars, JarWhole(held), NEW t \in Nat
  PROVE  LET j == Alive(held, t)
             stays == UntilOf(held) = 0 \/ UntilOf(held) > t
         IN  /\ HoldsNone(held) => HoldsNone(j)
             /\ HoldsOne(held) => UntilOf(held) \in Nat
             /\ HoldsOne(held) /\ stays =>
                  HoldsOne(j) /\ UntilOf(j) = UntilOf(held) /\ WireOf(j) = WireOf(held)
             /\ HoldsOne(held) /\ ~stays => HoldsNone(j)
<1> DEFINE j == Alive(held, t)
           stays == UntilOf(held) = 0 \/ UntilOf(held) > t
<1>1. \A x : /\ x \in DOMAIN j <=> x \in DOMAIN held /\ (held[x].until = 0 \/ held[x].until > t)
             /\ x \in DOMAIN j => j[x] = held[x]
  BY AliveWhole
<1> HIDE DEF j
<1>2. HoldsNone(held) => HoldsNone(j)
  BY <1>1 DEF HoldsNone
<1>3. CASE plainName \in DOMAIN held /\ metaName \notin DOMAIN held
  <2>1. held[plainName].until \in Nat
    BY <1>3, JarsAre
  <2>2. UntilOf(held) = held[plainName].until /\ WireOf(held) = held[plainName].value.wire
    BY <1>3 DEF UntilOf, WireOf
  <2>3. metaName \notin DOMAIN j
    BY <1>1, <1>3
  <2>4. plainName \in DOMAIN j <=> stays
    BY <1>1, <1>3, <2>2
  <2>5. plainName \in DOMAIN j => UntilOf(j) = UntilOf(held) /\ WireOf(j) = WireOf(held)
    BY <1>1, <2>2 DEF UntilOf, WireOf
  <2> QED
    BY <1>2, <2>1, <2>2, <2>3, <2>4, <2>5 DEF HoldsOne, HoldsNone, j
<1>4. CASE metaName \in DOMAIN held /\ plainName \notin DOMAIN held
  <2>1. held[metaName].until \in Nat
    BY <1>4, JarsAre
  <2>2. UntilOf(held) = held[metaName].until /\ WireOf(held) = held[chunkName(0)].value.wire
    BY <1>4 DEF UntilOf, WireOf
  <2>3. plainName \notin DOMAIN j
    BY <1>1, <1>4
  <2>4. metaName \in DOMAIN j <=> stays
    BY <1>1, <1>4, <2>2
  <2>5. chunkName(0) \in DOMAIN held /\ held[chunkName(0)].until = held[metaName].until
    <3> DEFINE w == held[chunkName(0)].value.wire
               n == held[metaName].value.n
    <3>1. /\ n \in Nat \ {0}
          /\ \A i \in 0..(n - 1) : /\ chunkName(i) \in DOMAIN held
                                   /\ held[chunkName(i)].value = [wire |-> w, n |-> i]
                                   /\ held[chunkName(i)].until = held[metaName].until
      BY <1>4, JarChunksAre
    <3> HIDE DEF n, w
    <3>2. 0 \in 0..(n - 1)
      BY <3>1
    <3> QED
      BY <3>1, <3>2, Zenon
  <2>6. metaName \in DOMAIN j => chunkName(0) \in DOMAIN j
    BY <1>1, <2>5
  <2>7. metaName \in DOMAIN j => UntilOf(j) = UntilOf(held) /\ WireOf(j) = WireOf(held)
    BY <1>1, <2>2, <2>3, <2>6 DEF UntilOf, WireOf
  <2> QED
    BY <1>2, <2>1, <2>2, <2>3, <2>4, <2>7 DEF HoldsOne, HoldsNone, j
<1>5. CASE ~HoldsOne(held)
  BY <1>2, <1>5 DEF j
<1> QED
  BY <1>3, <1>4, <1>5 DEF HoldsOne

(* A response that says nothing changes nothing. *)
LEMMA AppliedEmpty == ASSUME NEW held \in Jars, now \in Nat PROVE Applied(held, Empty) = held
<1>1. DOMAIN Empty = {}
  BY EmptyCookies
<1>2. held = [x \in DOMAIN held |-> held[x]]
  BY JarsAre
<1>3. Applied(held, Empty) = [x \in DOMAIN held |-> held[x]]
  BY <1>1 DEF Applied
<1> QED
  BY <1>2, <1>3

-----------------------------------------------------------------------------
(* Types. *)

LEMMA ReadTyped == ASSUME NEW c \in Cookies PROVE NewSession(c) \in Payload
<1>1. \A x \in DOMAIN c : c[x].wire \in Wire
  BY CookiesAre DEF Value
<1>2. readWire(c).is = "wire" => readWire(c).wire \in Wire
  <2>1. CASE plainName \in DOMAIN c
    BY <1>1, <2>1 DEF readWire
  <2>2. CASE plainName \notin DOMAIN c
    <3> DEFINE n == readPrevChunkCount(c)
    <3>1. n \in Nat
      BY PrevCount
    <3> HIDE DEF n
    <3>2. CASE n = 0 \/ \E i \in 0..(n - 1) : chunkName(i) \notin DOMAIN c
      BY <2>2, <3>2, "none" # "wire" DEF readWire, n
    <3>3. CASE n # 0 /\ chunkName(0) \in DOMAIN c
      <4>1. c[chunkName(0)].wire \in Wire
        BY <1>1, <3>3
      <4> DEFINE w == c[chunkName(0)].wire
      <4>2. \/ readWire(c) = [is |-> "none", wire |-> NoWire]
            \/ readWire(c) = [is |-> "wire", wire |-> w]
            \/ readWire(c) = [is |-> "garbled", wire |-> NoWire]
        BY <2>2, <3>3, Zenon DEF readWire
      <4> QED
        BY <4>1, <4>2
    <3>4. 0 \in 0..(n - 1) \/ n = 0
      BY <3>1
    <3> QED
      BY <3>2, <3>3, <3>4, Zenon
  <2> QED
    BY <2>1, <2>2
<1>3. \A w \in Wire : w.p \in Payload
  BY DEF Wire
<1> QED
  BY <1>2, <1>3, ZeroIsPayload DEF NewSession

LEMMA FlushTyped ==
  ASSUME NEW out \in Cookies, NEW cookies \in Cookies, NEW w \in Wire
  PROVE  flush(out, cookies, w) \in Cookies
<1>1. flushPlain(out, cookies, w) \in Cookies
  BY PlainWrite
<1>2. flushChunks(out, cookies, w) \in Cookies
  BY ChunksWrite
<1> QED
  BY <1>1, <1>2 DEF flush

LEMMA DeleteTyped ==
  ASSUME NEW out \in Cookies, NEW cookies \in Cookies
  PROVE  deleteAllCookies(out, cookies) \in Cookies
  BY DeleteWrite

LEMMA EncodeTyped ==
  ASSUME TypeOK, NEW p \in Payload
  PROVE  /\ Head(secrets) \in Nat
         /\ encodePayload(p) \in Wire /\ encodePayload(p).nonce # 0
<1>1. Head(secrets) \in Nat /\ nonce + 1 \in Nat /\ nonce + 1 # 0
  BY DEF TypeOK
<1> QED
  BY <1>1 DEF encodePayload, Wire

(* The records of requests, over any sets of values. *)
LEMMA ChangeRecord ==
  ASSUME NEW A, NEW B, NEW C, NEW N, NEW p \in C, NEW o \in B, NEW n \in N,
         NEW s \in [open : A, cookies : B, p : C, out : B, writes : N, alone : A]
  PROVE  [s EXCEPT !.p = p, !.writes = n, !.out = o]
           \in [open : A, cookies : B, p : C, out : B, writes : N, alone : A]
  OBVIOUS

LEMMA OpenRecord ==
  ASSUME NEW A, NEW B, NEW C, NEW N, NEW a \in A, NEW b \in A, NEW k \in B, NEW p \in C,
         NEW s \in [open : A, cookies : B, p : C, out : B, writes : N, alone : A]
  PROVE  [s EXCEPT !.open = a, !.cookies = k, !.p = p, !.alone = b]
           \in [open : A, cookies : B, p : C, out : B, writes : N, alone : A]
  OBVIOUS

LEMMA CloseRecord ==
  ASSUME NEW S, NEW R, NEW r \in R, NEW f \in [R -> S], NEW c \in S
  PROVE  LET g == [f EXCEPT ![r] = c]
         IN  g \in [R -> S] /\ g[r] = c /\ \A q \in R : q # r => g[q] = f[q]
  OBVIOUS

ReqSet == [open : BOOLEAN, cookies : Cookies, p : Payload, out : Cookies, writes : Nat, alone : BOOLEAN]

LEMMA ReqsTyped ==
  ASSUME TypeOK, NEW r \in Requests
  PROVE  /\ req[r] \in ReqSet
         /\ req[r].cookies \in Cookies /\ req[r].p \in Payload /\ req[r].out \in Cookies
         /\ req[r].writes \in Nat
<1>1. req[r] \in ReqSet
  BY DEF TypeOK, ReqSet
<1> QED
  BY <1>1 DEF ReqSet

LEMMA ReqWrite ==
  ASSUME TypeOK, NEW r \in Requests, NEW p \in Payload, NEW o \in Cookies,
         req' = [req EXCEPT ![r].p = p, ![r].writes = @ + 1, ![r].out = o]
  PROVE  /\ req' \in [Requests -> ReqSet]
         /\ req'[r].open = req[r].open /\ req'[r].cookies = req[r].cookies
         /\ req'[r].alone = req[r].alone
         /\ req'[r].p = p /\ req'[r].out = o /\ req'[r].writes = req[r].writes + 1
         /\ \A q \in Requests : q # r => req'[q] = req[q]
<1> DEFINE e == [req[r] EXCEPT !.p = p, !.writes = @ + 1, !.out = o]
           A == BOOLEAN
           S == [open : A, cookies : Cookies, p : Payload, out : Cookies, writes : Nat, alone : A]
<1>1. req \in [Requests -> S] /\ S = ReqSet
  BY DEF TypeOK, ReqSet
<1> HIDE DEF A
<1>2. req[r] \in S
  BY <1>1
<1>3. /\ e.open = req[r].open /\ e.cookies = req[r].cookies /\ e.alone = req[r].alone
      /\ e.p = p /\ e.out = o /\ e.writes = req[r].writes + 1
  BY <1>2
<1>4. e \in S
  <2>1. req[r].writes + 1 \in Nat
    BY <1>2
  <2> QED
    BY <1>2, <2>1, ChangeRecord
<1> HIDE DEF S
<1>5. req' = [req EXCEPT ![r] = e]
  BY <1>1
<1> HIDE DEF e
<1>6. req' \in [Requests -> S] /\ req'[r] = e /\ \A q \in Requests : q # r => req'[q] = req[q]
  BY <1>1, <1>4, <1>5, ZenonT(60)
<1> QED
  BY <1>1, <1>3, <1>6

LEMMA ClosedIs ==
  /\ Closed \in ReqSet /\ ~Closed.open /\ Closed.out = Empty /\ Closed.cookies = Empty
  /\ Closed.writes = 0 /\ Closed.p = Zero
<1>1. Empty \in Cookies /\ Zero \in Payload
  BY EmptyCookies, ZeroIsPayload DEF Cookies
<1> QED
  BY <1>1 DEF Closed, ReqSet

LEMMA EmptyWhole == OutWhole(Empty)
  BY EmptyCookies DEF OutWhole, ChunksWhole

LEMMA JarTyped == ASSUME TypeOK PROVE jar \in Jars /\ now \in Nat /\ Values(jar) \in Cookies
<1>1. jar \in Jars /\ now \in Nat
  BY DEF TypeOK, Jars
<1> QED
  BY <1>1, ValuesAre

(* What an action that leaves a response to be sent does to the others: a  *)
(* request that is alone cannot see another act.                           *)
LEMMA OthersKeep ==
  ASSUME TypeOK, SessionInv, NEW r \in Requests, req[r].open,
         UNCHANGED <<jar, expect, now>>,
         \A q \in Requests : q # r => req'[q] = req[q],
         OutWhole(req'[r].out),
         req'[r].open =>
           /\ req'[r].writes = 0 => req'[r].out = Empty
           /\ req'[r].alone => req'[r].cookies = Values(jar) /\ \A q \in Requests \ {r} : ~req[q].open
           /\ req'[r].alone /\ req'[r].writes = 1 =>
                \/ req'[r].p = Zero /\ req'[r].out = deleteAllCookies(Empty, req'[r].cookies)
                \/ \E k \in 1..nonce' :
                     req'[r].out = flush(Empty, req'[r].cookies,
                                         [p |-> req'[r].p, secret |-> Head(secrets'), nonce |-> k])
  PROVE  SessionInv'
<1>1. JarWhole(jar)' /\ ExpectKept'
  BY DEF SessionInv, ExpectKept
<1>2. (\A q \in Requests : OutWhole(req[q].out))'
  BY DEF SessionInv
<1>3. AloneKnows'
  <2> SUFFICES ASSUME NEW q \in Requests, req'[q].open
               PROVE  /\ req'[q].writes = 0 => req'[q].out = Empty
                      /\ req'[q].alone =>
                           req'[q].cookies = Values(jar') /\ \A x \in Requests \ {q} : ~req'[x].open
                      /\ req'[q].alone /\ req'[q].writes = 1 =>
                           \/ req'[q].p = Zero /\ req'[q].out = deleteAllCookies(Empty, req'[q].cookies)
                           \/ \E k \in 1..nonce' :
                                req'[q].out = flush(Empty, req'[q].cookies,
                                                    [p |-> req'[q].p, secret |-> Head(secrets'), nonce |-> k])
    BY DEF AloneKnows
  <2>1. CASE q = r
    BY <2>1
  <2>2. CASE q # r
    <3>1. req'[q] = req[q]
      BY <2>2
    <3>2. AloneKnows
      BY DEF SessionInv
    <3>3. ~req[q].alone /\ (req[q].writes = 0 => req[q].out = Empty)
      BY <2>2, <3>1, <3>2 DEF AloneKnows
    <3> QED
      BY <3>1, <3>3
  <2> QED
    BY <2>1, <2>2
<1> QED
  BY <1>1, <1>2, <1>3 DEF SessionInv

LEMMA FlushedStep ==
  ASSUME TypeOK, SessionInv, NEW r \in Requests, NEW p \in Payload, Flushed(r, p)
  PROVE  TypeOK' /\ SessionInv'
<1> DEFINE w == encodePayload(p)
           o == flush(req[r].out, req[r].cookies, w)
<1>1. /\ req[r].open /\ nonce' = nonce + 1
      /\ req' = [req EXCEPT ![r].p = p, ![r].writes = @ + 1, ![r].out = o]
      /\ UNCHANGED <<now, secrets, jar, expect>>
  BY DEF Flushed
<1>2. w \in Wire /\ w.nonce # 0 /\ w = [p |-> p, secret |-> Head(secrets), nonce |-> nonce + 1]
  BY EncodeTyped DEF encodePayload
<1>3. req[r].out \in Cookies /\ req[r].cookies \in Cookies /\ req[r].writes \in Nat
  BY ReqsTyped
<1>4. OutWhole(req[r].out)
  BY DEF SessionInv
<1> HIDE DEF w
<1>5. o \in Cookies /\ OutWhole(o)
  BY <1>2, <1>3, <1>4, FlushWhole
<1> HIDE DEF o
<1>6. /\ req' \in [Requests -> ReqSet]
      /\ req'[r].open = req[r].open /\ req'[r].cookies = req[r].cookies
      /\ req'[r].alone = req[r].alone
      /\ req'[r].p = p /\ req'[r].out = o /\ req'[r].writes = req[r].writes + 1
      /\ \A q \in Requests : q # r => req'[q] = req[q]
  BY <1>1, <1>5, ReqWrite
<1>7. TypeOK'
  BY <1>1, <1>6 DEF TypeOK, ReqSet
<1>8. /\ req[r].writes = 0 => req[r].out = Empty
      /\ req[r].alone => req[r].cookies = Values(jar) /\ \A q \in Requests \ {r} : ~req[q].open
  BY <1>1, Zenon DEF SessionInv, AloneKnows
<1>9. req'[r].writes # 0 /\ (req'[r].writes = 1 => req[r].writes = 0)
  BY <1>3, <1>6
<1>10. req'[r].writes = 1 =>
         \E k \in 1..nonce' :
           req'[r].out = flush(Empty, req'[r].cookies,
                               [p |-> req'[r].p, secret |-> Head(secrets'), nonce |-> k])
  <2>1. nonce + 1 \in 1..nonce'
    BY <1>1 DEF TypeOK
  <2>2. req'[r].writes = 1 => o = flush(Empty, req'[r].cookies, w)
    BY <1>6, <1>8, <1>9 DEF o
  <2>3. w = [p |-> req'[r].p, secret |-> Head(secrets'), nonce |-> nonce + 1]
    BY <1>1, <1>2, <1>6
  <2>4. req'[r].out = o
    BY <1>6
  <2> QED
    BY <2>1, <2>2, <2>3, <2>4, Zenon
<1>11. SessionInv'
  <2>1. UNCHANGED <<jar, expect, now>>
    BY <1>1
  <2>2. OutWhole(req'[r].out)
    BY <1>5, <1>6
  <2>3. req'[r].alone => req'[r].cookies = Values(jar) /\ \A q \in Requests \ {r} : ~req[q].open
    BY <1>6, <1>8
  <2> QED
    BY <1>1, <1>6, <1>9, <1>10, <2>1, <2>2, <2>3, OthersKeep
<1> QED
  BY <1>7, <1>11

LEMMA DestroyStep ==
  ASSUME TypeOK, SessionInv, NEW r \in Requests, Destroy(r)
  PROVE  TypeOK' /\ SessionInv'
<1> DEFINE o == deleteAllCookies(req[r].out, req[r].cookies)
<1>1. /\ req[r].open
      /\ req' = [req EXCEPT ![r].p = Zero, ![r].writes = @ + 1, ![r].out = o]
      /\ UNCHANGED <<now, secrets, jar, nonce, expect>>
  BY DEF Destroy
<1>2. req[r].out \in Cookies /\ req[r].cookies \in Cookies /\ req[r].writes \in Nat
  BY ReqsTyped
<1>3. OutWhole(req[r].out)
  BY DEF SessionInv
<1>4. o \in Cookies /\ OutWhole(o)
  BY <1>2, <1>3, DeleteWhole
<1> HIDE DEF o
<1>5. /\ req' \in [Requests -> ReqSet]
      /\ req'[r].open = req[r].open /\ req'[r].cookies = req[r].cookies
      /\ req'[r].alone = req[r].alone
      /\ req'[r].p = Zero /\ req'[r].out = o /\ req'[r].writes = req[r].writes + 1
      /\ \A q \in Requests : q # r => req'[q] = req[q]
  BY <1>1, <1>4, ReqWrite, ZeroIsPayload
<1>6. TypeOK'
  BY <1>1, <1>5 DEF TypeOK, ReqSet
<1>7. /\ req[r].writes = 0 => req[r].out = Empty
      /\ req[r].alone => req[r].cookies = Values(jar) /\ \A q \in Requests \ {r} : ~req[q].open
  BY <1>1, Zenon DEF SessionInv, AloneKnows
<1>8. req'[r].writes # 0 /\ (req'[r].writes = 1 => req[r].writes = 0)
  BY <1>2, <1>5
<1>9. req'[r].writes = 1 => req'[r].p = Zero /\ req'[r].out = deleteAllCookies(Empty, req'[r].cookies)
  BY <1>5, <1>7, <1>8 DEF o
<1>10. SessionInv'
  <2>1. UNCHANGED <<jar, expect, now>>
    BY <1>1
  <2>2. OutWhole(req'[r].out)
    BY <1>4, <1>5
  <2>3. req'[r].alone => req'[r].cookies = Values(jar) /\ \A q \in Requests \ {r} : ~req[q].open
    BY <1>5, <1>7
  <2> QED
    BY <1>1, <1>5, <1>8, <1>9, <2>1, <2>2, <2>3, OthersKeep
<1> QED
  BY <1>6, <1>10

LEMMA LoseStep ==
  ASSUME TypeOK, SessionInv, NEW r \in Requests, Lose(r)
  PROVE  TypeOK' /\ SessionInv'
<1>1. req[r].open /\ req' = [req EXCEPT ![r] = Closed] /\ UNCHANGED <<now, secrets, jar, nonce, expect>>
  BY DEF Lose
<1>2. req' \in [Requests -> ReqSet] /\ req'[r] = Closed /\ \A q \in Requests : q # r => req'[q] = req[q]
  <2>1. req \in [Requests -> ReqSet] /\ Closed \in ReqSet
    BY ClosedIs DEF TypeOK, ReqSet
  <2> QED
    BY <1>1, <2>1, CloseRecord
<1>3. TypeOK'
  BY <1>1, <1>2 DEF TypeOK, ReqSet
<1>4. UNCHANGED <<jar, expect, now>>
  BY <1>1
<1>5. OutWhole(req'[r].out) /\ ~req'[r].open
  BY <1>2, ClosedIs, EmptyWhole
<1> QED
  BY <1>1, <1>2, <1>3, <1>4, <1>5, OthersKeep

LEMMA SetStep ==
  ASSUME TypeOK, SessionInv, NEW r \in Requests, Set(r)
  PROVE  TypeOK' /\ SessionInv'
<1>1. PICK size \in Sizes :
        Flushed(r, [data |-> nonce + 1, size |-> size, expires |-> Stamp(req[r].p)])
  BY DEF Set
<1>2. req[r].p.expires \in Nat
  BY ReqsTyped DEF Payload
<1>3. Stamp(req[r].p) \in Nat /\ nonce + 1 \in Nat
  <2>1. now \in Nat /\ nonce \in Nat /\ MaxAge \in Nat
    BY SessionAssumption DEF TypeOK
  <2> QED
    BY <1>2, <2>1 DEF Stamp
<1>4. [data |-> nonce + 1, size |-> size, expires |-> Stamp(req[r].p)] \in Payload
  BY <1>3 DEF Payload
<1> QED
  BY <1>1, <1>4, FlushedStep

LEMMA RefreshStep ==
  ASSUME TypeOK, SessionInv, NEW r \in Requests, Refresh(r)
  PROVE  TypeOK' /\ SessionInv'
<1>1. PICK d \in Durations \cup {MaxAge} :
        Flushed(r, [req[r].p EXCEPT !.expires = IF d > 0 THEN now + d ELSE @])
  BY DEF Refresh
<1>2. req[r].p \in Payload
  BY ReqsTyped
<1>3. d \in Nat /\ now \in Nat
  BY SessionAssumption DEF TypeOK
<1>4. [req[r].p EXCEPT !.expires = IF d > 0 THEN now + d ELSE @] \in Payload
  BY <1>2, <1>3 DEF Payload
<1> QED
  BY <1>1, <1>4, FlushedStep

LEMMA OpenStep ==
  ASSUME TypeOK, SessionInv, NEW r \in Requests, Open(r)
  PROVE  TypeOK' /\ SessionInv'
<1> DEFINE c == Values(jar)
           s == NewSession(c)
           lone == {q \in Requests : req[q].open} = {}
           yes == TRUE
           opened == [Closed EXCEPT !.open = yes, !.cookies = c, !.p = s, !.alone = lone]
           told(q) == [req[q] EXCEPT !.alone = @ /\ ~req[q].open]
<1>1. /\ ~req[r].open /\ UNCHANGED <<now, secrets, jar, nonce, expect>>
      /\ req' = [q \in Requests |-> IF q = r THEN opened ELSE told(q)]
  BY DEF Open
<1>2. c \in Cookies /\ s \in Payload
  BY JarTyped, ReadTyped
<1> HIDE DEF c, s
<1>3. yes \in BOOLEAN /\ lone \in BOOLEAN /\ (lone => \A q \in Requests : ~req[q].open)
  OBVIOUS
<1> HIDE DEF lone, yes
<1>4. Closed \in ReqSet /\ Closed.out = Empty /\ Closed.writes = 0
  BY ClosedIs
<1>5. opened \in ReqSet
  BY <1>2, <1>3, <1>4, OpenRecord DEF ReqSet
<1>6. opened.cookies = c /\ opened.out = Empty /\ opened.writes = 0 /\ opened.alone = lone
  BY <1>4 DEF ReqSet
<1> HIDE DEF opened
<1>7. ASSUME NEW q \in Requests
      PROVE  /\ told(q) \in ReqSet
             /\ told(q).open = req[q].open /\ told(q).out = req[q].out /\ told(q).writes = req[q].writes
             /\ req[q].open => ~told(q).alone
  <2>1. req[q] \in ReqSet
    BY ReqsTyped
  <2> DEFINE a == req[q].alone /\ ~req[q].open
  <2>2. a \in BOOLEAN /\ (req[q].open => ~a)
    OBVIOUS
  <2>3. told(q) = [req[q] EXCEPT !.alone = a]
    OBVIOUS
  <2> HIDE DEF a
  <2> QED
    BY <2>1, <2>2, <2>3 DEF ReqSet
<1> HIDE DEF told
<1>8. req' \in [Requests -> ReqSet] /\ req'[r] = opened /\ \A q \in Requests : q # r => req'[q] = told(q)
  BY <1>1, <1>5, <1>7
<1>9. TypeOK'
  BY <1>1, <1>8 DEF TypeOK, ReqSet
<1>10. JarWhole(jar)' /\ ExpectKept'
  BY <1>1 DEF SessionInv, ExpectKept
<1>11. (\A q \in Requests : OutWhole(req[q].out))'
  <2> SUFFICES ASSUME NEW q \in Requests PROVE OutWhole(req'[q].out)
    OBVIOUS
  <2>1. OutWhole(req[q].out)
    BY DEF SessionInv
  <2> QED
    BY <1>6, <1>7, <1>8, <2>1, EmptyWhole
<1>12. AloneKnows'
  <2> SUFFICES ASSUME NEW q \in Requests, req'[q].open
               PROVE  /\ req'[q].writes = 0 => req'[q].out = Empty
                      /\ req'[q].alone =>
                           req'[q].cookies = Values(jar') /\ \A x \in Requests \ {q} : ~req'[x].open
                      /\ req'[q].alone => req'[q].writes # 1
    BY DEF AloneKnows
  <2>1. CASE q = r
    <3>1. req'[q].cookies = Values(jar') /\ req'[q].out = Empty /\ req'[q].writes = 0
      BY <1>1, <1>6, <1>8, <2>1 DEF c
    <3>2. req'[q].alone => \A x \in Requests \ {q} : ~req'[x].open
      BY <1>3, <1>6, <1>7, <1>8, <2>1
    <3> QED
      BY <3>1, <3>2
  <2>2. CASE q # r
    <3>1. req'[q] = told(q)
      BY <1>8, <2>2
    <3>2. req[q].open /\ ~req'[q].alone
      BY <1>7, <3>1
    <3>3. req[q].writes = 0 => req[q].out = Empty
      BY <3>2 DEF SessionInv, AloneKnows
    <3>4. req'[q].writes = req[q].writes /\ req'[q].out = req[q].out
      BY <1>7, <3>1
    <3> QED
      BY <3>2, <3>3, <3>4
  <2> QED
    BY <2>1, <2>2
<1> QED
  BY <1>9, <1>10, <1>11, <1>12 DEF SessionInv

LEMMA RespondStep ==
  ASSUME TypeOK, SessionInv, NEW r \in Requests, Respond(r)
  PROVE  TypeOK' /\ SessionInv'
<1> DEFINE o == req[r].out
           p == req[r].p
           u == IF MaxAge > 0 THEN now + MaxAge ELSE 0
<1>1. /\ req[r].open /\ req' = [req EXCEPT ![r] = Closed]
      /\ jar' = Applied(jar, o) /\ expect' = Expected(req[r])
      /\ UNCHANGED <<now, secrets, nonce>>
  BY DEF Respond
<1>2. req' \in [Requests -> ReqSet] /\ req'[r] = Closed /\ \A q \in Requests : q # r => req'[q] = req[q]
  <2>1. req \in [Requests -> ReqSet] /\ Closed \in ReqSet
    BY ClosedIs DEF TypeOK, ReqSet
  <2> QED
    BY <1>1, <2>1, CloseRecord
<1>3. o \in Cookies /\ p \in Payload /\ req[r].writes \in Nat
  BY ReqsTyped
<1>4. jar \in Jars /\ now \in Nat /\ Values(jar) \in Cookies
  BY JarTyped
<1>5. JarWhole(jar) /\ OutWhole(o) /\ AloneKnows /\ ExpectKept
  BY DEF SessionInv
<1>6. jar' \in Jars /\ JarWhole(jar')
  BY <1>1, <1>3, <1>4, <1>5, AppliedWhole, AppliedAre
<1>7. u \in Nat /\ Head(secrets) \in Nat
  BY <1>4, SessionAssumption, SMTT(30) DEF TypeOK
<1>8. expect' \in [is : {"any", "nothing", "payload"}, p : Payload, secret : Nat, until : Nat]
  BY <1>1, <1>3, <1>7, ZeroIsPayload DEF Expected, TypeOK
<1>9. TypeOK'
  BY <1>1, <1>2, <1>6, <1>8 DEF TypeOK, ReqSet, Jars
<1>10. (\A q \in Requests : OutWhole(req[q].out))'
  BY <1>2, ClosedIs, EmptyWhole DEF SessionInv
<1>11. AloneKnows'
  <2> SUFFICES ASSUME NEW q \in Requests, req'[q].open
               PROVE  ~req'[q].alone /\ (req'[q].writes = 0 => req'[q].out = Empty)
    BY DEF AloneKnows
  <2>1. q # r /\ req'[q] = req[q]
    BY <1>2, ClosedIs
  <2> QED
    BY <1>1, <1>5, <2>1 DEF AloneKnows
<1>12. ExpectKept'
  <2>1. CASE req[r].writes = 0
    <3>1. o = Empty
      BY <1>1, <1>5, <2>1 DEF AloneKnows
    <3>2. jar' = jar
      BY <1>1, <1>4, <3>1, AppliedEmpty
    <3>3. expect' = expect
      BY <1>1, <2>1 DEF Expected
    <3> QED
      BY <1>1, <1>5, <3>2, <3>3 DEF ExpectKept
  <2>2. CASE req[r].writes # 0 /\ (req[r].writes > 1 \/ ~req[r].alone)
    <3>1. expect' = [expect EXCEPT !.is = "any"]
      BY <1>1, <2>2 DEF Expected
    <3>2. expect'.is = "any"
      BY <3>1 DEF TypeOK
    <3> QED
      BY <3>2 DEF ExpectKept
  <2>3. CASE req[r].writes = 1 /\ req[r].alone
    <3>1. /\ p.data = 0 => expect' = [is |-> "nothing", p |-> Zero, secret |-> 0, until |-> 0]
          /\ p.data # 0 => expect' = [is |-> "payload", p |-> p, secret |-> Head(secrets), until |-> u]
      BY <1>1, <2>3 DEF Expected
    <3>2. req[r].cookies = Values(jar)
      BY <1>1, <1>5, <2>3 DEF AloneKnows
    <3>3. \/ p = Zero /\ o = deleteAllCookies(Empty, Values(jar))
          \/ \E k \in 1..nonce :
               o = flush(Empty, Values(jar), [p |-> p, secret |-> Head(secrets), nonce |-> k])
      BY <1>1, <1>5, <2>3, <3>2 DEF AloneKnows
    <3> HIDE DEF o, p, u
    <3>4. CASE p = Zero /\ o = deleteAllCookies(Empty, Values(jar))
      <4>1. HoldsNone(jar')
        BY <1>1, <1>4, <1>5, <3>4, AfterDelete
      <4>2. p.data = 0
        BY <3>4 DEF Zero
      <4>3. expect'.is = "nothing"
        BY <3>1, <4>2
      <4> QED
        BY <4>1, <4>3 DEF ExpectKept
    <3>5. CASE \E k \in 1..nonce :
                 o = flush(Empty, Values(jar), [p |-> p, secret |-> Head(secrets), nonce |-> k])
      <4>1. PICK k \in 1..nonce :
              o = flush(Empty, Values(jar), [p |-> p, secret |-> Head(secrets), nonce |-> k])
        BY <3>5
      <4> DEFINE w == [p |-> p, secret |-> Head(secrets), nonce |-> k]
      <4>2. k \in Nat /\ k # 0
        BY DEF TypeOK
      <4>3. w \in Wire /\ w.nonce # 0 /\ w.p = p /\ w.secret = Head(secrets)
        BY <1>3, <1>7, <4>2 DEF Wire
      <4>4. o = flush(Empty, Values(jar), w)
        BY <4>1
      <4> HIDE DEF w
      <4>5. HoldsOne(jar') /\ WireOf(jar') = w /\ UntilOf(jar') = u
        BY <1>1, <1>4, <1>5, <4>3, <4>4, AfterFlush DEF u
      <4>6. CASE p.data = 0
        <5>1. expect'.is = "nothing" /\ WireOf(jar').p.data = 0
          BY <3>1, <4>3, <4>5, <4>6
        <5> QED
          BY <4>5, <5>1 DEF ExpectKept
      <4>7. CASE p.data # 0
        <5>1. expect' = [is |-> "payload", p |-> p, secret |-> Head(secrets), until |-> u]
          BY <3>1, <4>7
        <5>2. /\ expect'.is = "payload" /\ expect'.p = p /\ expect'.secret = Head(secrets)
              /\ expect'.until = u
          BY <5>1
        <5> QED
          BY <4>3, <4>5, <5>2 DEF ExpectKept
      <4> QED
        BY <4>6, <4>7
    <3> QED
      BY <3>3, <3>4, <3>5
  <2> QED
    BY <1>3, <2>1, <2>2, <2>3
<1> QED
  BY <1>6, <1>9, <1>10, <1>11, <1>12 DEF SessionInv

LEMMA RotateStep ==
  ASSUME TypeOK, SessionInv, Rotate
  PROVE  TypeOK' /\ SessionInv'
<1> DEFINE all == <<Head(secrets) + 1>> \o secrets
           k == IF Len(all) < Keep THEN Len(all) ELSE Keep
<1>1. /\ \A r \in Requests : ~req[r].open
      /\ secrets' = SubSeq(all, 1, k) /\ UNCHANGED <<now, jar, req, nonce, expect>>
  BY DEF Rotate
<1>2. all \in Seq(Nat) /\ Len(all) > 0
  BY DEF TypeOK
<1>3. k \in 1..Len(all)
  BY <1>2, SessionAssumption
<1> HIDE DEF all, k
<1>4. secrets' \in Seq(Nat) /\ secrets' # <<>>
  BY <1>1, <1>2, <1>3
<1>5. TypeOK'
  BY <1>1, <1>4 DEF TypeOK
<1>6. JarWhole(jar)' /\ ExpectKept' /\ (\A r \in Requests : OutWhole(req[r].out))'
  BY <1>1 DEF SessionInv, ExpectKept
<1>7. AloneKnows'
  BY <1>1 DEF AloneKnows
<1> QED
  BY <1>5, <1>6, <1>7 DEF SessionInv

LEMMA TickStep ==
  ASSUME TypeOK, SessionInv, Tick
  PROVE  TypeOK' /\ SessionInv'
<1>1. /\ \A r \in Requests : ~req[r].open
      /\ now' = now + 1 /\ jar' = Alive(jar, now + 1) /\ UNCHANGED <<secrets, req, nonce, expect>>
  BY DEF Tick
<1>2. jar \in Jars /\ now \in Nat /\ now + 1 \in Nat
  BY DEF TypeOK, Jars
<1>3. JarWhole(jar) /\ ExpectKept
  BY DEF SessionInv
<1>4. jar' \in Jars /\ JarWhole(jar')
  BY <1>1, <1>2, <1>3, AliveWhole
<1>5. TypeOK'
  BY <1>1, <1>2, <1>4 DEF TypeOK, Jars
<1>6. AloneKnows' /\ (\A r \in Requests : OutWhole(req[r].out))'
  BY <1>1 DEF AloneKnows, SessionInv
<1> DEFINE stays == UntilOf(jar) = 0 \/ UntilOf(jar) > now + 1
<1>7. /\ HoldsNone(jar) => HoldsNone(jar')
      /\ HoldsOne(jar) => UntilOf(jar) \in Nat
      /\ HoldsOne(jar) /\ stays =>
           HoldsOne(jar') /\ UntilOf(jar') = UntilOf(jar) /\ WireOf(jar') = WireOf(jar)
      /\ HoldsOne(jar) /\ ~stays => HoldsNone(jar')
  BY <1>1, <1>2, <1>3, AliveHolds
<1>8. expect.until \in Nat
  BY DEF TypeOK
<1>9. ExpectKept'
  <2>1. expect.is = "nothing" => HoldsNone(jar') \/ (HoldsOne(jar') /\ WireOf(jar').p.data = 0)
    BY <1>3, <1>7 DEF ExpectKept
  <2>2. expect.is = "payload" =>
          \/ expect.until # 0 /\ now' >= expect.until
          \/ /\ HoldsOne(jar') /\ UntilOf(jar') = expect.until
             /\ WireOf(jar').p = expect.p /\ WireOf(jar').secret = expect.secret
    BY <1>1, <1>2, <1>3, <1>7, <1>8 DEF ExpectKept
  <2> QED
    BY <1>1, <2>1, <2>2 DEF ExpectKept
<1> QED
  BY <1>4, <1>5, <1>6, <1>9 DEF SessionInv

LEMMA SessionStart == ASSUME Init PROVE TypeOK /\ SessionInv
<1>1. jar \in Jars
  BY EmptyCookies DEF Init, Jars
<1>2. /\ now = 1 /\ secrets = <<1>> /\ nonce = 0 /\ jar = Empty
      /\ req = [r \in Requests |-> Closed]
      /\ expect = [is |-> "nothing", p |-> Zero, secret |-> 0, until |-> 0]
  BY DEF Init
<1>3. TypeOK
  BY <1>1, <1>2, ClosedIs, ZeroIsPayload DEF TypeOK, ReqSet, Jars
<1>4. \A r \in Requests : req[r] = Closed
  BY <1>2
<1>5. AloneKnows /\ \A r \in Requests : OutWhole(req[r].out)
  BY <1>4, ClosedIs, EmptyWhole DEF AloneKnows
<1>6. DOMAIN jar = {} /\ DOMAIN Values(jar) = {}
  BY <1>1, <1>2, EmptyCookies, ValuesAre
<1>7. JarWhole(jar)
  BY <1>6 DEF JarWhole, ChunksWhole
<1>8. HoldsNone(jar)
  BY <1>6 DEF HoldsNone
<1>9. ExpectKept
  BY <1>2, <1>8 DEF ExpectKept
<1> QED
  BY <1>3, <1>5, <1>7, <1>9 DEF SessionInv

LEMMA SessionStep == ASSUME TypeOK, SessionInv, [Next]_vars PROVE TypeOK' /\ SessionInv'
<1>1. ASSUME NEW r \in Requests, Open(r) \/ Set(r) \/ Refresh(r) \/ Destroy(r) \/ Respond(r) \/ Lose(r)
      PROVE  TypeOK' /\ SessionInv'
  BY <1>1, OpenStep, SetStep, RefreshStep, DestroyStep, RespondStep, LoseStep
<1>2. CASE UNCHANGED vars
  BY <1>2 DEF vars, TypeOK, SessionInv, AloneKnows, ExpectKept
<1> QED
  BY <1>1, <1>2, RotateStep, TickStep DEF Next

(* What holds of every reachable jar is what is read from it. *)
LEMMA SessionRead == ASSUME TypeOK, SessionInv PROVE NeverMixed /\ ReadBack
<1> DEFINE c == Values(jar)
<1>1. jar \in Jars /\ JarWhole(jar) /\ now \in Nat
  BY JarTyped DEF SessionInv
<1>2. /\ HoldsNone(jar) => readWire(c).is = "none"
      /\ plainName \in DOMAIN jar \/ metaName \in DOMAIN jar =>
           readWire(c) = [is |-> "wire", wire |-> WireOf(jar)]
  BY <1>1, ReadsHeld
<1>3. HoldsNone(jar) \/ plainName \in DOMAIN jar \/ metaName \in DOMAIN jar
  BY DEF HoldsNone
<1> HIDE DEF c
<1>4. readWire(c).is # "garbled"
  BY <1>2, <1>3
<1>5. HoldsNone(jar) => NewSession(c) = Zero
  BY <1>2 DEF NewSession
<1>6. HoldsOne(jar) => readWire(c) = [is |-> "wire", wire |-> WireOf(jar)]
  BY <1>2 DEF HoldsOne
<1>7. HoldsOne(jar) =>
        \/ NewSession(c) = WireOf(jar).p
        \/ NewSession(c) = Zero /\ ~Listed(WireOf(jar))
        \/ NewSession(c) = Zero /\ WireOf(jar).p.expires # 0 /\ now > WireOf(jar).p.expires
  BY <1>6 DEF NewSession
<1>8. Zero.data = 0
  BY DEF Zero
<1>9. expect.is = "nothing" => NewSession(c).data = 0
  BY <1>5, <1>7, <1>8 DEF SessionInv, ExpectKept
<1>10. expect.is = "payload" =>
         \/ NewSession(c) = expect.p
         \/ now > expect.p.expires /\ expect.p.expires # 0
         \/ now >= expect.until /\ expect.until # 0
         \/ ~Listed(expect)
  <2>1. WireOf(jar).secret = expect.secret => (Listed(WireOf(jar)) <=> Listed(expect))
    BY DEF Listed
  <2> QED
    BY <1>7, <2>1 DEF SessionInv, ExpectKept
<1>11. expect.is \in {"any", "nothing", "payload"}
  BY DEF TypeOK
<1> QED
  BY <1>4, <1>9, <1>10, <1>11 DEF NeverMixed, ReadBack, c

(* NeverMixed for every number of requests, every cookie size, age and     *)
(* rotation: whatever the overlap of requests and the order of their       *)
(* responses, flush and deleteAllCookies leave in the browser no meta      *)
(* cookie over the chunks of two wire strings.                             *)
THEOREM SessionsNeverMixed == Spec => []NeverMixed
<1>1. Init => TypeOK /\ SessionInv
  BY SessionStart
<1>2. TypeOK /\ SessionInv /\ [Next]_vars => (TypeOK /\ SessionInv)'
  BY SessionStep
<1>3. TypeOK /\ SessionInv => NeverMixed
  BY SessionRead
<1> QED
  BY <1>1, <1>2, <1>3, PTL DEF Spec

(* ReadBack for every number of requests, every cookie size, age and       *)
(* rotation: what a request that ran alone wrote with Set, Refresh or      *)
(* Destroy is what NewSession decodes next, until it expires or its secret *)
(* is retired.                                                             *)
THEOREM SessionsReadBack == Spec => []ReadBack
<1>1. Init => TypeOK /\ SessionInv
  BY SessionStart
<1>2. TypeOK /\ SessionInv /\ [Next]_vars => (TypeOK /\ SessionInv)'
  BY SessionStep
<1>3. TypeOK /\ SessionInv => ReadBack
  BY SessionRead
<1> QED
  BY <1>1, <1>2, <1>3, PTL DEF Spec
=============================================================================
