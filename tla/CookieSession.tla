---------------------------- MODULE CookieSession ----------------------------
(***************************************************************************)
(* The encrypted session kept in the browser's cookies                     *)
(* (packages/cookiesession).  A payload that fits goes into one plain      *)
(* cookie; a larger one is split over numbered chunk cookies and a meta    *)
(* cookie that counts them.  The server keeps nothing: a request works on  *)
(* the cookies it was sent with, and what it writes reaches the browser    *)
(* only with its response, while other requests are under way.             *)
(*                                                                         *)
(* A wire string is the record of what was encrypted, with the secret that *)
(* did it and the nonce that makes it unlike every other; its i-th chunk   *)
(* is <<wire, i>>.  Of a response's Set-Cookie headers, which the browser  *)
(* applies in order, only the last for each name matters: `out' keeps it.  *)
(***************************************************************************)
EXTENDS Integers, Sequences, FiniteSets

CONSTANTS
  Requests,       \* the requests the browser can have under way at once
  Sizes,          \* the lengths of the wire strings
  maxChunkBytes,  \* the most a cookie holds
  MaxAge,         \* opts.MaxAge, 0 for a cookie of the browser's session
  Durations,      \* the arguments of Refresh
  Keep,           \* how many secrets a deployment lists
  MaxFlushes, MaxClock, MaxSecrets, MaxWrites   \* bounds

ASSUME SessionAssumption ==
  /\ Sizes \subseteq Nat \ {0} /\ Sizes # {}
  /\ maxChunkBytes \in Nat \ {0} /\ MaxAge \in Nat /\ Durations \subseteq Nat \ {0}
  /\ Keep \in Nat \ {0} /\ {MaxFlushes, MaxClock, MaxSecrets, MaxWrites} \subseteq Nat

VARIABLES
  now,      \* the time
  secrets,  \* the ids of the listed secrets, newest first
  jar,      \* the browser's cookies: name -> [value, until]
  req,      \* each request: the cookies it carries, its Session and its response
  nonce,    \* how many wire strings were ever encrypted
  expect    \* what the next request ought to read, "any" when the writers overlapped

vars == <<now, secrets, jar, req, nonce, expect>>

Zero == [data |-> 0, size |-> CHOOSE n \in Sizes : \A m \in Sizes : n <= m, expires |-> 0]
NoWire == [p |-> Zero, secret |-> 0, nonce |-> 0]
Gone == [wire |-> NoWire, n |-> 0]       \* the value of a deletion cookie

(* splitChunks: how many cookies a wire string takes. *)
splitChunks(len) ==
  IF len <= maxChunkBytes THEN 1 ELSE (len + maxChunkBytes - 1) \div maxChunkBytes

MaxChunks == CHOOSE n \in {splitChunks(len) : len \in Sizes} :
               \A len \in Sizes : splitChunks(len) <= n

plainName == <<"plain", 0>>
metaName == <<"meta", 0>>
chunkName(i) == <<"chunk", i>>
Names == {plainName, metaName} \cup {chunkName(i) : i \in 0..(MaxChunks - 1)}

Empty == <<>>    \* no cookie at all
-----------------------------------------------------------------------------
(* Secrets.Decode picks the secret by the id in the wire string; a session *)
(* whose secret is no longer listed cannot be read.                        *)
Listed(w) == \E i \in DOMAIN secrets : secrets[i] = w.secret

encodePayload(p) == [p |-> p, secret |-> Head(secrets), nonce |-> nonce + 1]

(* readPrevChunkCount: what the meta cookie of the REQUEST says. *)
readPrevChunkCount(cookies) ==
  IF metaName \in DOMAIN cookies THEN cookies[metaName].n ELSE 0

(* readWire: the plain cookie if the request has one, else the chunks the  *)
(* meta cookie counts, joined.  Chunks that do not make up one wire string *)
(* decrypt to nothing: "garbled".                                          *)
readWire(cookies) ==
  IF plainName \in DOMAIN cookies
    THEN [is |-> "wire", wire |-> cookies[plainName].wire]
    ELSE LET n == readPrevChunkCount(cookies)
             part(i) == cookies[chunkName(i)]
         IN  IF n = 0 \/ \E i \in 0..(n - 1) : chunkName(i) \notin DOMAIN cookies
               THEN [is |-> "none", wire |-> NoWire]
               ELSE IF /\ splitChunks(part(0).wire.p.size) = n
                       /\ \A i \in 0..(n - 1) : part(i) = [wire |-> part(0).wire, n |-> i]
                      THEN [is |-> "wire", wire |-> part(0).wire]
                      ELSE [is |-> "garbled", wire |-> NoWire]

(* NewSession: the payload of the request's cookies; zero when there is    *)
(* none, when it cannot be decoded and when it has expired.                *)
NewSession(cookies) ==
  LET r == readWire(cookies)
      p == r.wire.p
  IN  IF r.is # "wire" \/ ~Listed(r.wire) \/ (p.expires # 0 /\ now > p.expires)
        THEN Zero
        ELSE p

Values(cookies) == [name \in DOMAIN cookies |-> cookies[name].value]

(* setCookie and deleteCookie over the response written so far. *)
header(out, name, value) ==
  [x \in DOMAIN out \cup {name} |-> IF x = name THEN value ELSE out[x]]

headers(out, names, valueOf(_)) ==
  [x \in DOMAIN out \cup names |-> IF x \in names THEN valueOf(x) ELSE out[x]]

deleteAll(out, names) == LET gone(x) == Gone IN headers(out, names, gone)

(* flush, the single-cookie path: the chunks the REQUEST carried go, the   *)
(* plain cookie is set.                                                    *)
flushPlain(out, cookies, w) ==
  LET prev == readPrevChunkCount(cookies)
      old == {chunkName(i) : i \in 0..(prev - 1)} \cup (IF prev > 0 THEN {metaName} ELSE {})
  IN  header(deleteAll(out, old), plainName, [wire |-> w, n |-> 0])

(* Mutant: the meta cookie is written only when the request had none. *)
flushChunksMetaOnce(out, cookies, w) ==
  LET n == splitChunks(w.p.size)
      old == (IF plainName \in DOMAIN cookies THEN {plainName} ELSE {})
             \cup {chunkName(i) : i \in n..(readPrevChunkCount(cookies) - 1)}
      value(x) == [wire |-> w, n |-> x[2]]
      meta == IF metaName \in DOMAIN cookies THEN cookies[metaName].n ELSE n
  IN  headers(header(deleteAll(out, old), metaName, [wire |-> NoWire, n |-> meta]),
              {chunkName(i) : i \in 0..(n - 1)}, value)

(* Mutant: the plain cookie of the smaller session stays. *)
flushChunksKeepsPlain(out, cookies, w) ==
  LET n == splitChunks(w.p.size)
      value(x) == [wire |-> w, n |-> x[2]]
  IN  headers(header(out, metaName, [wire |-> NoWire, n |-> n]),
              {chunkName(i) : i \in 0..(n - 1)}, value)

(* flush, the chunked path: the plain cookie goes if the REQUEST carried   *)
(* one, and so do the chunks beyond the new ones.                          *)
flushChunks(out, cookies, w) ==
  LET n == splitChunks(w.p.size)
      old == (IF plainName \in DOMAIN cookies THEN {plainName} ELSE {})
             \cup {chunkName(i) : i \in n..(readPrevChunkCount(cookies) - 1)}
      value(x) == [wire |-> w, n |-> x[2]]
  IN  headers(header(deleteAll(out, old), metaName, [wire |-> NoWire, n |-> n]),
              {chunkName(i) : i \in 0..(n - 1)}, value)

flush(out, cookies, w) ==
  IF splitChunks(w.p.size) = 1 THEN flushPlain(out, cookies, w) ELSE flushChunks(out, cookies, w)

(* deleteAllCookies: the plain cookie and the chunks the REQUEST carried. *)
deleteAllCookies(out, cookies) ==
  LET prev == readPrevChunkCount(cookies)
  IN  deleteAll(out, {plainName} \cup (IF prev > 0 THEN {metaName} ELSE {})
                       \cup {chunkName(i) : i \in 0..(prev - 1)})

(* The browser applies a response: a deletion removes the cookie, a set    *)
(* one lives for MaxAge.                                                   *)
Applied(cookies, out) ==
  LET left == (DOMAIN cookies \ DOMAIN out) \cup {x \in DOMAIN out : out[x] # Gone}
  IN  [x \in left |-> IF x \in DOMAIN out
                        THEN [value |-> out[x], until |-> IF MaxAge > 0 THEN now + MaxAge ELSE 0]
                        ELSE cookies[x]]

(* A cookie past its Max-Age is no longer sent. *)
Alive(cookies, t) ==
  [x \in {y \in DOMAIN cookies : cookies[y].until = 0 \/ cookies[y].until > t} |-> cookies[x]]
-----------------------------------------------------------------------------
Closed == [open |-> FALSE, cookies |-> Empty, p |-> Zero,
           out |-> Empty, writes |-> 0, alone |-> TRUE]

Init ==
  /\ now = 1 /\ secrets = <<1>> /\ nonce = 0
  /\ jar = Empty
  /\ req = [r \in Requests |-> Closed]
  /\ expect = [is |-> "nothing", p |-> Zero, secret |-> 0, until |-> 0]

(* A request arrives with the cookies of the moment and NewSession decodes *)
(* them.  (Nothing ever reads the dirty and destroyed marks to decide what *)
(* to write, so they are left out.)                                        *)
Open(r) ==
  /\ ~req[r].open
  /\ LET others == {q \in Requests : req[q].open}
         cookies == Values(jar)
         opened == [Closed EXCEPT
                      !.open = TRUE, !.cookies = cookies, !.p = NewSession(cookies),
                      !.alone = (others = {})]
     IN  req' = [q \in Requests |-> IF q = r THEN opened
                                    ELSE [req[q] EXCEPT !.alone = @ /\ ~req[q].open]]
  /\ UNCHANGED <<now, secrets, jar, nonce, expect>>

(* Write p to the response of request r. *)
Flushed(r, p) ==
  /\ req[r].open /\ req[r].writes < MaxWrites /\ nonce < MaxFlushes
  /\ nonce' = nonce + 1
  /\ req' = [req EXCEPT ![r].p = p, ![r].writes = @ + 1,
                        ![r].out = flush(@, req[r].cookies, encodePayload(p))]
  /\ UNCHANGED <<now, secrets, jar, expect>>

Stamp(p) == IF MaxAge > 0 THEN now + MaxAge ELSE p.expires

(* Set, and Update, which differs in where the new data comes from. *)
Set(r) ==
  \E size \in Sizes :
    Flushed(r, [data |-> nonce + 1, size |-> size, expires |-> Stamp(req[r].p)])

(* Refresh moves the expiry only; after Destroy it writes the zero value. *)
Refresh(r) ==
  \E d \in Durations \cup {MaxAge} :
    Flushed(r, [req[r].p EXCEPT !.expires = IF d > 0 THEN now + d ELSE @])

Destroy(r) ==
  /\ req[r].open /\ req[r].writes < MaxWrites
  /\ req' = [req EXCEPT ![r].p = Zero, ![r].writes = @ + 1,
                        ![r].out = deleteAllCookies(@, req[r].cookies)]
  /\ UNCHANGED <<now, secrets, jar, nonce, expect>>

(* What the next request ought to read: the payload of the last response,  *)
(* if its request was alone and wrote once.                                *)
Expected(q) ==
  IF q.writes = 0 THEN expect
  ELSE IF q.writes > 1 \/ ~q.alone THEN [expect EXCEPT !.is = "any"]
  ELSE IF q.p.data = 0 THEN [is |-> "nothing", p |-> Zero, secret |-> 0, until |-> 0]
  ELSE [is |-> "payload", p |-> q.p, secret |-> Head(secrets),
        until |-> IF MaxAge > 0 THEN now + MaxAge ELSE 0]

(* The response reaches the browser. *)
Respond(r) ==
  /\ req[r].open
  /\ jar' = Applied(jar, req[r].out)
  /\ expect' = Expected(req[r])
  /\ req' = [req EXCEPT ![r] = Closed]
  /\ UNCHANGED <<now, secrets, nonce>>

(* The connection breaks first: what the request wrote is lost. *)
Lose(r) ==
  /\ req[r].open
  /\ req' = [req EXCEPT ![r] = Closed]
  /\ UNCHANGED <<now, secrets, jar, nonce, expect>>

(* A deployment with a new secret in front; the oldest drop out.  The      *)
(* requests of the old process have been drained.                          *)
Rotate ==
  /\ \A r \in Requests : ~req[r].open
  /\ Head(secrets) < MaxSecrets
  /\ LET all == <<Head(secrets) + 1>> \o secrets
     IN  secrets' = SubSeq(all, 1, IF Len(all) < Keep THEN Len(all) ELSE Keep)
  /\ UNCHANGED <<now, jar, req, nonce, expect>>

(* Time passes, in units that are long against a request. *)
Tick ==
  /\ now < MaxClock /\ \A r \in Requests : ~req[r].open
  /\ now' = now + 1
  /\ jar' = Alive(jar, now + 1)
  /\ UNCHANGED <<secrets, req, nonce, expect>>

Next ==
  \/ \E r \in Requests : Open(r) \/ Set(r) \/ Refresh(r) \/ Destroy(r) \/ Respond(r) \/ Lose(r)
  \/ Rotate
  \/ Tick

Spec == Init /\ [][Next]_vars
-----------------------------------------------------------------------------
(* The chunks the browser holds under a meta cookie are those of one write *)
(* (flush, deleteAllCookies): whatever the overlap of requests, their      *)
(* repeated writes and the order of their responses, a session is never    *)
(* put together from the chunks of two.                                    *)
NeverMixed == readWire(Values(jar)).is # "garbled"

(* A request that ran alone and wrote once is read back by the next one,   *)
(* be it a value of any size, a refresh or a deletion, until the payload   *)
(* expires, the cookies do or the secret is retired (NewSession after      *)
(* Set, Refresh, Destroy).                                                 *)
ReadBack ==
  CASE expect.is = "any" -> TRUE
    [] expect.is = "nothing" -> NewSession(Values(jar)).data = 0
    [] expect.is = "payload" ->
         \/ NewSession(Values(jar)) = expect.p
         \/ now > expect.p.expires /\ expect.p.expires # 0
         \/ now >= expect.until /\ expect.until # 0
         \/ ~Listed(expect)

Payload == [data : Nat, size : Sizes, expires : Nat]
Wire == [p : Payload, secret : Nat, nonce : Nat]
Value == [wire : Wire, n : Nat]
Over(names, values) == UNION {[D -> values] : D \in SUBSET names}

AllNames == {plainName, metaName} \cup {chunkName(i) : i \in Nat}
Cookies == Over(AllNames, Value)

TypeOK ==
  /\ now \in Nat /\ nonce \in Nat
  /\ secrets \in Seq(Nat) /\ secrets # <<>>
  /\ jar \in Over(AllNames, [value : Value, until : Nat])
  /\ req \in [Requests -> [open : BOOLEAN, cookies : Cookies, p : Payload, out : Cookies,
                           writes : Nat, alone : BOOLEAN]]
  /\ expect \in [is : {"any", "nothing", "payload"}, p : Payload, secret : Nat, until : Nat]

(* A meta cookie comes with all the chunks it counts, of one wire string.  *)
ChunksWhole(cookies) ==
  metaName \in DOMAIN cookies /\ cookies[metaName] # Gone =>
    LET w == cookies[chunkName(0)].wire
    IN  /\ chunkName(0) \in DOMAIN cookies
        /\ w.nonce # 0 /\ cookies[metaName].n = splitChunks(w.p.size)
        /\ \A i \in 0..(cookies[metaName].n - 1) :
             chunkName(i) \in DOMAIN cookies /\ cookies[chunkName(i)] = [wire |-> w, n |-> i]

(* What NeverMixed rests on: this is so of the jar, where all of them end  *)
(* together, and of every response, which says nothing of a chunk without  *)
(* saying something of the meta cookie.                                    *)
JarWhole(held) ==
  /\ ChunksWhole(Values(held))
  /\ \A x \in DOMAIN held : held[x].value # Gone
  /\ metaName \in DOMAIN held =>
       \A i \in 0..(held[metaName].value.n - 1) : held[chunkName(i)].until = held[metaName].until

OutWhole(out) ==
  ChunksWhole(out) /\ (metaName \in DOMAIN out \/ \A i \in Nat : chunkName(i) \notin DOMAIN out)

(* What ReadBack rests on: a request that has been alone so far carries    *)
(* what the jar holds, and its one write is in its response; the jar holds *)
(* one session or none after such a response, until it ends.               *)
AloneKnows ==
  \A r \in Requests : req[r].open =>
    /\ req[r].writes = 0 => req[r].out = Empty
    /\ req[r].alone => req[r].cookies = Values(jar) /\ \A q \in Requests \ {r} : ~req[q].open
    /\ req[r].alone /\ req[r].writes = 1 =>
         \/ req[r].p = Zero /\ req[r].out = deleteAllCookies(Empty, req[r].cookies)
         \/ \E k \in 1..nonce :
              req[r].out = flush(Empty, req[r].cookies,
                                 [p |-> req[r].p, secret |-> Head(secrets), nonce |-> k])

HoldsNone(held) == plainName \notin DOMAIN held /\ metaName \notin DOMAIN held
HoldsOne(held) == plainName \in DOMAIN held <=> metaName \notin DOMAIN held
WireOf(held) == IF plainName \in DOMAIN held THEN held[plainName].value.wire
                ELSE held[chunkName(0)].value.wire
UntilOf(held) == IF plainName \in DOMAIN held THEN held[plainName].until ELSE held[metaName].until

ExpectKept ==
  /\ expect.is = "nothing" => HoldsNone(jar) \/ (HoldsOne(jar) /\ WireOf(jar).p.data = 0)
  /\ expect.is = "payload" =>
       \/ expect.until # 0 /\ now >= expect.until
       \/ /\ HoldsOne(jar) /\ UntilOf(jar) = expect.until
          /\ WireOf(jar).p = expect.p /\ WireOf(jar).secret = expect.secret

SessionInv == JarWhole(jar) /\ (\A r \in Requests : OutWhole(req[r].out)) /\ AloneKnows /\ ExpectKept
=============================================================================
