----------------------------- MODULE FormTokens -----------------------------
(***************************************************************************)
(* How the token of Csrf.tla gets into the forms of a page.  There are     *)
(* four ways, and they meet in one document:                               *)
(*                                                                         *)
(*   - a page lowered to Go: the build splices the hidden input into the   *)
(*     string literals of the compiled page (svelte_js2go/lower_csrf.go);  *)
(*   - a page of the Node sidecar: the server splices it into the HTML the *)
(*     sidecar answers (csrfinject.go), and the build splices it into the  *)
(*     source the browser's copy of the page is compiled from, so that     *)
(*     hydration finds it (csrffallback/lower.go);                         *)
(*   - in the browser, after hydration and after each navigation, the      *)
(*     entry splices it into every POST form without one (cliententry.go). *)
(*                                                                         *)
(* Markup is a sequence of lexemes: the scanners differ in what they take  *)
(* for the end of a tag and for an attribute, and agree on what they do    *)
(* with it.  Names of elements other than forms, their text and the bytes  *)
(* of names and spaces are left out.                                       *)
(***************************************************************************)
EXTENDS Integers, Sequences, SequencesExt, FiniteSetsExt

CONSTANTS
  Sources,     \* the pages an author writes
  Landings,    \* those a navigation starts from or leads to
  Minted       \* the tokens the server hands out

VARIABLES
  route,       \* the page: [src, mode, csrf, actions, chain]
  stage,       \* "source", "failed", "built", "served" or "live"
  html,        \* the page's HTML as the server sent it
  dom,         \* the document, after hydration
  global,      \* window.__sveltego__.csrfToken
  came,        \* how the browser came to the page: "load", "mount" or "swap"
  before,      \* the global's token while the page was mounted
  target,      \* the element the entry splices below: "body", or "app" of a shell
  pending      \* the microtask that is queued: "none", "splice" or "render"

formVars == <<route, stage, html, dom, global, came, before, target, pending>>

NoToken == ""
-----------------------------------------------------------------------------
(* Lexemes. *)

Lex(is) == [is |-> is, name |-> "", value |-> "", how |-> ""]
Attr(name, value, how) == [is |-> "attr", name |-> name, value |-> value, how |-> how]
Form == Lex("<form")
Close == Lex(">")
SelfClose == Lex("/>")
EndForm == Lex("</form>")
Script == Lex("<script>")
EndScript == Lex("</script>")
Child == Lex("child")     \* a component of the author's, whose own markup is a POST form
Hole == Lex("${}")        \* an interpolation between two quasis of the compiled page

(* The hidden input a splicer writes, and the one an author may write:     *)
(* byte for byte the same up to its value, or in some other order.         *)
Input(value) == [is |-> "input", name |-> "_csrf_token", value |-> value, how |-> "exact"]
Own(how) == [is |-> "input", name |-> "_csrf_token", value |-> "own", how |-> how]

FormTag(s, i) == s[i].is = "<form"
Ends(s, i) == s[i].is \in {">", "/>"}
First(I) == IF I = {} THEN 0 ELSE Min(I)

(* spliceFormInQuasi, Rewrite and processFormRange with their scanner's    *)
(* view of a tag: [end, isPost, nocsrf, alreadyInjected], whose end is 0   *)
(* when the scan gives up.  A tag is copied as it is unless it posts; then *)
(* it loses nocsrf, or has the input already, or gets it.                  *)
Spliced(s, scan(_, _), stripped(_, _), input) ==
  LET open(i) == CHOOSE t \in 1..i : FormTag(s, t) /\ \A k \in t+1..i : ~FormTag(s, k)
      tag(i) == scan(s, open(i))
      within(i) == /\ \E t \in 1..i : FormTag(s, t)
                   /\ tag(i).end >= i /\ tag(i).isPost
      piece(i) ==
        IF ~within(i) THEN <<s[i]>>
        ELSE IF tag(i).nocsrf THEN (IF s[i].name = "nocsrf" THEN stripped(s, i) ELSE <<s[i]>>)
        ELSE IF i = tag(i).end /\ ~tag(i).alreadyInjected THEN <<s[i], input>>
        ELSE <<s[i]>>
  IN  FlattenSeq([i \in DOMAIN s |-> piece(i)])

Tag(end, isPost, nocsrf, alreadyInjected) ==
  [end |-> end, isPost |-> isPost, nocsrf |-> nocsrf, alreadyInjected |-> alreadyInjected]
Drop(s, i) == <<>>
-----------------------------------------------------------------------------
(* The build-time pass over a compiled page. *)

(* Mutant: the first '>' ends the tag, quoted or not. *)
quasiTagEndUnquoted(q, t) ==
  First({i \in t+1..Len(q) : Ends(q, i) \/ q[i].value = "a>b"})

(* scanFormOpenTag, its walk: to the '>' outside quotes, or to the end of  *)
(* the quasi, where the tag goes on behind an interpolation.               *)
quasiTagEnd(q, t) == First({i \in t+1..Len(q) : Ends(q, i)})

(* scanFormOpenTag, its flags.  Only the pass's own bytes count as an      *)
(* input that is there already.                                            *)
quasiTag(q, t) ==
  LET end == quasiTagEnd(q, t)
      attrs == {q[i] : i \in t+1..end}
  IN  Tag(end,
          q[end].is # "/>" /\ \E a \in attrs : a.name = "method" /\ a.value = "post",
          \E a \in attrs : a.name = "nocsrf",
          end < Len(q) /\ q[end+1].is = "input" /\ q[end+1].how = "exact")

quasiScan(q, t) == IF quasiTagEnd(q, t) = 0 THEN Tag(0, FALSE, FALSE, FALSE) ELSE quasiTag(q, t)

spliceFormInQuasi(q, token) == Spliced(q, quasiScan, Drop, Input(token))

(* rewriteFormsInTemplateLiteral: quasi by quasi; the interpolations stay  *)
(* where they were.                                                        *)
rewriteFormsInTemplateLiteral(s, token) ==
  LET holes == {0, Len(s) + 1} \cup {i \in DOMAIN s : s[i] = Hole}
      next(i) == Min({h \in holes : h > i})
      upTo(i) == spliceFormInQuasi(SubSeq(s, i + 1, next(i) - 1), token)
                 \o (IF next(i) <= Len(s) THEN <<Hole>> ELSE <<>>)
  IN  FlattenSeq([i \in 1..Len(s)+1 |-> IF i - 1 \in holes THEN upTo(i - 1) ELSE <<>>])
-----------------------------------------------------------------------------
(* The server's pass over the sidecar's HTML, where everything is printed. *)

htmlTagEnd(s, t) == First({i \in t+1..Len(s) : Ends(s, i)})

(* hasInjectedHiddenCSRF: in any order and quoting. *)
hasInjectedHiddenCSRF(s, i) == i <= Len(s) /\ s[i].is = "input" /\ s[i].name = "_csrf_token"

htmlScan(s, t) ==
  LET end == htmlTagEnd(s, t)
      attrs == {s[i] : i \in t+1..end}
  IN  Tag(end,
          s[end].is # "/>" /\ \E a \in attrs : a.name = "method" /\ a.value = "post",
          \E a \in attrs : a.name = "nocsrf",
          hasInjectedHiddenCSRF(s, end + 1))

Rewrite(s, token) == Spliced(s, htmlScan, Drop, Input(token))
-----------------------------------------------------------------------------
(* The build-time pass over the source of a sidecar page. *)

(* nextSkipBlock: the script blocks, and whether one is left open. *)
Unterminated(s) ==
  \E i \in DOMAIN s : s[i] = Script /\ \A k \in i+1..Len(s) : s[k] # EndScript
Skipped(s, i) ==
  \E a \in 1..i : s[a] = Script /\ \A k \in a..i-1 : s[k] # EndScript

(* scanFormOpenTag, its walk: quotes and the braces of a value are         *)
(* matched, those of an attachment are not, and its arrow has a '>'.       *)
sourceTagEnd(s, t) ==
  First({i \in t+1..Len(s) : Ends(s, i) \/ s[i].how = "attach"})

(* Mutant: a form that opts out gets the input all the same. *)
sourceScanForgetsOptOut(s, t) ==
  LET end == sourceTagEnd(s, t)
  IN  Tag(IF Skipped(s, t) THEN 0 ELSE end,
          s[end].is # "/>" /\ \E i \in t+1..end : s[i].name = "method" /\ s[i].value = "post" /\ s[i].how = "quoted",
          FALSE,
          hasInjectedHiddenCSRF(s, end + 1))

(* scanFormOpenTag, its flags: a method counts when it is quoted. *)
sourceScan(s, t) ==
  LET end == sourceTagEnd(s, t)
      attrs == {s[i] : i \in t+1..end}
  IN  Tag(IF Skipped(s, t) THEN 0 ELSE end,
          s[end].is # "/>"
            /\ \E a \in attrs : a.name = "method" /\ a.value = "post" /\ a.how = "quoted",
          \E a \in attrs : a.name = "nocsrf",
          hasInjectedHiddenCSRF(s, end + 1))

(* The attribute goes; of a braced value the closing brace stays. *)
sourceStripped(s, i) == IF s[i].how = "mustache" THEN <<Lex("}")>> ELSE <<>>

processFormRange(s) == Spliced(s, sourceScan, sourceStripped, Input("mustache"))

(* Lower: the markup outside the script blocks, which sourceScan passes    *)
(* over.  Relative imports of the lowered copy are made absolute.          *)
Lower(s) == processFormRange(s)
-----------------------------------------------------------------------------
(* What Svelte does with a page: it drops scripts, leaves out attachments, *)
(* quotes attributes, closes a form that closes itself, and renders a      *)
(* component's own markup in its place.                                    *)
ChildMarkup == <<Form, Attr("method", "post", "quoted"), Close, EndForm>>

Printed(x, token) ==
  CASE x.is = "attr" /\ x.how = "attach" -> <<>>
    [] x.is = "attr" /\ x.how # "attach" -> <<[x EXCEPT !.how = "quoted"]>>
    [] x.is = "input" /\ x.value = "mustache" -> <<Input(token)>>
    [] x = Child -> ChildMarkup
    [] x = SelfClose -> <<Close, EndForm>>
    [] OTHER -> <<x>>

Visible(s) == FlattenSeq([i \in DOMAIN s |-> IF Skipped(s, i) \/ s[i] = EndScript THEN <<>> ELSE <<s[i]>>])
Rendered(s, token) ==
  LET v == Visible(s) IN FlattenSeq([i \in DOMAIN v |-> Printed(v[i], token)])

(* The compiled page: a dynamic attribute is a call between two quasis. *)
Compiled(s) ==
  LET v == Visible(s)
      quasi(x) == IF x.how = "mustache" THEN <<Hole, [x EXCEPT !.how = "hole"]>>
                  ELSE Printed(x, NoToken)
  IN  FlattenSeq([i \in DOMAIN v |-> quasi(v[i])])

(* Whether Svelte parses it. *)
Parses(s) ==
  \A i \in DOMAIN s :
    /\ s[i].is # "}"
    /\ FormTag(s, i) => LET end == First({k \in i+1..Len(s) : Ends(s, k)})
                        IN  \A k \in i+1..end-1 : s[k].is = "attr"
-----------------------------------------------------------------------------
(* A route.  A token is minted for a page with actions whose options leave *)
(* CSRF on; the splicers look at the option alone.                         *)
TokenOf(r) == IF r.actions /\ r.csrf THEN Minted ELSE {NoToken}

(* emitClientEntry: what the browser's copy is compiled from. *)
ClientSource(r) == IF r.mode = "fallback" /\ r.csrf THEN Lower(r.src) ELSE r.src

(* The page's HTML: Render of the lowered page, renderFallback, or a shell *)
(* with nothing in it.                                                     *)
Transpiled(r, token) ==
  LET c == Compiled(r.src)
      w == IF r.csrf THEN rewriteFormsInTemplateLiteral(c, token) ELSE c
  IN  FlattenSeq([i \in DOMAIN w |-> IF w[i] = Hole THEN <<>>
                                     ELSE IF w[i].how = "hole" THEN <<[w[i] EXCEPT !.how = "quoted"]>>
                                     ELSE Printed(w[i], token)])

renderFallback(r, token) ==
  LET body == Rendered(r.src, NoToken) IN IF r.csrf THEN Rewrite(body, token) ELSE body

ServerHtml(r, token) ==
  CASE r.mode = "transpile" -> Transpiled(r, token)
    [] r.mode = "fallback" -> renderFallback(r, token)
    [] r.mode = "shell" -> <<>>

(* The end of the form whose tag is at t. *)
FormEnd(s, t) == First({i \in t+1..Len(s) : s[i] = EndForm})
Posts(s, t) == \E i \in t+1..htmlTagEnd(s, t) : s[i].name = "method" /\ s[i].value = "post"
Inputs(s, t) == {i \in t+1..FormEnd(s, t) : s[i].is = "input"}

(* Mutant: the first form only. *)
InjectCSRFOnce(s, token) ==
  IF token = NoToken THEN s
  ELSE LET due(t) == FormTag(s, t) /\ Posts(s, t) /\ Inputs(s, t) = {}
           end == First({htmlTagEnd(s, t) : t \in {u \in DOMAIN s : due(u)}})
       IN  FlattenSeq([i \in DOMAIN s |-> IF i = end THEN <<s[i], Input(token)>> ELSE <<s[i]>>])

(* __sveltegoInjectCSRF: every POST form that has no such input. *)
InjectCSRF(s, token) ==
  IF token = NoToken THEN s
  ELSE LET due(t) == FormTag(s, t) /\ Posts(s, t) /\ Inputs(s, t) = {}
           ends == {htmlTagEnd(s, t) : t \in {u \in DOMAIN s : due(u)}}
       IN  FlattenSeq([i \in DOMAIN s |-> IF i \in ends THEN <<s[i], Input(token)>> ELSE <<s[i]>>])
-----------------------------------------------------------------------------
Modes == {"transpile", "fallback", "shell"}
Route(s, chains) ==
  [src : {s}, mode : Modes, csrf : BOOLEAN, actions : BOOLEAN, chain : chains]

FormsInit ==
  /\ \E s \in Sources : route \in Route(s, IF s \in Landings THEN {"none", "c"} ELSE {"none"})
  /\ stage = "source" /\ html = <<>> /\ dom = <<>> /\ global = NoToken
  /\ came = "load" /\ before = NoToken /\ target = "body" /\ pending = "none"

(* Build: Lower refuses an open script block, Vite a copy that does not    *)
(* parse, and the lowering to Go a page with components.                   *)
Buildable(r) ==
  /\ ~Unterminated(r.src) /\ Parses(ClientSource(r))
  /\ r.mode = "transpile" => \A i \in DOMAIN r.src : r.src[i] # Child

BuildForms ==
  /\ stage = "source"
  /\ stage' = IF Buildable(route) THEN "built" ELSE "failed"
  /\ UNCHANGED <<route, html, dom, global, came, before, target, pending>>

(* A request for the page. *)
ServePage ==
  /\ stage = "built"
  /\ stage' = "served"
  /\ global' \in TokenOf(route)
  /\ html' = ServerHtml(route, global')
  /\ UNCHANGED <<route, dom, came, before, target, pending>>

(* The entry sets the global, hydrates or mounts, and queues the splice.   *)
(* Hydration keeps of the server's document what the component renders.    *)
Boot ==
  /\ stage = "served"
  /\ stage' = "live"
  /\ dom' = Rendered(ClientSource(route), global)
  /\ target' = IF route.mode = "shell" THEN "app" ELSE "body"
  /\ before' = global
  /\ pending' = "splice"
  /\ UNCHANGED <<route, html, global, came>>

Splice ==
  /\ stage = "live" /\ pending = "splice"
  /\ dom' = InjectCSRF(dom, global)
  /\ pending' = "none"
  /\ UNCHANGED <<route, stage, html, global, came, before, target>>

(* The navigation commits: the page is mounted below the body, then the    *)
(* global is set, then the hooks run.  Within a chain only the rune is     *)
(* set, and the page changes once the hooks have run.                      *)
Hooked(s, token) == IF target = "body" THEN InjectCSRF(s, token) ELSE s

CommitPage(r) ==
  /\ stage = "live" /\ pending = "none" /\ route.src \in Landings /\ came = "load"
  /\ Buildable(r)
  /\ global' \in TokenOf(r)
  /\ route' = r
  /\ before' = global
  /\ IF r.chain # "none" /\ r.chain = route.chain
       THEN came' = "swap" /\ pending' = "render" /\ dom' = Hooked(dom, global')
       ELSE came' = "mount" /\ pending' = "none"
            /\ dom' = Hooked(Rendered(ClientSource(r), global), global')
  /\ UNCHANGED <<stage, html, target>>

(* Svelte renders what the rune holds. *)
Render ==
  /\ stage = "live" /\ pending = "render"
  /\ dom' = Rendered(ClientSource(route), global)
  /\ pending' = "none"
  /\ UNCHANGED <<route, stage, html, global, came, before, target>>

FormsNext ==
  \/ BuildForms \/ ServePage \/ Boot \/ Splice \/ Render
  \/ \E s \in Landings : \E r \in Route(s, {"none", "c"}) : CommitPage(r)

FormsSpec == FormsInit /\ [][FormsNext]_formVars
-----------------------------------------------------------------------------
(* The forms of a document, in order. *)
Forms(s) == SelectSeq([i \in DOMAIN s |-> i], LAMBDA i : FormTag(s, i))
Bare(s) == SelectSeq(s, LAMBDA x : x.name # "nocsrf" /\ ~(x.is = "input" /\ x.value # "own"))
Tokens(s, t) == {i \in Inputs(s, t) : s[i].value # "own"}
OptsOut(s, t) == \E i \in t+1..htmlTagEnd(s, t) : s[i].name = "nocsrf"
Dynamic(s, t) == \E i \in t+1..htmlTagEnd(s, t) : s[i].how = "mustache"

(* The server's HTML is the page as its author wrote it, but for the       *)
(* tokens and the opt-outs: with CSRF on, a POST form carries the token of *)
(* its page first and once, one that opts out loses the mark of it and     *)
(* carries none, and neither does one that does not post (csrfinject.go;   *)
(* lower_csrf.go, where no attribute of the tag is dynamic).               *)
TokenOnce ==
  stage = "served" /\ route.mode # "shell" =>
    LET plain == Rendered(route.src, NoToken)
        authored == Visible(route.src)
        Reached(k) == route.mode = "fallback" \/ ~Dynamic(authored, Forms(authored)[k])
    IN  /\ Bare(html) = Bare(plain)
        /\ \A k \in DOMAIN Forms(plain) :
             LET t == Forms(html)[k]
                 u == Forms(plain)[k]
                 guarded == route.csrf /\ Posts(plain, u) /\ Reached(k)
             IN  /\ guarded /\ ~OptsOut(plain, u) /\ Inputs(plain, u) = {} =>
                      /\ Tokens(html, t) = {htmlTagEnd(html, t) + 1}
                      /\ html[htmlTagEnd(html, t) + 1].value = global
                 /\ guarded => ~OptsOut(html, t)
                 /\ ~guarded \/ OptsOut(plain, u) => Tokens(html, t) = {}

(* A page of the sidecar whose forms are all its own, closed by a tag and  *)
(* with their methods in quotes, hydrates without a mismatch: the          *)
(* component the browser compiled has an input where the server put one    *)
(* and nowhere else (#540, csrffallback and csrfinject).                   *)
HydrationAgrees ==
  /\ stage = "served" /\ route.mode = "fallback"
  /\ \A i \in DOMAIN route.src :
       route.src[i] \notin {Child, SelfClose} /\ route.src[i].how # "attach"
         /\ (route.src[i].name = "method" => route.src[i].how = "quoted")
  => Rendered(ClientSource(route), global) = html

(* The POST forms of the document whose author has not opted them out; by  *)
(* what the author wrote, as the browser's copy may have lost the mark.    *)
Guarded ==
  LET plain == Rendered(route.src, NoToken)
  IN  {Forms(dom)[k] : k \in {n \in DOMAIN Forms(plain) :
         Posts(plain, Forms(plain)[n]) /\ ~OptsOut(plain, Forms(plain)[n])}}
Submittable ==
  \A t \in Guarded : \E i \in Inputs(dom, t) : dom[i].value \in {global, "own"}
Settled == stage = "live" /\ pending = "none" /\ global # NoToken

(* When the microtasks have run, every POST form of a page that was loaded *)
(* has a token, and it is its page's, unless the author opted the form out *)
(* with nocsrf.  The same is true after a navigation that mounts the page  *)
(* below the element the entry splices while the global already held the   *)
(* token (cliententry.go, router.go).  Nothing is said of a form that      *)
(* opted out: the server leaves it bare (TokenOnce), but the entry's       *)
(* splicer does not look for the attribute and gives it a token.  The      *)
(* other navigations are left out because the code does not have the       *)
(* property there: within a chain of layouts (SwapsSubmittable); from a    *)
(* shell, where the entry splices below #app and the router mounts below   *)
(* the body; and to a page of the sidecar whose token differs from the     *)
(* global's, as its input is rendered before the router sets the global.   *)
FormsSubmittable ==
  /\ Settled
  /\ came = "load" \/ (came = "mount" /\ target = "body" /\ before = global)
  => Submittable

(* The splicer re-fires on each navigation, so that the later pages of the *)
(* client router have their inputs (#541, cliententry.go).  Within a chain *)
(* of layouts it fires before Svelte has rendered the page the rune holds, *)
(* and the forms of the new page stay without one.                         *)
SwapsSubmittable ==
  Settled /\ came = "swap" /\ target = "body" => Submittable
=============================================================================
