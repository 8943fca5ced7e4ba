------------------------------- MODULE Routes -------------------------------
(***************************************************************************)
(* From the scanned routes to the route a request is served by:            *)
(* runtime/router (the tree the server matches against), the typed links   *)
(* of link_emit.go and the manifest the browser matches against            *)
(* (server/pipeline.go, internal/vite/router.go).                          *)
(*                                                                         *)
(* A path is the sequence of its raw parts, numbers as in RouteScan; Bad   *)
(* is a part that cannot be URL-decoded.                                   *)
(***************************************************************************)
EXTENDS RouteScan, MatchState

CONSTANT Paths  \* the request paths, as sequences of raw parts

VARIABLES
    routes,  \* the route table: the scanned routes, sorted
    tree,    \* the route tree: node (a sequence of segments) |-> route or 0
    answer   \* the last request and what Match answered

routeVars == <<scanVars, routes, tree, answer>>

Bad == -1
Unanswered == [path |-> <<>>, route |-> 0, params |-> {}]

-----------------------------------------------------------------------------
(* internal/routescan/scan.go: the order of the route table.                *)

\* Patterns in byte order: '[' sorts before letters, '.' before '[' and
\* '=' before ']'.
SegmentKey(s) == <<3 - s.kind, s.id, IF s.matcher = 0 THEN 99 ELSE s.matcher>>

Earlier(a, b, Key(_)) ==
    \/ Len(a) < Len(b) /\ \A i \in DOMAIN a : Key(a[i]) = Key(b[i])
    \/ \E i \in DOMAIN a \cap DOMAIN b :
          /\ \A j \in 1..i - 1 : Key(a[j]) = Key(b[j])
          /\ \E k \in 1..3 : /\ Key(a[i])[k] < Key(b[i])[k]
                             /\ \A l \in 1..k - 1 : Key(a[i])[l] = Key(b[i])[l]

PatternLess(r, q) == Earlier(r.segments, q.segments, SegmentKey)

sortRoutes(S) == SetToSortSeq(S, PatternLess)

-----------------------------------------------------------------------------
(* runtime/router/tree.go: nodes are the prefixes of the inserted patterns. *)

\* A static or a parameter child is found or added; an optional or a rest
\* child of another name takes the place of the one that was there, and its
\* subtree is gone.
Displaced(t, n, seg) ==
    {m \in DOMAIN t : /\ seg.kind \in {Optional, Rest}
                      /\ Len(m) > Len(n) /\ IsPrefix(n, m)
                      /\ m[Len(n) + 1].kind = seg.kind /\ m[Len(n) + 1] # seg}

\* A fault: childFor never finds the child that is there.
childForAlwaysNew(t, n, seg) ==
    LET child == Append(n, seg)
    IN  [m \in {x \in DOMAIN t : ~IsPrefix(child, x)} \cup {child} |-> IF m \in DOMAIN t /\ m # child THEN t[m] ELSE 0]

childFor(t, n, seg) ==
    LET child == Append(n, seg)
    IN  IF child \in DOMAIN t THEN t
        ELSE [m \in (DOMAIN t \ Displaced(t, n, seg)) \cup {child} |->
                IF m \in DOMAIN t THEN t[m] ELSE 0]

insert(t, r, index) ==
    LET path == [i \in 1..Len(r.segments) |-> SubSeq(r.segments, 1, i)]
        grown == FoldLeft(LAMBDA u, n : childFor(u, Front(n), Last(n)), t, path)
    IN  [grown EXCEPT ![r.segments] = index]

Root == <<>> :> 0

NewTree(rs) ==
    FoldLeft(LAMBDA t, i : insert(t, rs[i], i), Root, [i \in DOMAIN rs |-> i])

segmentScore(s) ==
    CASE s.kind = Literal -> 4
      [] s.kind = Param -> IF s.matcher # 0 THEN 3 ELSE 2
      [] s.kind = Optional -> 1
      [] s.kind = Rest -> 0

ScoreKey(s) == <<segmentScore(s), 0, 0>>

\* propagateSpec: the routes that end below a node, the best vector first.
BestBelow(t, n) ==
    LET ends == {m \in DOMAIN t : t[m] # 0 /\ IsPrefix(n, m)}
    IN  CHOOSE m \in ends : \A o \in ends : ~Earlier(m, o, ScoreKey)

\* A fault: siblings in the order of their names alone.
ParamLessByName(t, a, b) == Last(a).id < Last(b).id

\* sortAll: siblings by the best vector below, a matcher first, then by name.
ParamLess(t, a, b) ==
    LET p == BestBelow(t, a)
        q == BestBelow(t, b)
        x == Last(a)
        y == Last(b)
    IN  \/ Earlier(q, p, ScoreKey)
        \/ /\ ~Earlier(p, q, ScoreKey)
           /\ <<IF x.matcher # 0 THEN 0 ELSE 1, x.id>> # <<IF y.matcher # 0 THEN 0 ELSE 1, y.id>>
           /\ IF (x.matcher # 0) # (y.matcher # 0) THEN x.matcher # 0 ELSE x.id < y.id

Children(t, n, kind) ==
    {m \in DOMAIN t : Len(m) = Len(n) + 1 /\ IsPrefix(n, m) /\ Last(m).kind = kind}

-----------------------------------------------------------------------------
(* runtime/router/match.go                                                  *)

Allows(seg, value) == seg.matcher = 0 \/ (seg.matcher \in DOMAIN Accepts /\ value \in Accepts[seg.matcher])

\* joinSegs: what a rest segment captures is the sequence of its parts; no
\* matcher accepts a '/', and none is asked about an empty remainder.
AllowsRest(seg, segs) == segs = <<>> \/ seg.matcher = 0 \/ (Len(segs) = 1 /\ Allows(seg, segs[1]))

Missed(st) == [route |-> 0, st |-> st]

RECURSIVE matchNode(_, _, _, _), tryChildren(_, _, _, _)

\* The children of a node in order, the captures cut back after each failure.
tryChildren(t, kids, segs, st) ==
    IF kids = <<>> THEN Missed(st)
    ELSE LET c == Head(kids)
             seg == Last(c)
             took == IF seg.kind = Literal THEN st ELSE push(st, <<seg.id, <<segs[1]>>>>)
             r == matchNode(t, c, Tail(segs), took)
         IN  IF r.route # 0 THEN r
             ELSE tryChildren(t, Tail(kids), segs, truncate(r.st, st.n))

matchNode(t, n, segs, st) ==
    LET one(kind) == CHOOSE m \in Children(t, n, kind) : TRUE
        has(kind) == Children(t, n, kind) # {}
        seg == segs[1]
        statics == SetToSeq({m \in Children(t, n, Literal) : Last(m).id = seg})
        params == SetToSortSeq({m \in Children(t, n, Param) : Allows(Last(m), seg)},
                               LAMBDA a, b : ParamLess(t, a, b))
        opt == one(Optional)
        \* an optional child consumes the part if it may, else is skipped
        present(s) == IF Allows(Last(opt), seg) THEN tryChildren(t, <<opt>>, segs, s) ELSE Missed(s)
        absent(s) == LET r == matchNode(t, opt, segs, push(s, <<Last(opt).id, <<>>>>))
                     IN  IF r.route # 0 THEN r ELSE Missed(truncate(r.st, s.n))
        rest == one(Rest)
        caught(s) == IF has(Rest) /\ t[rest] # 0 /\ AllowsRest(Last(rest), segs)
                     THEN [route |-> t[rest], st |-> push(s, <<Last(rest).id, segs>>)]
                     ELSE Missed(s)
        orElse(r, f(_)) == IF r.route # 0 THEN r ELSE f(r.st)
    IN  IF segs = <<>>
        THEN IF t[n] # 0 THEN [route |-> t[n], st |-> st]
             ELSE orElse(IF has(Optional) THEN absent(st) ELSE Missed(st), caught)
        ELSE LET fixed == orElse(tryChildren(t, statics, segs, st),
                                 LAMBDA s : tryChildren(t, params, segs, s))
                 maybe == IF has(Optional) THEN orElse(orElse(fixed, present), absent) ELSE fixed
             IN  orElse(maybe, caught)

\* Split on '/' first, then decode each part; one undecodable part and the
\* whole path matches nothing.
splitAndDecodeInto(path) == IF Bad \in ToSet(path) THEN {} ELSE {path}

\* A later capture of the same name overwrites an earlier one.
Match(t, path) ==
    LET found == IF splitAndDecodeInto(path) = {} THEN Missed(NoCaptures)
                 ELSE matchNode(t, <<>>, path, NoCaptures)
        caps == [i \in 1..found.st.n |-> at(found.st, i)]
        last(c) == \A j \in DOMAIN caps : j > c => caps[j][1] # caps[c][1]
    IN  [path |-> path, route |-> found.route,
         params |-> IF found.route = 0 THEN {} ELSE {caps[i] : i \in {c \in DOMAIN caps : last(c)}}]

-----------------------------------------------------------------------------
(* server/pipeline.go buildClientManifest and internal/vite/router.go: the  *)
(* browser tries the pages in the order of the route table.                 *)

buildClientManifest(rs) == SelectSeq([i \in DOMAIN rs |-> i], LAMBDA i : rs[i].page)

\* The optional segment takes the part unless the part after it is the
\* literal that follows; matchers are not part of the manifest.
RECURSIVE matchEntry(_, _)
matchEntry(segs, parts) ==
    IF segs = <<>> THEN parts = <<>>
    ELSE LET s == Head(segs)
             literalAhead == /\ Len(segs) > 1 /\ segs[2].kind = Literal
                             /\ Len(parts) > 1 /\ parts[2] = segs[2].id
         IN  CASE s.kind = Literal -> parts # <<>> /\ parts[1] = s.id /\ matchEntry(Tail(segs), Tail(parts))
               [] s.kind = Param -> parts # <<>> /\ matchEntry(Tail(segs), Tail(parts))
               [] s.kind = Optional ->
                    matchEntry(Tail(segs), IF parts # <<>> /\ (Len(segs) = 1 \/ ~literalAhead)
                                           THEN Tail(parts) ELSE parts)
               [] s.kind = Rest -> TRUE

matchManifest(rs, path) ==
    LET parts == SelectSeq(path, LAMBDA p : p # 0)
        hits == SelectSeq(buildClientManifest(rs), LAMBDA i : matchEntry(rs[i].segments, parts))
    IN  IF hits = <<>> THEN 0 ELSE hits[1]

-----------------------------------------------------------------------------
(* codegen/link_emit.go: the URL a typed helper builds from its parameters. *)

Dynamic(segs) == SelectSeq(segs, LAMBDA s : s.kind # Literal)

\* A fault: an empty optional field still writes its slash.
emitLinkBuildAlwaysSlash(segs, field) ==
    FoldLeft(LAMBDA url, i :
                url \o (IF segs[i].kind = Literal THEN <<segs[i].id>>
                        ELSE IF field[i] = <<>> THEN <<0>> ELSE field[i]),
             <<>>, [i \in DOMAIN segs |-> i])

\* One field per dynamic segment; an empty optional or rest adds nothing.
emitLinkBuild(segs, field) ==
    FoldLeft(LAMBDA url, i :
                url \o (IF segs[i].kind = Literal THEN <<segs[i].id>> ELSE field[i]),
             <<>>, [i \in DOMAIN segs |-> i])

-----------------------------------------------------------------------------
(* The life of a project: edit, build, start, answer requests.              *)

RoutesInit ==
    /\ ScanInit
    /\ routes = <<>>
    /\ tree = Root
    /\ answer = Unanswered

EditProject(d) == EditRoutes(d) /\ UNCHANGED <<routes, tree, answer>>

BuildProject ==
    /\ Scan
    /\ routes' = sortRoutes(scanned')
    /\ UNCHANGED <<tree, answer>>

\* A server that starts has its tree.
ServeProject ==
    /\ Start
    /\ tree' = IF status' = "serving" THEN NewTree(routes) ELSE tree
    /\ UNCHANGED <<routes, answer>>

Request(path) ==
    /\ status = "serving" /\ answer = Unanswered
    /\ answer' = Match(tree, path)
    /\ UNCHANGED <<scanVars, routes, tree>>

RoutesNext ==
    \/ \E d \in Catalogue : EditProject(d)
    \/ BuildProject
    \/ ServeProject
    \/ \E path \in Paths : Request(path)

RoutesSpec == RoutesInit /\ [][RoutesNext]_routeVars
-----------------------------------------------------------------------------
(* Reference: how a pattern derives a path, without a tree.                 *)

\* The capture lists by which segs derives path: a literal stands for
\* itself, a parameter for one accepted part, an optional for one or none, a
\* rest, which must come last, for what is left.
RECURSIVE Derivations(_, _)
Derivations(segs, path) ==
    IF segs = <<>> THEN IF path = <<>> THEN {<<>>} ELSE {}
    ELSE LET s == Head(segs)
             one == {<<s.id, <<path[1]>>>> : x \in {y \in {path} : y # <<>> /\ Allows(s, y[1])}}
             with(heads, left) == {<<h>> \o d : h \in heads, d \in Derivations(Tail(segs), left)}
         IN  CASE s.kind = Literal -> IF path # <<>> /\ path[1] = s.id THEN Derivations(Tail(segs), Tail(path)) ELSE {}
               [] s.kind = Param -> IF one = {} THEN {} ELSE with(one, Tail(path))
               [] s.kind = Optional -> (IF one = {} THEN {} ELSE with(one, Tail(path)))
                                        \cup with({<<s.id, <<>>>>}, path)
               [] s.kind = Rest -> IF Len(segs) = 1 /\ AllowsRest(s, path) THEN {<<<<s.id, path>>>>} ELSE {}

LastWins(caps) == {caps[i] : i \in {c \in DOMAIN caps : \A j \in DOMAIN caps : j > c => caps[j][1] # caps[c][1]}}

\* Two patterns that meet at a node in optional (or rest) children of
\* different names, of which the tree keeps one.
Clash(p, q) ==
    \E k \in DOMAIN p \cap DOMAIN q :
        /\ SubSeq(p, 1, k - 1) = SubSeq(q, 1, k - 1)
        /\ p[k].kind = q[k].kind /\ p[k].kind \in {Optional, Rest} /\ p[k] # q[k]

Answered == answer # Unanswered /\ answer.route # 0
Derives(i) == Derivations(routes[i].segments, answer.path) # {}

\* Match (match.go:65): the route it returns really derives the path, and the
\* params are those of one derivation: backtracking over optional and
\* parameter children, with the captures cut back across the boundary of the
\* fixed array, leaves no capture of an abandoned branch behind.
MatchExact ==
    Answered => \E caps \in Derivations(routes[answer.route].segments, answer.path) :
                    answer.params = LastWins(caps)

\* matchNode (match.go:88): the first segment at which the winner and another
\* matching route part company decides, static over matcher over parameter
\* over optional over rest, whatever lies deeper in the tree; and a route that
\* ends at a node is preferred to one that goes on with nothing.
ResolutionOrder ==
    Answered =>
        LET w == routes[answer.route].segments
        IN  \A i \in DOMAIN routes :
              LET q == routes[i].segments
                  k == Len(LongestCommonPrefix({w, q})) + 1
              IN  /\ Derives(i) /\ i # answer.route /\ q \in DOMAIN tree
                  /\ \A j \in 1..k - 1 : w[j].kind # Optional
                  => \/ k \in DOMAIN w \cap DOMAIN q /\ segmentScore(w[k]) >= segmentScore(q[k])
                     \/ k = Len(w) + 1

\* NewTree and matchNode: a path the tree rejects is derived by no registered
\* route, unless two registered patterns clash in an optional or a rest child
\* (childFor keeps the later of the two).
NothingLost ==
    (answer # Unanswered /\ answer.route = 0 /\ Bad \notin ToSet(answer.path)) =>
        \A i \in DOMAIN routes :
            Derives(i) => \E j \in DOMAIN routes : Clash(routes[i].segments, routes[j].segments)

\* The parts a field of a link may hold.
FieldValues(s) ==
    LET parts == {p \in UNION {ToSet(q) : q \in Paths} : p > 0}
        filled == {<<p>> : p \in {x \in parts : Allows(s, x)}}
    IN  IF s.kind = Param THEN filled
        ELSE IF s.kind = Literal THEN {<<>>} ELSE filled \cup {<<>>}

\* emitLinkBuild against Match: the URL a typed link builds is answered, and
\* when the route of the link answers it the params are the fields that built
\* it.  Holds where an optional or rest segment is the last of its pattern.
LinksResolve ==
    status = "serving" =>
        \A i \in DOMAIN routes :
            LET segs == routes[i].segments
                dynamic == {k \in DOMAIN segs : segs[k].kind # Literal}
                names == {segs[k].id : k \in dynamic}
            IN  (/\ \A k \in 1..Len(segs) - 1 : segs[k].kind \in {Literal, Param}
                 /\ Cardinality(names) = Cardinality(dynamic)
                 /\ segs \in DOMAIN tree) =>
                \A field \in {f \in [DOMAIN segs -> UNION {FieldValues(s) : s \in ToSet(segs)}] :
                                \A k \in DOMAIN segs : f[k] \in FieldValues(segs[k])} :
                    LET m == Match(tree, emitLinkBuild(segs, field))
                    IN  /\ m.route # 0
                        /\ m.route = i => m.params = {<<segs[k].id, field[k]>> : k \in dynamic}

\* buildClientManifest says its order is that of the server's table "after
\* sorting for specificity": a page the browser mounts for a path would be the
\* page the server answers it with (a path without an entry is loaded in full).
ClientAgrees ==
    (Answered /\ routes[answer.route].page /\ 0 \notin ToSet(answer.path)) =>
        matchManifest(routes, answer.path) \in {0, answer.route}

=============================================================================
