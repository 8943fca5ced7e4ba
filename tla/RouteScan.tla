----------------------------- MODULE RouteScan ------------------------------
(***************************************************************************)
(* From directories under src/routes to a server that starts:              *)
(* internal/routescan (Scan: segments, layout chains, error boundaries,    *)
(* diagnostics), the part of codegen that turns diagnostics into a failed  *)
(* build, and the two refusals of server.New, a pattern that is registered *)
(* twice and a matcher nobody declared.                                    *)
(*                                                                         *)
(* A directory name is a record: its bracket style, its identifier, its    *)
(* matcher and whether it is well formed.  Identifiers and literal path    *)
(* parts are positive numbers, ordered as the strings they stand for; 0 is *)
(* the empty string.                                                       *)
(***************************************************************************)
EXTENDS Integers, FiniteSets, Sequences, SequencesExt

CONSTANTS
    Catalogue,      \* the directories an author may create
    BuiltIn,        \* built-in matcher |-> the path parts it accepts
    MatcherDirs,    \* src/params: matcher |-> what its directory holds and accepts
    MaxDirs         \* bound on the directories of one project

ASSUME MaxDirsAssumption == MaxDirs \in Nat

VARIABLES
    disk,     \* the route directories of the project
    status,   \* "edit", "rejected", "built", "serving" or "crashed"
    scanned   \* the routes the manifest registers

scanVars == <<disk, status, scanned>>

NoReset == -1
RootReset == 0
Literal == 0
Param == 1
Optional == 2
Rest == 3

-----------------------------------------------------------------------------
(* internal/routescan/segments.go                                           *)

\* ParseSegment and parseBracketed: bracket style to segment kind; a group
\* and a malformed name yield no segment.
KindOf == [plain |-> Literal, bracket |-> Param, double |-> Optional, dots |-> Rest]

Segment(raw) == [kind |-> KindOf[raw.style], id |-> raw.id, matcher |-> raw.matcher]

ParseSegment(raw) ==
    IF ~raw.ok THEN {"malformed"}
    ELSE IF raw.style = "group" THEN {"group"} ELSE {}

ParsedSegments(dir) ==
    LET url == SelectSeq(dir, LAMBDA raw : ParseSegment(raw) = {})
    IN  [i \in DOMAIN url |-> Segment(url[i])]

\* The generated package of a directory: brackets become underscores, the
\* matcher is dropped, a malformed part is left out.
encodePackageName(raw) == <<raw.style, raw.id>>

packagePath(dir) ==
    LET named == SelectSeq(dir, LAMBDA raw : raw.ok)
    IN  [i \in DOMAIN named |-> encodePackageName(named[i])]

-----------------------------------------------------------------------------
(* internal/routescan/paramsdisc.go and codegen/matchers_emit.go            *)

\* A matcher counts when its directory holds <name>.go, in the package of
\* that name, with func Match(s string) bool; any other is a warning.
discoverMatcherDir(m) == {"file", "package", "func", "signature"} \subseteq MatcherDirs[m].holds

discoverMatchers == {m \in DOMAIN MatcherDirs : discoverMatcherDir(m)}

\* gen.Matchers(): the built-ins, overlaid with the discovered matchers.
Accepts ==
    [m \in DOMAIN BuiltIn \cup discoverMatchers |->
        IF m \in discoverMatchers THEN MatcherDirs[m].accepts ELSE BuiltIn[m]]

-----------------------------------------------------------------------------
(* internal/routescan/scan.go                                               *)

Has(d, file) == file \in d.files
walkRoutes == {d \in disk : d.files # {}}
With(file) == {d.path : d \in {e \in walkRoutes : Has(e, file)}}

\* The ancestors of a directory, itself last.
Ancestors(dir) == [n \in 1..Len(dir) + 1 |-> SubSeq(dir, 1, n - 1)]

buildLayoutChain(dir) ==
    SelectSeq(Ancestors(dir), LAMBDA a : a \in With("layout"))

Covered(dir) == SelectSeq(Ancestors(dir), LAMBDA a : a \in With("error"))

\* _page@.svelte drops the whole chain, _page@(g).svelte what lies above the
\* innermost layout whose own directory is the group; no such layout is a
\* diagnostic and leaves the chain as it was.
GroupLayouts(chain, target) ==
    {i \in DOMAIN chain : chain[i] # <<>> /\ Last(chain[i]).style = "group" /\ Last(chain[i]).id = target}

truncateChainForReset(chain, target) ==
    IF target = RootReset THEN <<>>
    ELSE LET hits == GroupLayouts(chain, target)
         IN  IF hits = {} THEN chain ELSE SubSeq(chain, Max(hits), Len(chain))

layoutsAtOrAbove(chain, boundary) ==
    Cardinality({i \in DOMAIN chain : IsPrefix(chain[i], boundary)})

buildRoute(d) ==
    LET chain == IF d.reset = NoReset THEN buildLayoutChain(d.path)
                 ELSE truncateChainForReset(buildLayoutChain(d.path), d.reset)
        errors == Covered(d.path)
    IN  [dir |-> d.path, segments |-> ParsedSegments(d.path), package |-> packagePath(d.path),
         chain |-> chain, page |-> Has(d, "page"), server |-> Has(d, "server"),
         boundary |-> IF errors = <<>> THEN {} ELSE {Last(errors)},
         depth |-> IF errors = <<>> THEN 0 ELSE layoutsAtOrAbove(chain, Last(errors))]

\* The shape of a pattern: parameter names erased, matchers kept.
patternShape(segs) ==
    [i \in DOMAIN segs |-> IF segs[i].kind = Literal THEN segs[i]
                           ELSE [segs[i] EXCEPT !.id = 0]]

validateRouteFiles(d) ==
    (IF Has(d, "page") /\ Has(d, "server") THEN {"pageAndServer"} ELSE {}) \cup
    (IF Has(d, "pageServer") /\ ~Has(d, "page") /\ ~Has(d, "server") THEN {"orphan"} ELSE {})

\* A fault: only pages are compared.
detectPageConflicts ==
    LET claims == {d \in walkRoutes : Has(d, "page")}
    IN  IF \E d, e \in claims : d # e /\ patternShape(ParsedSegments(d.path)) = patternShape(ParsedSegments(e.path))
        THEN {"conflict"} ELSE {}

detectPatternConflicts ==
    LET claims == {d \in walkRoutes : Has(d, "page") \/ Has(d, "server") \/ d.reset # NoReset}
    IN  IF \E d, e \in claims : d # e /\ patternShape(ParsedSegments(d.path)) = patternShape(ParsedSegments(e.path))
        THEN {"conflict"} ELSE {}

validateMatcherRefs ==
    IF \E d \in walkRoutes : \E s \in ToSet(ParsedSegments(d.path)) :
            s.matcher # 0 /\ s.matcher \notin DOMAIN BuiltIn \cup discoverMatchers
    THEN {"unknownMatcher"} ELSE {}

Malformed(d) ==
    (IF \E raw \in ToSet(d.path) : ~raw.ok THEN {"malformed"} ELSE {}) \cup
    (IF d.reset \notin {NoReset, RootReset} /\ GroupLayouts(buildLayoutChain(d.path), d.reset) = {}
     THEN {"resetWithoutGroup"} ELSE {})

buildDiagnostics == UNION {Malformed(d) \cup validateRouteFiles(d) : d \in walkRoutes}

Diagnostics == buildDiagnostics \cup detectPatternConflicts \cup validateMatcherRefs

\* codegen/build.go: only these fail the build.
isFatalDiagnostic(diag) == diag \in {"conflict", "orphan", "unknownMatcher", "pageAndServer"}

-----------------------------------------------------------------------------
(* runtime/router/tree.go: what NewTree and WithMatchers refuse.            *)

Duplicate == \E r, q \in scanned : r # q /\ r.segments = q.segments

WithMatchers ==
    \A r \in scanned : \A s \in ToSet(r.segments) : s.matcher # 0 => s.matcher \in DOMAIN Accepts

-----------------------------------------------------------------------------
(* The life of a project: edit, build, start.                               *)

ScanInit ==
    /\ disk = {}
    /\ status = "edit"
    /\ scanned = {}

\* The author adds a directory.
EditRoutes(d) ==
    /\ status = "edit"
    /\ Cardinality(disk) < MaxDirs
    /\ d.path \notin {e.path : e \in disk}
    /\ disk' = disk \cup {d}
    /\ UNCHANGED <<status, scanned>>

\* The manifest registers the directories with a page or a server file.
Registered == {d \in walkRoutes : Has(d, "page") \/ Has(d, "server")}

\* Scan and the build's verdict on the diagnostics.
Scan ==
    /\ status = "edit" /\ disk # {}
    /\ IF \E diag \in Diagnostics : isFatalDiagnostic(diag)
       THEN status' = "rejected" /\ UNCHANGED scanned
       ELSE status' = "built" /\ scanned' = {buildRoute(d) : d \in Registered}
    /\ UNCHANGED disk

\* server.New: the tree and its matchers.
Start ==
    /\ status = "built"
    /\ status' = IF Duplicate \/ ~WithMatchers THEN "crashed" ELSE "serving"
    /\ UNCHANGED <<disk, scanned>>

ScanNext ==
    \/ \E d \in Catalogue : EditRoutes(d)
    \/ Scan
    \/ Start

ScanSpec == ScanInit /\ [][ScanNext]_scanVars
-----------------------------------------------------------------------------
\* Scan against NewTree and WithMatchers: a project whose diagnostics let the
\* build through starts: no duplicate pattern, no matcher missing at startup.
AcceptedProjectStarts == status # "crashed"

\* The inductive form: what a build let through has no pattern twice and no
\* matcher that server.New would miss.
AcceptedStartable == status = "built" => ~Duplicate /\ WithMatchers

=============================================================================
