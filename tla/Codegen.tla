------------------------------ MODULE Codegen -------------------------------
(***************************************************************************)
(* sveltego build and sveltego prerender: from a scanned project to Go and *)
(* client modules that must compile together (internal/codegen: build.go,  *)
(* wire.go, ssr.go, manifest.go, rest_emit.go, optionscan.go, typegen;     *)
(* cmd/sveltego).  The generator decides in five places, each from its own *)
(* reading of the project, what a package declares and what the manifest   *)
(* refers to; the Go compiler is the first to compare them.                *)
(*                                                                         *)
(* A file is a record: its package, its name, what it declares, what it    *)
(* uses of other packages and which packages it imports.  The text between *)
(* is left out.  A package is a tree of .gen and a route directory.        *)
(***************************************************************************)
EXTENDS Integers, FiniteSets, Sequences, SequencesExt

CONSTANTS
    Dirs,      \* the directories under src/routes
    Above,     \* directory |-> the path from the root to it, itself last
    Projects,  \* the projects the author starts from
    Revisions, \* directory contents the author may change one directory to
    MaxRevisions   \* bound on the edits of one behaviour

ASSUME AboveAssumption ==
    \A d \in Dirs : Above[d] # <<>> /\ Last(Above[d]) = d /\ ToSet(Above[d]) \subseteq Dirs
ASSUME RevisionsAssumption == MaxRevisions \in Nat

VARIABLES
    project,   \* directory |-> what src/routes/<directory> holds
    edits,
    command,   \* "build" or "prerender"
    phase,     \* where the command is
    todo,      \* the routes still to be emitted, in no particular order
    genFiles   \* what is under .gen, and the .d.ts files beside the sources

codegenVars == <<project, edits, command, phase, todo, genFiles>>

File(pkg, name, declares, uses, imports) ==
    [pkg |-> pkg, name |-> name, declares |-> declares, uses |-> uses, imports |-> imports]

Lib(name) == <<"lib", name>>
OfLib(names) == {<<Lib(n), n>> : n \in names}
Libs(names) == {Lib(n) : n \in names}

\* os.WriteFile: an older file of the same path is replaced.
WriteFile(fs) ==
    {f \in genFiles : \A g \in fs : <<f.pkg, f.name>> # <<g.pkg, g.name>>} \cup fs

-----------------------------------------------------------------------------
(* What routescan reports of a directory                                    *)

Route(d) == project[d].kind # "none" \/ project[d].layout # "absent" \/ project[d].error
HasPage(d) == project[d].kind = "page"
HasServer(d) == project[d].kind = "rest"
HasPageServer(d) == HasPage(d) /\ project[d].source # "absent"

\* The annotation is looked for in _page.svelte, whatever the page's file is
\* called.
SSRFallback(d) == HasPage(d) /\ project[d].fallback /\ ~project[d].reset

\* A chain is a set of directories; its order is that of Above.
LayoutChain(d) ==
    IF project[d].reset THEN {} ELSE {a \in ToSet(Above[d]) : project[a].layout # "absent"}

\* The boundary nearest to the route.
ErrorBoundary(d) ==
    LET path == Above[d]
        covering == {i \in DOMAIN path : project[path[i]].error}
    IN  {path[i] : i \in {i \in covering : \A j \in covering : j <= i}}

LayoutServer(l) == project[l].layout # "plain"
ScannedRoutes == {d \in Dirs : Route(d)}
Pages == {d \in ScannedRoutes : HasPage(d)}

-----------------------------------------------------------------------------
(* optionscan.go, prerender_scan.go, svelte_options.go, kit/page_options.go *)

DefaultPageOptions == [prerender |-> FALSE, auto |-> FALSE, ssr |-> TRUE, csrf |-> TRUE]

\* Every declared constant replaces the inherited one.
Merge(base, override) == override @@ base

\* The prerender attribute of <svelte:options>: bare means true; a value that
\* is not one of the four, like any other fault of the element, counts as none.
svelteOptionPrerender(attribute) ==
    CASE attribute = "bare" -> "true"
      [] attribute \in {"true", "false", "auto", "protected"} -> attribute
      [] OTHER -> "absent"

prerenderOverrideFromSvelte(value) ==
    CASE value \in {"true", "protected"} -> [prerender |-> TRUE]
      [] value = "false" -> [prerender |-> FALSE]
      [] value = "auto" -> [prerender |-> TRUE, auto |-> TRUE]
      [] OTHER -> <<>>

scanPrerenderFromSvelte(attribute) == prerenderOverrideFromSvelte(svelteOptionPrerender(attribute))

\* The option constants of a Go file, by name.
scanPageOptions(consts) == [o \in DOMAIN consts \cap DOMAIN DefaultPageOptions |-> consts[o]]

Cascade(overrides) == FoldLeft(Merge, DefaultPageOptions, overrides)

\* What a layout declares: the constants of its Go file, then its attribute.
LayoutOptions(l) ==
    Merge(IF LayoutServer(l) THEN scanPageOptions(project[l].layoutConsts) ELSE <<>>,
          scanPrerenderFromSvelte(project[l].layoutSvelte))

\* The cascade: every layout's constants and attribute from the outside in,
\* then the route file's constants, then the page's attribute.
resolvePageOptions(d) ==
    LET path == Above[d]
        inherited == [i \in DOMAIN path |-> IF path[i] \in LayoutChain(d) THEN LayoutOptions(path[i]) ELSE <<>>]
        own == IF HasPageServer(d) \/ HasServer(d) THEN scanPageOptions(project[d].consts) ELSE <<>>
        attribute == IF HasPage(d) THEN scanPrerenderFromSvelte(project[d].svelte) ELSE <<>>
    IN  Cascade(inherited \o <<own, attribute>>)

Prerendered(d) == resolvePageOptions(d).prerender \/ resolvePageOptions(d).auto
routeCSRFEnabled(d) == resolvePageOptions(d).csrf

-----------------------------------------------------------------------------
(* The author's Go files, and what parsing them finds                       *)

\* The top-level names of a _page.server.go or _layout.server.go.
Declares ==
    [options |-> {},                       \* page-option constants only
     actions |-> {"Actions"},
     typed |-> {"Load", "Data"},           \* Load returns PageData / LayoutData, with fields
     empty |-> {"Load", "Data"},           \* ... which has no field
     other |-> {"Load", "OtherData"}]      \* Load returns a struct of another name

\* A directory has a page's Go file or none, a layout with one, without, or none.
DirContents(c) ==
    /\ c.source \in DOMAIN Declares \cup {"absent"}
    /\ c.layout \in DOMAIN Declares \cup {"absent", "plain"}

ASSUME ProjectsAssumption ==
    /\ \A p \in Projects : p = [d \in Dirs |-> p[d]] /\ \A d \in Dirs : DirContents(p[d])
    /\ \A d \in Dirs : \A to \in Revisions[d] : DirContents(to)

hasLoadFunc(source) == "Load" \in Declares[source]
hasActionsVar(source) == "Actions" \in Declares[source]

\* typegen.BuildShape: the fields of whatever struct Load returns.
ShapeHasFields(source) == source \in {"typed", "other"}

\* mirrorUserSource: constraint stripped, package clause rewritten, the
\* declarations kept.
mirrorUserSource(pkg, name, declared) == File(pkg, name, declared, {}, {})

-----------------------------------------------------------------------------
(* rest_emit.go, wire.go: the files of one route                            *)

UserSrc(d) == <<"usersrc", d>>
LayoutSrc(d) == <<"layoutsrc", d>>
ErrorSrc(d) == <<"errorsrc", d>>
Gen(d) == <<"routes", d>>
ManifestPackage == <<"gen", 0>>
ClientRouterModule == <<"router", 0>>

RESTMirror(d) == mirrorUserSource(UserSrc(d), "server.go", {"GET"})
RESTWire(d) ==
    File(Gen(d), "server.gen.go", {"Handlers"},
         OfLib({"kit", "http"}) \cup {<<UserSrc(d), "GET">>}, Libs({"kit", "http"}) \cup {UserSrc(d)})
emitRESTRoute(d) == {RESTMirror(d), RESTWire(d)}

\* Load and Actions are declared whatever the author wrote, as stubs if need
\* be; the mirror is imported when one of them is not a stub.
emitWire(d) ==
    LET source == project[d].source
        wrapped == {s \in {"Load", "Actions"} : s \in Declares[source]}
    IN  File(Gen(d), "wire.gen.go", {"Load", "Actions"},
             OfLib({"kit"}) \cup {<<UserSrc(d), s>> : s \in wrapped},
             Libs({"kit"}) \cup (IF hasLoadFunc(source) \/ hasActionsVar(source) THEN {UserSrc(d)} ELSE {}))

PageMirror(d) == mirrorUserSource(UserSrc(d), "page_server.go", Declares[project[d].source])
emitMirrorAndWire(d) == {PageMirror(d), emitWire(d)}

\* The layout wire calls Load without asking whether the file declares one.
LayoutMirror(l) == mirrorUserSource(LayoutSrc(l), "layout_server.go", Declares[project[l].layout])
LayoutWire(l) ==
    File(Gen(l), "wire_layout.gen.go", {"LayoutLoad"},
         OfLib({"kit"}) \cup {<<LayoutSrc(l), "Load">>}, Libs({"kit"}) \cup {LayoutSrc(l)})
emitLayoutMirrorAndWire(l) == {LayoutMirror(l), LayoutWire(l)}

\* entry.ts: the page, or its CSRF-spliced copy, the router and the wrapper
\* of the layout chain; nothing is written for prerender.
Lowered(d) == SSRFallback(d) /\ routeCSRFEnabled(d) /\ project[d].form
LoweredPage(d) == File(<<"csrf-fallback", d>>, "_page.svelte", {"Page"}, {}, {})
emitCSRFFallbackLowering(d) == IF Lowered(d) THEN {LoweredPage(d)} ELSE {}

PageModule(d) == IF Lowered(d) THEN <<"csrf-fallback", d>> ELSE <<"src", d>>
Wrapper(d) == IF LayoutChain(d) = {} THEN {} ELSE {<<"chain", LayoutChain(d)>>}

ClientEntry(d) ==
    LET uses == {<<PageModule(d), "Page">>, <<ClientRouterModule, "startRouter">>} \cup
                {<<w, "Wrapper">> : w \in Wrapper(d)}
    IN  File(<<"client", d>>, "entry.ts", {"entry"}, uses, {u[1] : u \in uses})

emitClientEntry(d) ==
    IF command = "prerender" THEN {} ELSE emitCSRFFallbackLowering(d) \cup {ClientEntry(d)}

EmittedFor(d) ==
    (IF HasPage(d) THEN emitClientEntry(d) ELSE {}) \cup
    (IF HasServer(d) THEN emitRESTRoute(d) ELSE {}) \cup
    (IF HasPageServer(d) THEN emitMirrorAndWire(d) ELSE {}) \cup
    UNION {emitLayoutMirrorAndWire(l) : l \in {a \in LayoutChain(d) : LayoutServer(a)}}

\* _page.svelte.d.ts and _layout.svelte.d.ts lie beside the sources, outside
\* what a build cleans.
PageTypes(d) == File(<<"dts", d>>, "_page.svelte.d.ts", {"PageData"}, {}, {})
LayoutTypes(l) == File(<<"dts", l>>, "_layout.svelte.d.ts", {"LayoutData"}, {}, {})
EmitForRoute(d) ==
    (IF HasPageServer(d) THEN {PageTypes(d)} ELSE {}) \cup
    {LayoutTypes(l) : l \in {a \in LayoutChain(d) : LayoutServer(a)}}

-----------------------------------------------------------------------------
(* ssr.go: which pages, layouts and boundaries become Go                    *)

\* A page, an SSR or prerendered one; annotated or not.
routeEligibleForSSRChain(d) == HasPage(d) /\ (resolvePageOptions(d).ssr \/ Prerendered(d))

planFallback == {d \in Pages : routeEligibleForSSRChain(d) /\ SSRFallback(d)}

\* A shape with fields is transpiled; without one only a prerendered page is,
\* over a synthetic PageData.
Shaped(d) == HasPageServer(d) /\ ShapeHasFields(project[d].source)

planSSR ==
    {d \in Pages : routeEligibleForSSRChain(d) /\ ~SSRFallback(d) /\ (Shaped(d) \/ Prerendered(d))}

planSSRLayouts == UNION {LayoutChain(d) : d \in {r \in Pages : routeEligibleForSSRChain(r)}}
planSSRErrors == UNION {ErrorBoundary(d) : d \in {r \in Pages : routeEligibleForSSRChain(r)}}

\* The transpiled body and its helpers, and the data-erased bridge.
Body(src, name) == File(src, name, {"Render"}, {<<src, "Data">>} \cup OfLib({"server"}), Libs({"server"}))
Companion(src) == File(src, "ssr_companion.gen.go", {"companion"}, {}, {})
Transpiled(src, name, bridge) == {Body(src, name), Companion(src), bridge}

emitSSRWire(d) ==
    File(Gen(d), "wire_render.gen.go", {"RenderSSR"},
         {<<UserSrc(d), "Data">>, <<UserSrc(d), "Render">>} \cup OfLib({"fmt", "server"}),
         {UserSrc(d)} \cup Libs({"fmt", "server"}))

emitSSRLayoutWire(l) ==
    File(Gen(l), "wire_layout_render.gen.go", {"RenderLayoutSSR"},
         {<<LayoutSrc(l), "Data">>, <<LayoutSrc(l), "Render">>} \cup OfLib({"fmt", "server"}),
         {LayoutSrc(l)} \cup Libs({"fmt", "server"}))

emitSSRErrorWire(e) ==
    File(Gen(e), "wire_error_render.gen.go", {"RenderErrorSSR"},
         {<<ErrorSrc(e), "Render">>} \cup OfLib({"kit", "server"}), {ErrorSrc(e)} \cup Libs({"kit", "server"}))

emitSyntheticPageData(d) == File(UserSrc(d), "page_synthetic.gen.go", {"Data"}, {}, {})
emitSyntheticLayoutData(l) == File(LayoutSrc(l), "layout_synthetic.gen.go", {"Data"}, {}, {})
emitSyntheticErrorData(e) == File(ErrorSrc(e), "error_synthetic.gen.go", {"Data"}, OfLib({"kit"}), Libs({"kit"}))

RenderedPage(d) ==
    Transpiled(UserSrc(d), "page_render.gen.go", emitSSRWire(d)) \cup
    (IF Shaped(d) THEN {} ELSE {emitSyntheticPageData(d)})

RenderedLayout(l) ==
    Transpiled(LayoutSrc(l), "layout_render.gen.go", emitSSRLayoutWire(l)) \cup
    (IF LayoutServer(l) THEN {} ELSE {emitSyntheticLayoutData(l)})

RenderedError(e) ==
    Transpiled(ErrorSrc(e), "error_render.gen.go", emitSSRErrorWire(e)) \cup {emitSyntheticErrorData(e)}

-----------------------------------------------------------------------------
(* manifest.go                                                              *)

Entries == {d \in ScannedRoutes : HasPage(d) \/ HasServer(d)}

\* Layouts and boundaries of every scanned route, whatever renders it.
layoutImports == UNION {LayoutChain(d) : d \in ScannedRoutes}
errorImports == UNION {ErrorBoundary(d) : d \in ScannedRoutes}

\* A route package is imported when the entry will name something in it.
routeImports == {d \in Entries : HasPageServer(d) \/ HasServer(d) \/ d \in planSSR}

HasAdapters == planSSR \cup planFallback \cup layoutImports \cup errorImports # {}

manifestLibs ==
    {"router"} \cup
    (IF HasAdapters \/ Entries # {} THEN {"kit"} ELSE {}) \cup
    (IF HasAdapters THEN {"render"} ELSE {}) \cup
    (IF planSSR \cup layoutImports \cup errorImports # {} THEN {"server"} ELSE {}) \cup
    (IF planFallback # {} THEN {"fallback"} ELSE {}) \cup
    (IF \E d \in planFallback : routeCSRFEnabled(d) THEN {"csrfinject"} ELSE {})

emitSvelteRenderAdapter(d) == {<<Gen(d), "RenderSSR">>} \cup OfLib({"render", "kit", "server"})

emitFallbackAdapter(d) ==
    OfLib({"render", "kit", "fallback"}) \cup (IF routeCSRFEnabled(d) THEN OfLib({"csrfinject"}) ELSE {})

emitLayoutAdapter(l) ==
    {<<Gen(l), "RenderLayoutSSR">>} \cup OfLib({"render", "kit", "server"}) \cup
    (IF LayoutServer(l) THEN {<<Gen(l), "LayoutLoad">>} ELSE {})

emitSSRErrorAdapter(e) == {<<Gen(e), "RenderErrorSSR">>} \cup OfLib({"render", "kit", "server"})

\* The page slot is filled from the layout data around it.
emitRouteRenderChain(d) ==
    IF HasPage(d) /\ LayoutChain(d) # {} THEN OfLib({"render", "kit", "router", "server"}) ELSE {}

\* What the handler of a route's Page field is; "none" is the SPA shell.
PageHandler(d) ==
    CASE d \in planSSR -> "render"
      [] d \in planFallback -> "fallback"
      [] OTHER -> "none"

emitRouteEntry(d) ==
    OfLib({"kit", "router"}) \cup
    (IF HasServer(d) THEN {<<Gen(d), "Handlers">>} ELSE {}) \cup
    (IF HasPageServer(d) THEN {<<Gen(d), "Load">>, <<Gen(d), "Actions">>} ELSE {})

manifestUses ==
    OfLib({"router"}) \cup
    UNION ({emitRouteEntry(d) \cup emitRouteRenderChain(d) : d \in Entries} \cup
           {emitSvelteRenderAdapter(d) : d \in planSSR} \cup
           {emitFallbackAdapter(d) : d \in planFallback} \cup
           {emitLayoutAdapter(l) : l \in layoutImports} \cup
           {emitSSRErrorAdapter(e) : e \in errorImports})

GenerateManifest ==
    File(ManifestPackage, "manifest.gen.go", {"Routes"}, manifestUses,
         Libs(manifestLibs) \cup {Gen(d) : d \in routeImports \cup layoutImports \cup errorImports})

-----------------------------------------------------------------------------
(* hooks_emit.go, assets_emit.go, emitEmbedStub, the client modules         *)

ProjectFile(name, declared, lib) == File(ManifestPackage, name, {declared}, OfLib({lib}), Libs({lib}))
ProjectFiles ==
    {ProjectFile("assets.gen.go", "Assets", "kit"), ProjectFile("hooks.gen.go", "Hooks", "kit")} \cup
    (IF command = "build" /\ Pages # {} THEN {ProjectFile("embed.go", "ClientFS", "embed")} ELSE {})

emitChainWrapper(chain) ==
    LET uses == {<<<<"layout", l>>, "Layout">> : l \in chain} \cup {<<ClientRouterModule, "wrapperState">>}
    IN  File(<<"chain", chain>>, "wrapper.svelte", {"Wrapper"}, uses, {u[1] : u \in uses})

\* router.ts and its siblings; the page modules are imported lazily.
emitClientRouter ==
    LET uses == {<<PageModule(d), "Page">> : d \in Pages} \cup
                {<<w, "Wrapper">> : w \in UNION {Wrapper(d) : d \in Pages}}
    IN  File(ClientRouterModule, "router.ts", {"startRouter", "wrapperState"}, uses, {u[1] : u \in uses})

ClientFiles ==
    IF command = "prerender" \/ Pages = {} THEN {}
    ELSE {emitChainWrapper(c) : c \in {LayoutChain(d) : d \in Pages} \ {{}}} \cup {emitClientRouter}

-----------------------------------------------------------------------------
(* What the compilers ask of the files                                      *)

\* The author's own modules, and libraries, are there.
Provided(use) ==
    \/ use[1][1] = "lib"
    \/ use[1][1] = "src" /\ HasPage(use[1][2])
    \/ use[1][1] = "layout" /\ project[use[1][2]].layout # "absent"

Resolved(use) == Provided(use) \/ \E f \in genFiles : f.pkg = use[1] /\ use[2] \in f.declares

Compiles ==
    /\ \A f \in genFiles : \A use \in f.uses : Resolved(use)
    /\ \A f, g \in genFiles : f # g /\ f.pkg = g.pkg => f.declares \cap g.declares = {}
    /\ \A f \in genFiles : f.imports = {use[1] : use \in f.uses} \ {f.pkg}

-----------------------------------------------------------------------------
(* Build, step by step; a failing step returns at once and leaves its files *)

CodegenInit ==
    /\ project \in Projects
    /\ edits = 0
    /\ command = "build"
    /\ phase = "idle"
    /\ todo = {}
    /\ genFiles = {}

Idle == phase \in {"idle", "failed", "built"}

\* The author changes one directory between two commands.
Revise(d, to) ==
    /\ Idle
    /\ edits < MaxRevisions
    /\ project[d] # to
    /\ project' = [project EXCEPT ![d] = to]
    /\ edits' = edits + 1
    /\ phase' = "idle"
    /\ UNCHANGED <<command, todo, genFiles>>

Invoke(c) ==
    /\ phase = "idle"
    /\ command' = c
    /\ phase' = "clean"
    /\ UNCHANGED <<project, edits, todo, genFiles>>

\* A fault: the last output is built over.
CleanKeepsOutput ==
    /\ phase = "clean"
    /\ todo' = ScannedRoutes
    /\ phase' = "routes"
    /\ UNCHANGED <<project, edits, command, genFiles>>

\* RemoveAll(.gen), then the scan and the options of every route.
Clean ==
    /\ phase = "clean"
    /\ genFiles' = {f \in genFiles : f.pkg[1] = "dts"}
    /\ todo' = ScannedRoutes
    /\ phase' = "routes"
    /\ UNCHANGED <<project, edits, command>>

EmitRoute ==
    /\ phase = "routes"
    /\ \E d \in todo : genFiles' = WriteFile(EmittedFor(d)) /\ todo' = todo \ {d}
    /\ UNCHANGED <<project, edits, command, phase>>

RoutesEmitted ==
    /\ phase = "routes"
    /\ todo = {}
    /\ phase' = "typegen"
    /\ UNCHANGED <<project, edits, command, todo, genFiles>>

runTypegen ==
    /\ phase = "typegen"
    /\ genFiles' = WriteFile(UNION {EmitForRoute(d) : d \in ScannedRoutes})
    /\ phase' = IF planSSR \cup planSSRLayouts \cup planSSRErrors = {} THEN "manifest" ELSE "pages"
    /\ UNCHANGED <<project, edits, command, todo>>

\* The sidecar parses _page.svelte, which a page with a reset does not have.
TranspilePages ==
    /\ phase = "pages"
    /\ \A d \in planSSR : ~project[d].reset
    /\ genFiles' = WriteFile(UNION {RenderedPage(d) : d \in planSSR})
    /\ phase' = IF planSSRLayouts = {} THEN "manifest" ELSE "layouts"
    /\ UNCHANGED <<project, edits, command, todo>>

TranspileLayouts ==
    /\ phase = "layouts"
    /\ genFiles' = WriteFile(UNION {RenderedLayout(l) : l \in planSSRLayouts})
    /\ phase' = IF planSSRErrors = {} THEN "manifest" ELSE "errors"
    /\ UNCHANGED <<project, edits, command, todo>>

TranspileErrors ==
    /\ phase = "errors"
    /\ genFiles' = WriteFile(UNION {RenderedError(e) : e \in planSSRErrors})
    /\ phase' = "manifest"
    /\ UNCHANGED <<project, edits, command, todo>>

WriteManifest ==
    /\ phase = "manifest"
    /\ genFiles' = WriteFile({GenerateManifest})
    /\ phase' = "project"
    /\ UNCHANGED <<project, edits, command, todo>>

WriteProjectFiles ==
    /\ phase = "project"
    /\ genFiles' = WriteFile(ProjectFiles)
    /\ phase' = "client"
    /\ UNCHANGED <<project, edits, command, todo>>

WriteClient ==
    /\ phase = "client"
    /\ genFiles' = WriteFile(ClientFiles)
    /\ phase' = "compile"
    /\ UNCHANGED <<project, edits, command, todo>>

\* vite build (for a client) and go build.
Compile ==
    /\ phase = "compile"
    /\ phase' = IF Compiles THEN "built" ELSE "failed"
    /\ UNCHANGED <<project, edits, command, todo, genFiles>>

Abort ==
    /\ phase' = "failed"
    /\ todo' = {}
    /\ UNCHANGED <<project, edits, command, genFiles>>

\* No go.mod or src/routes, a fatal diagnostic, a bad option constant: the
\* first two are found before .gen is cleaned, the others after.
Reject == phase \in {"clean", "routes"} /\ Abort

\* A verb with the wrong signature or none at all, a file that cannot be
\* parsed, a RouteID collision, a hook of the wrong arity, a full disk.
EmitFails == phase \in {"typegen", "manifest", "project", "client"} /\ Abort

\* No Node, a failed npm install, a component the sidecar cannot parse or the
\* transpiler cannot lower, a cancelled context.
SidecarFails == phase \in {"pages", "layouts", "errors"} /\ Abort

CodegenNext ==
    \/ \E d \in Dirs : \E to \in Revisions[d] : Revise(d, to)
    \/ \E c \in {"build", "prerender"} : Invoke(c)
    \/ Clean
    \/ EmitRoute
    \/ RoutesEmitted
    \/ runTypegen
    \/ TranspilePages
    \/ TranspileLayouts
    \/ TranspileErrors
    \/ WriteManifest
    \/ WriteProjectFiles
    \/ WriteClient
    \/ Compile
    \/ Reject
    \/ EmitFails
    \/ SidecarFails

CodegenSpec == CodegenInit /\ [][CodegenNext]_codegenVars

-----------------------------------------------------------------------------
(* Properties                                                               *)

Generated == phase = "compile"

\* The layouts and boundaries the manifest names are reached by a page that
\* is rendered on the server, and no boundary stands where there is no layout
\* at all.
Reached ==
    /\ layoutImports \subseteq planSSRLayouts
    /\ errorImports \subseteq planSSRErrors
    /\ errorImports # {} => planSSRLayouts # {}

\* Load returns PageData or LayoutData where a render bridge expects it, a
\* layout's Go file declares Load, and a prerendered page has no PageData
\* without a field.
WellTyped ==
    /\ \A d \in planSSR : HasPageServer(d) => project[d].source \in {"typed", "options", "actions"}
    /\ \A l \in layoutImports : project[l].layout \in {"plain", "typed", "empty"}

\* ManifestCompiles: everything the generator wrote fits together exactly when
\* the project's layouts and boundaries are reached and its Go files are well
\* typed: every name the manifest, the wires, the entries and the wrappers refer
\* to is declared once, and every import is used (GenerateManifest,
\* runSSRTranspile, emitWire, emitClientEntry), whatever an earlier build, whole
\* or broken off, left in .gen.  The projects on the other side of the
\* equivalence are accepted by the generator and rejected by go build.
ManifestCompiles == Generated => (Compiles <=> Reached /\ WellTyped)

\* PrerenderRenders: every page that is to be prerendered has a handler to
\* render it with; an SPA shell would be frozen as its HTML (planSSR, #467).
PrerenderRenders ==
    Generated => \A d \in Pages : Prerendered(d) =>
        /\ PageHandler(d) # "none"
        /\ PageHandler(d) = "render" => \E f \in genFiles : f.pkg = Gen(d) /\ "RenderSSR" \in f.declares

\* OutputFits: a build that gets as far as the compilers has written exactly
\* what they can compile, and a handler for every page that is frozen
\* (GenerateManifest, runSSRTranspile, planSSR).
OutputFits == ManifestCompiles /\ PrerenderRenders

-----------------------------------------------------------------------------
(* What OutputFits rests on                                                 *)

ProjectOK == project = [d \in Dirs |-> project[d]] /\ \A d \in Dirs : DirContents(project[d])

\* Beside the sources there are only declaration files.
TypesOnly == \A f \in genFiles : f.pkg[1] = "dts" => f \in {PageTypes(f.pkg[2]), LayoutTypes(f.pkg[2])}

\* What each phase adds to .gen.
RouteFiles(ds) == UNION {EmittedFor(d) : d \in ds}
PageFiles == UNION {RenderedPage(d) : d \in planSSR}
LayoutFiles == UNION {RenderedLayout(l) : l \in planSSRLayouts}
ErrorFiles == IF planSSRLayouts = {} THEN {} ELSE UNION {RenderedError(e) : e \in planSSRErrors}

\* ... and what is there when a phase begins.  A phase that is passed over
\* would have added nothing.
Early == {"routes", "typegen", "pages"}
Late == {"manifest", "project", "client", "compile"}
Output ==
    RouteFiles(ScannedRoutes \ todo) \cup
    (IF phase \in Early THEN {} ELSE PageFiles) \cup
    (IF phase \in Early \cup {"layouts"} THEN {} ELSE LayoutFiles) \cup
    (IF phase \in Late THEN ErrorFiles ELSE {}) \cup
    (IF phase \in Late \ {"manifest"} THEN {GenerateManifest} ELSE {}) \cup
    (IF phase \in {"client", "compile"} THEN ProjectFiles ELSE {}) \cup
    (IF phase = "compile" THEN ClientFiles ELSE {})

\* All of it.
WholeOutput ==
    RouteFiles(ScannedRoutes) \cup PageFiles \cup LayoutFiles \cup ErrorFiles \cup
    {GenerateManifest} \cup ProjectFiles \cup ClientFiles

Written == {f \in genFiles : f.pkg[1] # "dts"}

WrittenInPhase ==
    /\ phase \in Early \cup Late \cup {"layouts", "errors"} => Written = Output
    /\ phase \in Late \cup {"typegen", "pages", "layouts", "errors"} => todo = {}
    /\ phase \in {"layouts", "errors"} => planSSRLayouts # {}
    /\ phase = "routes" => todo \subseteq ScannedRoutes

CodegenInv == ProjectOK /\ TypesOnly /\ WrittenInPhase
=============================================================================
