----------------------------- MODULE MCBuild ------------------------------
(* From the sources to what is served: the route table and its matching,    *)
(* code generation, the prerender pass with its server, the static deploy,  *)
(* the staging of assets and the handler of static files.  None of the six  *)
(* reads another's state; a behaviour moves one of them.  For code          *)
(* generation, the root directory 1 and a directory 2 below it: the root    *)
(* varies in its layout and boundary, the lower one in everything.          *)
EXTENDS Codegen, Prerender, StaticAssets, MCRoutes

VARIABLE part

Nothing ==
    [kind |-> "none", source |-> "absent", consts |-> <<>>, svelte |-> "absent", fallback |-> FALSE,
     form |-> FALSE, reset |-> FALSE, layout |-> "absent", layoutConsts |-> <<>>,
     layoutSvelte |-> "absent", error |-> FALSE]

Page(source, consts, svelte) ==
    [Nothing EXCEPT !.kind = "page", !.source = source, !.consts = consts, !.svelte = svelte]

NoSSR == [ssr |-> FALSE]

Pagelike ==
    {Nothing, [Nothing EXCEPT !.kind = "rest"]}
    \cup {Page(s, <<>>, v) : s \in {"absent", "options", "actions", "typed", "empty", "other"},
                             v \in {"absent", "bare", "false"}}
    \cup {Page("typed", NoSSR, "absent"), Page("options", NoSSR, "absent"),
          [Page("typed", <<>>, "absent") EXCEPT !.fallback = TRUE, !.form = TRUE],
          [Page("options", [csrf |-> FALSE], "absent") EXCEPT !.fallback = TRUE, !.form = TRUE],
          [Page("typed", <<>>, "absent") EXCEPT !.reset = TRUE, !.fallback = TRUE],
          [Page("empty", <<>>, "absent") EXCEPT !.reset = TRUE]}

Lower ==
    {[p EXCEPT !.layout = l, !.error = e] :
        p \in Pagelike, l \in {"absent", "plain", "options"}, e \in BOOLEAN}

Upper ==
    {[p EXCEPT !.layout = l[1], !.layoutConsts = l[2], !.layoutSvelte = l[3], !.error = e] :
        p \in {Nothing, Page("typed", <<>>, "absent"), Page("absent", <<>>, "absent")},
        l \in {<<"absent", <<>>, "absent">>, <<"plain", <<>>, "absent">>, <<"plain", <<>>, "auto">>,
               <<"typed", NoSSR, "absent">>, <<"empty", <<>>, "absent">>, <<"other", <<>>, "absent">>},
        e \in BOOLEAN}

MCDirs == {1, 2}
MCAbove == <<<<1>>, <<1, 2>>>>
MCProjects == {<<u, l>> : u \in Upper, l \in Lower}
MCRevisions ==
    <<{}, {Page("typed", <<>>, "absent"), Page("typed", <<>>, "true"), Page("absent", <<>>, "true"), Nothing}>>

-----------------------------------------------------------------------------
(* Two releases of a site: a page that becomes protected; a page whose Load *)
(* arrives, beside a dynamic route that loses a parameter; "/" beside       *)
(* "/index".                                                                *)
StaticRoute(p, protected) ==
    [pattern |-> p, page |-> TRUE, prerender |-> TRUE, auto |-> FALSE, dynamic |-> FALSE,
     load |-> FALSE, protected |-> protected, entries |-> {}]
AutoRoute(p, load) == [StaticRoute(p, FALSE) EXCEPT !.auto = TRUE, !.load = load]
SlugRoute(entries) == [StaticRoute("/[p]", TRUE) EXCEPT !.dynamic = TRUE, !.entries = entries]
Endpoint == [StaticRoute("/api", FALSE) EXCEPT !.page = FALSE, !.prerender = FALSE]

MCPathOrder == <<"/", "/a", "/index">>
MCSites ==
    {<<{StaticRoute("/", FALSE), StaticRoute("/a", FALSE)},
       {StaticRoute("/", FALSE), StaticRoute("/a", TRUE)}>>,
     <<{AutoRoute("/", FALSE), SlugRoute({"/a"}), Endpoint},
       {AutoRoute("/", TRUE), SlugRoute({"/a", None})}>>,
     <<{StaticRoute("/", TRUE), StaticRoute("/index", FALSE)},
       {StaticRoute("/", FALSE), SlugRoute({})}>>}

-----------------------------------------------------------------------------
(* Two assets of one base name, in two directories: a picture, one that is  *)
(* too flat to be scaled to width 1, and a file that is no picture.         *)
MCSources == {1, 2}
MCStem == <<"logo", "logo">>
MCPicture ==
    <<[format |-> "png", width |-> 3, height |-> 3], [format |-> "jpeg", width |-> 4, height |-> 1],
      [format |-> "text", width |-> 1, height |-> 1]>>
MCFirstAssets == {<<1, 1>>, <<2, 3>>}
MCLaterAssets == {2, Gone}
MCDefaultWidths == {1}
MCRouteWidths == {{}, {0}, {0, 2}}

Image(tag, src, value) == [tag |-> tag, src |-> src, value |-> value]
MCTemplates ==
    {{}, {Image("Image", 1, "quoted"), Image("Image", 2, "quoted")},
     {Image("Image", 1, "quoted"), Image("Img", 1, "quoted")},
     {Image("Image", 1, "quoted"), Image("Image", 2, "braced")},
     {Image("Image", 1, "dynamic")}}

MCAcceptHeaders ==
    {<<>>, <<[name |-> "gzip", q |-> 1], [name |-> "br", q |-> 1]>>,
     <<[name |-> "br", q |-> 0], [name |-> "*", q |-> 1]>>}

BuildInit ==
    /\ part \in {"routes", "codegen", "serve", "deploy", "stage", "static"}
    /\ RoutesInit
    /\ CodegenInit
    /\ part # "codegen" => project = [d \in MCDirs |-> Nothing]
    /\ PrerenderInit
    /\ part \notin {"serve", "deploy"} => tables = CHOOSE s \in MCSites : TRUE
    /\ StageInit
    /\ part # "stage" => asset = <<1, 1>> /\ elements = {}
    /\ StaticInit
    /\ part # "static" => accept = <<>> /\ ~(config.etag \/ config.brotli \/ config.gzip \/ config.immutable)

BuildNext ==
    /\ UNCHANGED part
    /\ \/ part = "routes" /\ RoutesNext /\ UNCHANGED <<codegenVars, prerenderVars, stageVars, staticVars>>
       \/ part = "codegen" /\ CodegenNext /\ UNCHANGED <<routeVars, prerenderVars, stageVars, staticVars>>
       \/ part = "serve" /\ ServeNext /\ UNCHANGED <<routeVars, codegenVars, stageVars, staticVars>>
       \/ part = "deploy" /\ DeployNext /\ UNCHANGED <<routeVars, codegenVars, stageVars, staticVars>>
       \/ part = "stage" /\ StageNext /\ UNCHANGED <<routeVars, codegenVars, prerenderVars, staticVars>>
       \/ part = "static" /\ StaticNext /\ UNCHANGED <<routeVars, codegenVars, prerenderVars, stageVars>>

BuildSpec == BuildInit /\ [][BuildNext]_<<routeVars, codegenVars, prerenderVars, stageVars, staticVars, part>>
=============================================================================
